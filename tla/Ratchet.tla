------------------------------ MODULE Ratchet -------------------------------
(***************************************************************************)
(* The reference double ratchet of hybrid_ratchet_v2_tr.py, between two    *)
(* parties over a network that loses, repeats and reorders messages, with  *)
(* the receive pipeline and the ledger of hybrid_ratchet_v2_state.py.      *)
(* Keys are terms: a public key is <<party, number>>, a Diffie-Hellman     *)
(* secret the set of its two public keys, a root key the sequence of the   *)
(* secrets mixed into it, which also names the chain derived with it, and  *)
(* a message key a chain with a position.                                  *)
(***************************************************************************)
EXTENDS Naturals, Sequences, FiniteSets, SequencesExt

CONSTANTS
    Alice, Bob,
    NoKey,         \* None
    MaxSkip,       \* MAX_SKIP
    MaxRetained,   \* MAX_MKSKIPPED_RETAINED
    MaxSent,       \* bound: messages of each party
    MaxKeys,       \* bound: local keys of a party
    MaxRestarts    \* bound: crashes

Parties == {Alice, Bob}
Other(p) == IF p = Alice THEN Bob ELSE Alice

ASSUME RatchetConstants ==
    /\ Alice # Bob
    /\ NoKey \notin Parties \X Nat /\ NoKey \notin Seq(SUBSET (Parties \X Nat))
    /\ MaxSkip \in Nat /\ MaxRetained \in Nat

VARIABLES
    head,      \* [Parties -> EcDrState], the live state
    net,       \* messages ever sent
    recv,      \* [Parties -> ReceiveCommitMachine]
    ledger,    \* [Parties -> CommitLedger: messages accepted]
    restarts

ratchetVars == <<head, net, recv, ledger, restarts>>

-----------------------------------------------------------------------------
\* EcDrState.

IdleRecv == [state |-> "idle"]

\* ec_dr_init_alice and ec_dr_init_bob.
RatchetInit ==
    /\ head = [p \in Parties |->
         [rk  |-> IF p = Alice THEN <<{<<Alice, 0>>, <<Bob, 0>>}>> ELSE <<>>,
          dhs |-> 0,
          dhr |-> IF p = Alice THEN <<Bob, 0>> ELSE NoKey,
          cks |-> IF p = Alice THEN <<{<<Alice, 0>>, <<Bob, 0>>}>> ELSE NoKey,
          ckr |-> NoKey,
          ns |-> 0, nr |-> 0, pn |-> 0, skipped |-> <<>>]]
    /\ net = {}
    /\ recv = [p \in Parties |-> IdleRecv]
    /\ ledger = [p \in Parties |-> {}]
    /\ restarts = 0

\* The positions of the chain with key dh that are passed over on the way to n.
Passed(dh, s, n) == {<<dh, i>> : i \in s.nr .. n - 1}

Keeping(s, places) ==
    [k \in DOMAIN s.skipped \cup places |->
        IF k \in DOMAIN s.skipped THEN s.skipped[k] ELSE <<s.ckr, k[2]>>]

\* Skipped keys are kept up to a limit on the step and one on the total.
MaySkip(s, dh, n) ==
    /\ n - s.nr <= MaxSkip
    /\ n > s.nr => Cardinality(DOMAIN s.skipped \cup Passed(dh, s, n)) <= MaxRetained

SkipTo(s, dh, n) == [s EXCEPT !.skipped = Keeping(s, Passed(dh, s, n)), !.nr = n]

\* A new key of the other side: keep what is left of the old chain, then turn
\* the root key twice, the second time with a new local key.
NewKey(p, s, m) ==
    LET kept == IF s.ckr = NoKey THEN s ELSE SkipTo(s, s.dhr, m.pn)
        mine == s.dhs + 1
        rk1  == Append(s.rk, {<<p, s.dhs>>, m.dh})
        rk2  == Append(rk1, {<<p, mine>>, m.dh})
    IN  [kept EXCEPT !.rk = rk2, !.dhs = mine, !.dhr = m.dh, !.cks = rk2, !.ckr = rk1,
                     !.ns = 0, !.nr = 0, !.pn = s.ns]

Turned(p, s, m) == IF m.dh = s.dhr THEN s ELSE NewKey(p, s, m)

MayTurn(s, m) ==
    \/ m.dh = s.dhr \/ s.ckr = NoKey
    \/ m.pn >= s.nr /\ MaySkip(s, s.dhr, m.pn)

Kept(s, m) == <<m.dh, m.n>> \in DOMAIN s.skipped

\* The state that decrypting m yields, and the key: ec_dr_decrypt.
MayDecrypt(p, s, m) ==
    \/ Kept(s, m)
    \/ /\ MayTurn(s, m)
       /\ LET t == Turned(p, s, m) IN
             t.ckr # NoKey /\ m.n >= t.nr /\ MaySkip(t, m.dh, m.n)

KeyFor(p, s, m) ==
    IF Kept(s, m) THEN s.skipped[<<m.dh, m.n>>] ELSE <<Turned(p, s, m).ckr, m.n>>

\* Mutant: a kept key is used without being removed.
AfterKeepsKey(p, s, m) ==
    IF Kept(s, m) THEN s
    ELSE [SkipTo(Turned(p, s, m), m.dh, m.n) EXCEPT !.nr = m.n + 1]

After(p, s, m) ==
    IF Kept(s, m)
    THEN [s EXCEPT !.skipped = [k \in DOMAIN s.skipped \ {<<m.dh, m.n>>} |-> s.skipped[k]]]
    ELSE [SkipTo(Turned(p, s, m), m.dh, m.n) EXCEPT !.nr = m.n + 1]

-----------------------------------------------------------------------------
\* Actions.

\* ec_dr_encrypt, in a session that nobody else is changing.
Encrypt(p) ==
    LET s == head[p] IN
    /\ s.cks # NoKey /\ recv[p] = IdleRecv
    /\ Cardinality({m \in net : m.from = p}) < MaxSent[p]
    /\ net' = net \cup {[from |-> p, dh |-> <<p, s.dhs>>, pn |-> s.pn, n |-> s.ns,
                         key |-> <<s.cks, s.ns>>]}
    /\ head' = [head EXCEPT ![p].ns = @ + 1]
    /\ UNCHANGED <<recv, ledger, restarts>>

\* A candidate state and key are derived for a message, from a copy.
Derive(p, m) ==
    /\ recv[p] = IdleRecv /\ m.from = Other(p)
    /\ MayDecrypt(p, head[p], m)
    /\ After(p, head[p], m).dhs <= MaxKeys
    /\ recv' = [recv EXCEPT ![p] = [state |-> "derived", msg |-> m,
                                    key |-> KeyFor(p, head[p], m),
                                    next |-> After(p, head[p], m)]]
    /\ UNCHANGED <<head, net, ledger, restarts>>

\* The seal opens with its own key only; otherwise nothing has happened.
Open(p) ==
    /\ recv[p].state = "derived"
    /\ recv' = [recv EXCEPT ![p] = IF recv[p].key = recv[p].msg.key
                                   THEN [@ EXCEPT !.state = "pending"] ELSE IdleRecv]
    /\ UNCHANGED <<head, net, ledger, restarts>>

\* The receipt, which tells a repeated message by its key and by its digest.
Commit(p) ==
    /\ recv[p].state = "pending"
    /\ recv' = [recv EXCEPT ![p].state = "sql_committed"]
    /\ ledger' = [ledger EXCEPT ![p] = @ \cup {recv[p].msg}]
    /\ UNCHANGED <<head, net, restarts>>

\* The candidate, with its skipped keys, becomes the live state: persist_MKSKIPPED,
\* FINALIZE_head and clear_PENDING in one step, since the machine, which is kept
\* in memory, says nothing of a crash between them.
Finalize(p) ==
    /\ recv[p].state = "sql_committed"
    /\ head' = [head EXCEPT ![p] = recv[p].next]
    /\ recv' = [recv EXCEPT ![p] = IdleRecv]
    /\ UNCHANGED <<net, ledger, restarts>>

\* A candidate is lost in a crash; a pending record, which is written before the
\* receipt for just that, is not, and is completed.
Restart(p) ==
    /\ restarts < MaxRestarts /\ restarts' = restarts + 1
    /\ recv' = [recv EXCEPT ![p] = IF @.state = "derived" THEN IdleRecv ELSE @]
    /\ UNCHANGED <<head, net, ledger>>

RatchetNext ==
    \E p \in Parties :
       \/ Encrypt(p) \/ Open(p) \/ Commit(p) \/ Finalize(p) \/ Restart(p)
       \/ \E m \in net : Derive(p, m)

RatchetSpec == RatchetInit /\ [][RatchetNext]_ratchetVars

-----------------------------------------------------------------------------
\* Properties.

RatchetTypeOK ==
    /\ \A p \in Parties :
          /\ head[p].ns \in 0 .. MaxSent[p] /\ head[p].nr \in 0 .. MaxSent[Other(p)]
          /\ head[p].dhs \in 0 .. MaxKeys
          /\ recv[p].state \in {"idle", "derived", "pending", "sql_committed"}
          /\ ledger[p] \subseteq net
    /\ restarts \in 0 .. MaxRestarts

\* Whatever the network loses, repeats and reorders: no two messages have one
\* key; a message that was not read yet is opened with its own key whenever the
\* limits let it be decrypted at all, after any number of turns of the ratchet;
\* one that was read is never opened again; and skipped keys keep their bound.
RatchetSound ==
    /\ \A m, o \in net : m.key = o.key => m = o
    /\ \A p \in Parties : Cardinality(DOMAIN head[p].skipped) <= MaxRetained
    /\ \A p \in Parties : recv[p] = IdleRecv =>
          \A m \in {x \in net : x.from = Other(p)} :
             MayDecrypt(p, head[p], m)
                => ((KeyFor(p, head[p], m) = m.key) <=> (m \notin ledger[p]))
=============================================================================
