--------------------------- MODULE TeamGitProofs ---------------------------
(***************************************************************************)
(* Proofs about TeamGit for any nodes, processes, paths and contents: its  *)
(* types, that a pull keeps what programs wrote, and that the protocol of  *)
(* fetch, fast-forward, commit and push implements SharedHistory.  The     *)
(* refinement needs to know of a fetched head that it is still part of the *)
(* remote branch when it is adopted, although others pushed in between:    *)
(* the remote branch only grows at its end.                                *)
(***************************************************************************)
EXTENDS TeamGit, Sums, SequenceTheorems, TLAPS

\* A fetched head that waits to be merged is a prefix of the remote branch.
FetchedInv == \A p \in Procs :
    sync[p].at = "merge" => IsPrefix(sync[p].upstream, remote)

\* The invariant the induction carries.
GitInv == TypeOK /\ FetchedInv

-----------------------------------------------------------------------------
\* Branches.

\* A prefix is given by its length.
LEMMA PrefixMeaning ==
    ASSUME NEW s \in Histories, NEW t \in Histories
    PROVE  IsPrefix(s, t) <=> Len(s) <= Len(t) /\ s = SubSeq(t, 1, Len(s))
BY SubSeqFull DEF Histories, IsPrefix

LEMMA PrefixOfItself ==
    ASSUME NEW s \in Histories
    PROVE  IsPrefix(s, s)
BY LenProperties DEF Histories, IsPrefix

LEMMA PrefixTransitive ==
    ASSUME NEW s \in Histories, NEW t \in Histories, NEW u \in Histories,
           IsPrefix(s, t), IsPrefix(t, u)
    PROVE  IsPrefix(s, u)
<1>1. Len(s) \in Nat /\ Len(t) \in Nat /\ Len(u) \in Nat
  BY LenProperties DEF Histories
<1>2. Len(s) <= Len(t) /\ s = SubSeq(t, 1, Len(s))
  BY PrefixMeaning
<1>3. Len(t) <= Len(u) /\ t = SubSeq(u, 1, Len(t))
  BY PrefixMeaning
<1>4. s = SubSeq(u, 1, Len(s))
  <2>1. CASE Len(s) = 0
    <3>1. SubSeq(t, 1, 0) = <<>> /\ SubSeq(u, 1, 0) = <<>>
      BY SubSeqEmpty
    <3> QED
      BY <1>2, <2>1, <3>1
  <2>2. CASE Len(s) # 0
    <3> DEFINE i == 1
               j == Len(t)
               m == 1
               n == Len(s)
    <3>1. /\ u \in Seq(Commits) /\ t \in Seq(Commits)
          /\ i \in 1 .. Len(u) /\ j \in 1 .. Len(u)
          /\ m \in 1 .. j - i + 1 /\ n \in 1 .. j - i + 1
      BY <1>1, <1>2, <1>3, <2>2 DEF Histories
    <3> HIDE DEF i, j, m, n
    <3>2. SubSeq(SubSeq(u, i, j), m, n) = SubSeq(u, i + m - 1, i + n - 1)
      BY <3>1, SubSeqOfSubSeq, SMT
    <3>3. i + m - 1 = 1 /\ i + n - 1 = Len(s) /\ i = 1 /\ m = 1 /\ j = Len(t) /\ n = Len(s)
      BY <1>1 DEF i, j, m, n
    <3>4. SubSeq(SubSeq(u, 1, Len(t)), 1, Len(s)) = SubSeq(u, 1, Len(s))
      BY <3>2, <3>3
    <3> QED
      BY <1>2, <1>3, <3>4
  <2> QED
    BY <2>1, <2>2
<1>5. Len(s) <= Len(u)
  BY <1>1, <1>2, <1>3
<1> QED
  BY <1>4, <1>5, PrefixMeaning

\* The prefixes that the abstract specification picks from.
LEMMA PrefixAmong ==
    ASSUME NEW s \in Histories, NEW t \in Histories, IsPrefix(s, t)
    PROVE  s \in Prefixes(t)
<1>1. Len(s) \in 0 .. Len(t) /\ s = SubSeq(t, 1, Len(s))
  BY PrefixMeaning, LenProperties DEF Histories
<1> QED
  BY <1>1 DEF Prefixes

\* The tree of a branch.
LEMMA TreeType ==
    ASSUME NEW branch \in Histories
    PROVE  TreeOf(branch) \in Trees
<1>1. CASE branch = <<>>
  BY <1>1 DEF TreeOf, EmptyTree, Trees, Blobs
<1>2. CASE branch # <<>>
  <2>1. Len(branch) \in 1 .. Len(branch)
    BY <1>2, EmptySeq DEF Histories
  <2>2. branch[Len(branch)] \in Commits
    BY <2>1, ElementOfSeq DEF Histories
  <2> QED
    BY <1>2, <2>2 DEF TreeOf, Last, Commits
<1> QED
  BY <1>1, <1>2

\* The common base of two branches is one of their common prefixes.
LEMMA BaseIsShared ==
    ASSUME NEW s \in Histories, NEW t \in Histories
    PROVE  /\ LongestCommonPrefix({s, t}) \in Histories
           /\ IsPrefix(LongestCommonPrefix({s, t}), t)
<1> DEFINE C == CommonPrefixes({s, t})
           Missing == {Len(s) - Len(c) : c \in C}
<1>1. \A c \in C : c \in Histories /\ IsPrefix(c, s) /\ IsPrefix(c, t)
  <2> SUFFICES ASSUME NEW c \in C PROVE c \in Histories /\ IsPrefix(c, s) /\ IsPrefix(c, t)
    OBVIOUS
  <2>1. IsPrefix(c, s) /\ IsPrefix(c, t) /\ c \in UNION {Prefixes(branch) : branch \in {s, t}}
    BY DEF CommonPrefixes
  <2>2. PICK branch \in {s, t} : c \in Prefixes(branch)
    BY <2>1
  <2>4. PICK l \in 0 .. Len(branch) : c = SubSeq(branch, 1, l)
    BY <2>2 DEF Prefixes
  <2>3. \A i \in 1 .. l : branch[i] \in Commits
    BY <2>4 DEF Histories
  <2> QED
    BY <2>1, <2>3, <2>4 DEF Histories
<1>2. <<>> \in C
  <2>1. <<>> \in Histories /\ Len(<<>>) = 0 /\ SubSeq(s, 1, 0) = <<>> /\ SubSeq(t, 1, 0) = <<>>
    BY EmptySeq, SubSeqEmpty DEF Histories
  <2>2. Len(s) \in Nat /\ Len(t) \in Nat
    BY LenProperties DEF Histories
  <2>3. IsPrefix(<<>>, s) /\ IsPrefix(<<>>, t)
    <3>1. SubSeq(<<>>, 1, 0) = <<>>
      BY SubSeqEmpty
    <3> QED
      BY <2>1, <2>2, <3>1 DEF IsPrefix
  <2>4. <<>> \in Prefixes(s)
    BY <2>1, <2>3, PrefixAmong
  <2> QED
    BY <2>3, <2>4 DEF CommonPrefixes
<1>3. \A c \in C : Len(c) \in Nat /\ Len(c) <= Len(s) /\ Len(s) \in Nat
  BY <1>1, PrefixMeaning, LenProperties DEF Histories
<1> HIDE DEF C
<1>4. Missing \subseteq Nat /\ Missing # {}
  BY <1>2, <1>3
<1>5. PICK least \in Missing : \A k \in Missing : least <= k
  BY <1>4, LeastNumber, Zenon
<1>6. PICK c \in C : least = Len(s) - Len(c)
  BY <1>5
<1>7. \A other \in C : Len(other) <= Len(c)
  <2> SUFFICES ASSUME NEW other \in C PROVE Len(other) <= Len(c)
    OBVIOUS
  <2>1. Len(s) - Len(c) <= Len(s) - Len(other)
    BY <1>5, <1>6
  <2> QED
    BY <1>3, <2>1
<1>8. LongestCommonPrefix({s, t}) \in C
  BY <1>7 DEF LongestCommonPrefix, C
<1> QED
  BY <1>1, <1>8

-----------------------------------------------------------------------------
\* What the steps change.

\* A step of one sync only: types and fetched heads, for a remote branch that
\* stays or grows.
LEMMA SyncMoves ==
    ASSUME GitInv, NEW p \in Procs, NEW to \in Stages, NEW fetched \in Histories,
           sync' = [sync EXCEPT ![p] = [at |-> to, upstream |-> fetched]],
           to = "merge" => fetched = remote,
           remote' \in Histories, IsPrefix(remote, remote')
    PROVE  /\ sync' \in [Procs -> [at : Stages, upstream : Histories]]
           /\ FetchedInv'
<1>1. sync \in [Procs -> [at : Stages, upstream : Histories]] /\ remote \in Histories
  BY DEF GitInv, TypeOK
<1>2. sync' \in [Procs -> [at : Stages, upstream : Histories]]
  BY <1>1
<1>3. ASSUME NEW q \in Procs, sync'[q].at = "merge"
      PROVE  IsPrefix(sync'[q].upstream, remote')
  <2>1. CASE q = p
    BY <1>1, <1>3, <2>1
  <2>2. CASE q # p
    <3>1. sync'[q] = sync[q] /\ sync[q].upstream \in Histories
      BY <1>1, <2>2
    <3>2. IsPrefix(sync[q].upstream, remote)
      BY <1>3, <3>1 DEF GitInv, FetchedInv
    <3> QED
      BY <1>1, <3>1, <3>2, PrefixTransitive
  <2> QED
    BY <2>1, <2>2
<1> QED
  BY <1>2, <1>3 DEF FetchedInv

\* The steps that move a sync from one stage to the next.
LEMMA MoveKeeps ==
    ASSUME GitInv, NEW p \in Procs, NEW from, NEW to \in Stages \ {"merge"},
           Move(p, from, to), remote' \in Histories, IsPrefix(remote, remote')
    PROVE  /\ sync' \in [Procs -> [at : Stages, upstream : Histories]]
           /\ FetchedInv'
<1>1. <<>> \in Histories
  BY EmptySeq DEF Histories
<1>2. sync' = [sync EXCEPT ![p] = [at |-> to, upstream |-> <<>>]]
  BY DEF Move
<1> QED
  BY <1>1, <1>2, SyncMoves

\* The fast-forward: what it takes over, and what it checks out.
LEMMA FastForwardFacts ==
    ASSUME GitInv, NEW p \in Procs, FastForward(p)
    PROVE  /\ head' \in [Nodes -> Histories] /\ work' \in [Nodes -> Trees]
           /\ Home[p] \in Nodes
           /\ sync[p].upstream \in Prefixes(remote)
           /\ IsPrefix(head[Home[p]], sync[p].upstream)
           /\ head' = [head EXCEPT ![Home[p]] = sync[p].upstream]
           /\ IsPrefix(sync[p].upstream, remote)
           /\ \A path \in Paths :
                 /\ work[Home[p]][path] \notin {TreeOf(head[Home[p]])[path], Absent} =>
                       work'[Home[p]][path] = work[Home[p]][path]
                 /\ work'[Home[p]][path] \in
                       {work[Home[p]][path], TreeOf(sync[p].upstream)[path]}
                 /\ TreeOf(head[Home[p]])[path] # TreeOf(sync[p].upstream)[path] =>
                       work'[Home[p]][path] = TreeOf(sync[p].upstream)[path]
                 /\ TreeOf(head[Home[p]])[path] = TreeOf(sync[p].upstream)[path] =>
                       work'[Home[p]][path] = work[Home[p]][path]
           /\ \A m \in Nodes \ {Home[p]} : work'[m] = work[m]
<1> DEFINE n == Home[p]
           u == sync[p].upstream
           new == [path \in Paths |-> IF path \in Incoming(head[n], u)
                                      THEN TreeOf(u)[path] ELSE work[n][path]]
<1>1. /\ n \in Nodes /\ u \in Histories /\ remote \in Histories
      /\ head \in [Nodes -> Histories] /\ work \in [Nodes -> Trees]
  BY GitConstants DEF GitInv, TypeOK
<1>2. /\ IsStrictPrefix(head[n], u) /\ ~Overwrites(n, u)
      /\ head' = [head EXCEPT ![n] = u]
      /\ work' = [work EXCEPT ![n] = new]
      /\ sync[p].at = "merge"
  BY DEF FastForward, Move
<1>3. IsPrefix(u, remote)
  BY <1>2 DEF GitInv, FetchedInv
<1>4. u \in Prefixes(remote)
  BY <1>1, <1>3, PrefixAmong
<1>5. new \in Trees
  <2>1. TreeOf(u) \in [Paths -> Blobs] /\ work[n] \in [Paths -> Blobs]
    BY <1>1, TreeType DEF Trees
  <2> QED
    BY <2>1 DEF Trees
<1>6. \A path \in Paths :
         /\ work[n][path] \notin {TreeOf(head[n])[path], Absent} => new[path] = work[n][path]
         /\ new[path] \in {work[n][path], TreeOf(u)[path]}
         /\ TreeOf(head[n])[path] # TreeOf(u)[path] => new[path] = TreeOf(u)[path]
         /\ TreeOf(head[n])[path] = TreeOf(u)[path] => new[path] = work[n][path]
  BY <1>2 DEF Overwrites, Incoming
<1> HIDE DEF new, u, n
<1>7. work' \in [Nodes -> Trees] /\ work'[n] = new /\ head' \in [Nodes -> Histories]
  BY <1>1, <1>2, <1>5
<1>8. IsPrefix(head[n], u)
  BY <1>2 DEF IsStrictPrefix
<1>9. \A path \in Paths :
         /\ work[n][path] \notin {TreeOf(head[n])[path], Absent} =>
               work'[n][path] = work[n][path]
         /\ work'[n][path] \in {work[n][path], TreeOf(u)[path]}
         /\ TreeOf(head[n])[path] # TreeOf(u)[path] => work'[n][path] = TreeOf(u)[path]
         /\ TreeOf(head[n])[path] = TreeOf(u)[path] => work'[n][path] = work[n][path]
  BY <1>6, <1>7
<1>10. \A m \in Nodes \ {n} : work'[m] = work[m]
  BY <1>1, <1>2
<1> QED
  BY <1>1, <1>2, <1>3, <1>4, <1>7, <1>8, <1>9, <1>10 DEF n, u

\* The commit of the worktree, or none.
LEMMA CommitFacts ==
    ASSUME GitInv, NEW p \in Procs, Commit(p)
    PROVE  /\ head' \in [Nodes -> Histories] /\ Home[p] \in Nodes
           /\ TreeOf(head'[Home[p]]) = work[Home[p]]
           /\ \/ head' = head
              \/ \E c \in Commits : /\ c.tree = work[Home[p]]
                                   /\ head' = [head EXCEPT ![Home[p]] = Append(@, c)]
<1> DEFINE n == Home[p]
           c == [by |-> n, tree |-> work[n]]
<1>1. /\ n \in Nodes
      /\ head \in [Nodes -> Histories] /\ work \in [Nodes -> Trees]
  BY GitConstants DEF GitInv, TypeOK
<1>2. c \in Commits /\ c.tree = work[n]
  BY <1>1 DEF Commits
<1>3. \/ head' = head /\ work[n] = TreeOf(head[n])
      \/ head' = [head EXCEPT ![n] = Append(head[n], c)]
  BY DEF Commit
<1> HIDE DEF n, c
<1>4. Append(head[n], c) \in Histories
  BY <1>1, <1>2, AppendProperties DEF Histories
<1>5. head' \in [Nodes -> Histories]
  BY <1>1, <1>3, <1>4
<1>6. TreeOf(Append(head[n], c)) = work[n]
  <2>1. /\ Append(head[n], c) \in Histories /\ Append(head[n], c) # <<>>
        /\ Append(head[n], c)[Len(Append(head[n], c))] = c
    BY <1>1, <1>2, <1>4, AppendProperties DEF Histories
  <2> QED
    BY <1>2, <2>1 DEF TreeOf, Last
<1>7. TreeOf(head'[n]) = work[n]
  BY <1>1, <1>3, <1>6
<1> QED
  BY <1>1, <1>2, <1>3, <1>5, <1>7 DEF n

\* A push, of which the answer may be lost: the remote branch grows.
LEMMA PushFacts ==
    ASSUME GitInv, NEW p \in Procs, Send(p) \/ NetworkFails(p)
    PROVE  /\ remote' \in Histories /\ IsPrefix(remote, remote')
           /\ Home[p] \in Nodes
           /\ \/ remote' = remote
              \/ IsPrefix(remote, head[Home[p]]) /\ remote' = head[Home[p]]
<1>1. /\ Home[p] \in Nodes /\ remote \in Histories /\ head[Home[p]] \in Histories
  BY GitConstants DEF GitInv, TypeOK
<1>2. \/ remote' = remote
      \/ IsPrefix(remote, head[Home[p]]) /\ remote' = head[Home[p]]
  BY DEF Send, NetworkFails
<1>3. IsPrefix(remote, remote)
  BY <1>1, PrefixOfItself
<1> QED
  BY <1>1, <1>2, <1>3

\* A person's replay on top of the remote branch.
LEMMA ReconcileFacts ==
    ASSUME GitInv, NEW n \in Nodes, Reconcile(n)
    PROVE  /\ head' \in [Nodes -> Histories] /\ work' \in [Nodes -> Trees]
           /\ \E c \in Commits :
                 /\ head' = [head EXCEPT ![n] = Append(remote, c)]
                 /\ work' = [work EXCEPT ![n] = c.tree]
                 /\ \A path \in Paths :
                       /\ c.tree[path] \in {TreeOf(head[n])[path], TreeOf(remote)[path]}
                       /\ TreeOf(head[n])[path] # TreeOf(
                             LongestCommonPrefix({head[n], remote}))[path] =>
                                c.tree[path] = TreeOf(head[n])[path]
                       /\ TreeOf(head[n])[path] = TreeOf(
                             LongestCommonPrefix({head[n], remote}))[path] =>
                                c.tree[path] = TreeOf(remote)[path]
<1> DEFINE base == LongestCommonPrefix({head[n], remote})
           mine == {path \in Paths : TreeOf(head[n])[path] # TreeOf(base)[path]}
           tree == [path \in Paths |-> IF path \in mine THEN TreeOf(head[n])[path]
                                       ELSE TreeOf(remote)[path]]
           c == [by |-> n, tree |-> tree]
<1>1. /\ head \in [Nodes -> Histories] /\ work \in [Nodes -> Trees]
      /\ remote \in Histories /\ head[n] \in Histories
  BY DEF GitInv, TypeOK
<1>2. /\ head' = [head EXCEPT ![n] = Append(remote, c)]
      /\ work' = [work EXCEPT ![n] = tree]
  BY DEF Reconcile
<1>3. tree \in Trees
  <2>1. TreeOf(head[n]) \in [Paths -> Blobs] /\ TreeOf(remote) \in [Paths -> Blobs]
    BY <1>1, TreeType DEF Trees
  <2> HIDE DEF mine
  <2> QED
    BY <2>1 DEF Trees
<1>6. \A path \in Paths :
         /\ tree[path] \in {TreeOf(head[n])[path], TreeOf(remote)[path]}
         /\ TreeOf(head[n])[path] # TreeOf(base)[path] => tree[path] = TreeOf(head[n])[path]
         /\ TreeOf(head[n])[path] = TreeOf(base)[path] => tree[path] = TreeOf(remote)[path]
  OBVIOUS
<1> HIDE DEF tree
<1>4. c \in Commits /\ c.tree = tree
  BY <1>3 DEF Commits
<1> HIDE DEF c
<1>5. Append(remote, c) \in Histories
  BY <1>1, <1>4, AppendProperties DEF Histories
<1> QED
  BY <1>1, <1>2, <1>3, <1>4, <1>5, <1>6

-----------------------------------------------------------------------------
\* The induction.

LEMMA GitStarts == InitGit => GitInv
<1> SUFFICES ASSUME InitGit PROVE GitInv
  OBVIOUS
<1>1. <<>> \in Histories
  BY EmptySeq DEF Histories
<1>2. EmptyTree \in Trees
  BY DEF EmptyTree, Trees, Blobs
<1>3. NoSync \in [at : Stages, upstream : Histories] /\ NoSync.at # "merge"
  BY <1>1 DEF NoSync, Stages
<1>4. /\ remote = <<>> /\ faults = 0
      /\ head = [n \in Nodes |-> <<>>]
      /\ work = [n \in Nodes |-> EmptyTree]
      /\ sync = [p \in Procs |-> NoSync]
  BY DEF InitGit
<1>5. TypeOK
  BY <1>1, <1>2, <1>3, <1>4 DEF TypeOK
<1>6. FetchedInv
  BY <1>3, <1>4 DEF FetchedInv
<1> QED
  BY <1>5, <1>6 DEF GitInv

\* A step of commit_push, its two failures of the network included.
LEMMA SyncKeeps ==
    ASSUME GitInv, NEW p \in Procs, SyncStep(p) \/ NetworkFails(p)
    PROVE  GitInv'
<1>1. /\ remote \in Histories /\ head \in [Nodes -> Histories]
      /\ work \in [Nodes -> Trees] /\ faults \in Nat
      /\ IsPrefix(remote, remote)
  BY PrefixOfItself DEF GitInv, TypeOK
<1>2. {"fetch", "failed", "commit", "compare", "ok", "send"} \subseteq Stages \ {"merge"}
  BY DEF Stages, Locked
\* Steps that only move the sync.
<1>3. ASSUME NEW from, NEW to \in Stages \ {"merge"}, Move(p, from, to),
             UNCHANGED <<remote, head, work, faults>>
      PROVE  GitInv'
  <2>1. sync' \in [Procs -> [at : Stages, upstream : Histories]] /\ FetchedInv'
    BY <1>1, <1>3, MoveKeeps
  <2> QED
    BY <1>1, <1>3, <2>1 DEF GitInv, TypeOK
<1>4. CASE Enter(p) \/ LockTimeout(p) \/ UpToDate(p) \/ PullRefused(p) \/ SendRejected(p)
  BY <1>2, <1>3, <1>4 DEF Enter, LockTimeout, UpToDate, PullRefused, SendRejected
<1>5. CASE Compare(p)
  BY <1>2, <1>3, <1>5 DEF Compare
<1>6. CASE Fetch(p)
  <2>1. /\ sync' = [sync EXCEPT ![p] = [at |-> "merge", upstream |-> remote]]
        /\ UNCHANGED <<remote, head, work, faults>>
    BY <1>6 DEF Fetch
  <2>2. sync' \in [Procs -> [at : Stages, upstream : Histories]] /\ FetchedInv'
    <3>1. "merge" \in Stages
      BY DEF Stages, Locked
    <3> QED
      BY <1>1, <2>1, <3>1, SyncMoves
  <2> QED
    BY <1>1, <2>1, <2>2 DEF GitInv, TypeOK
<1>7. CASE FastForward(p)
  <2>1. head' \in [Nodes -> Histories] /\ work' \in [Nodes -> Trees]
    BY <1>7, FastForwardFacts
  <2>2. Move(p, "merge", "commit") /\ UNCHANGED <<remote, faults>>
    BY <1>7 DEF FastForward
  <2>3. sync' \in [Procs -> [at : Stages, upstream : Histories]] /\ FetchedInv'
    BY <1>1, <1>2, <2>2, MoveKeeps
  <2> QED
    BY <1>1, <2>1, <2>2, <2>3 DEF GitInv, TypeOK
<1>8. CASE Commit(p)
  <2>1. head' \in [Nodes -> Histories]
    BY <1>8, CommitFacts
  <2>2. Move(p, "commit", "compare") /\ UNCHANGED <<remote, work, faults>>
    BY <1>8 DEF Commit
  <2>3. sync' \in [Procs -> [at : Stages, upstream : Histories]] /\ FetchedInv'
    BY <1>1, <1>2, <2>2, MoveKeeps
  <2> QED
    BY <1>1, <2>1, <2>2, <2>3 DEF GitInv, TypeOK
<1>9. CASE Send(p) \/ NetworkFails(p)
  <2>1. remote' \in Histories /\ IsPrefix(remote, remote')
    BY <1>9, PushFacts
  <2>2. PICK from, to \in Stages \ {"merge"} : Move(p, from, to)
    BY <1>2, <1>9 DEF Send, NetworkFails
  <2>3. UNCHANGED <<head, work>> /\ faults' \in Nat
    BY <1>1, <1>9 DEF Send, NetworkFails
  <2>4. sync' \in [Procs -> [at : Stages, upstream : Histories]] /\ FetchedInv'
    BY <2>1, <2>2, MoveKeeps
  <2> QED
    BY <1>1, <2>1, <2>3, <2>4 DEF GitInv, TypeOK
<1> QED
  BY <1>4, <1>5, <1>6, <1>7, <1>8, <1>9 DEF SyncStep

LEMMA GitNextKeeps == GitInv /\ [Next]_gitVars => GitInv'
<1> SUFFICES ASSUME GitInv, [Next]_gitVars PROVE GitInv'
  OBVIOUS
<1>1. /\ remote \in Histories /\ head \in [Nodes -> Histories]
      /\ work \in [Nodes -> Trees] /\ faults \in Nat
      /\ sync \in [Procs -> [at : Stages, upstream : Histories]]
      /\ IsPrefix(remote, remote) /\ FetchedInv
  BY PrefixOfItself DEF GitInv, TypeOK
<1>2. ASSUME NEW p \in Procs, Call(p) \/ Return(p) \/ Crash(p)
      PROVE  GitInv'
  <2>1. /\ \E to \in {"wait", "idle"} :
              sync' = [sync EXCEPT ![p] = [at |-> to, upstream |-> <<>>]]
        /\ UNCHANGED <<remote, head, work>> /\ faults' \in Nat
    BY <1>1, <1>2 DEF Call, Return, Crash, Asked, NoSync
  <2>2. sync' \in [Procs -> [at : Stages, upstream : Histories]] /\ FetchedInv'
    <3>1. {"wait", "idle"} \subseteq Stages \ {"merge"} /\ <<>> \in Histories
      BY EmptySeq DEF Stages, Histories
    <3> QED
      BY <1>1, <2>1, <3>1, SyncMoves
  <2> QED
    BY <1>1, <2>1, <2>2 DEF GitInv, TypeOK
<1>3. ASSUME NEW p \in Procs, SyncStep(p) \/ NetworkFails(p)
      PROVE  GitInv'
  BY <1>3, SyncKeeps
<1>4. ASSUME NEW n \in Nodes, Reconcile(n)
      PROVE  GitInv'
  <2>1. head' \in [Nodes -> Histories] /\ work' \in [Nodes -> Trees]
    BY <1>4, ReconcileFacts
  <2>2. UNCHANGED <<remote, sync, faults>>
    BY <1>4 DEF Reconcile
  <2> QED
    BY <1>1, <2>1, <2>2 DEF GitInv, TypeOK, FetchedInv
<1>5. ASSUME NEW n \in Nodes, NEW path \in Paths, NEW blob \in Blobs, Write(n, path, blob)
      PROVE  GitInv'
  <2>1. /\ work' = [work EXCEPT ![n][path] = blob]
        /\ UNCHANGED <<remote, head, sync, faults>>
    BY <1>5 DEF Write
  <2>2. work' \in [Nodes -> Trees]
    BY <1>1, <2>1 DEF Trees
  <2> QED
    BY <1>1, <2>1, <2>2 DEF GitInv, TypeOK, FetchedInv
<1>6. CASE UNCHANGED gitVars
  BY <1>1, <1>6 DEF gitVars, GitInv, TypeOK, FetchedInv
<1> QED
  BY <1>2, <1>3, <1>4, <1>5, <1>6 DEF Next

LEMMA GitInvariant == Spec => []GitInv
BY GitStarts, GitNextKeeps, PTL DEF Spec

\* No pull, of however many commits, overwrites or removes a file that a program
\* wrote since the last commit of its node.
THEOREM PullsKeepWrites == Spec => WritesSurvivePulls
<1> DEFINE Kept ==
      \A p \in Procs : sync[p].at = "merge" =>
         \A path \in Paths :
            LET n == Home[p]
                mine == work[n][path]
            IN  mine \notin {TreeOf(head[n])[path], Absent} =>
                    work'[n][path] = mine \/ sync'[p] = sync[p]
<1>1. ASSUME GitInv, Next PROVE Kept
  <2>1. sync \in [Procs -> [at : Stages, upstream : Histories]]
    BY <1>1 DEF GitInv, TypeOK
  <2>2. CASE work' = work \/ sync' = sync
    BY <2>2
  <2>3. CASE \E q \in Procs : FastForward(q)
    <3>1. PICK q \in Procs : FastForward(q)
      BY <2>3
    <3>2. \A p \in Procs : p # q => sync'[p] = sync[p]
      BY <2>1, <3>1 DEF FastForward, Move
    <3>3. \A path \in Paths :
             work[Home[q]][path] \notin {TreeOf(head[Home[q]])[path], Absent} =>
                work'[Home[q]][path] = work[Home[q]][path]
      BY <1>1, <3>1, FastForwardFacts
    <3> QED
      BY <3>2, <3>3
  <2>4. work' = work \/ sync' = sync \/ \E q \in Procs : FastForward(q)
    BY <1>1 DEF Next, SyncStep, Call, Return, Crash, Enter, LockTimeout, Fetch, UpToDate,
       PullRefused, Commit, Compare, Send, SendRejected, NetworkFails, Reconcile, Write
  <2> QED
    BY <2>2, <2>3, <2>4
<1>2. GitInv /\ [Next]_gitVars => [Kept]_gitVars
  BY <1>1
<1> QED
  BY <1>2, GitInvariant, PTL DEF Spec, WritesSurvivePulls

-----------------------------------------------------------------------------
\* Files: the synchronisation only moves them.

\* A step of the synchronisation, or of somebody who asks for one.
GitMoves ==
    \/ \E p \in Procs : SyncStep(p) \/ NetworkFails(p) \/ Call(p) \/ Return(p)
    \/ \E n \in Nodes : Reconcile(n)

\* Every copy of a path, in the worktrees, the branches and the fetched heads, is
\* one of S.
InBranch(branch, path, S) == \A i \in 1 .. Len(branch) : branch[i].tree[path] \in S

CopiesAmong(path, S) ==
    /\ InBranch(remote, path, S)
    /\ \A n \in Nodes : InBranch(head[n], path, S) /\ work[n][path] \in S
    /\ \A p \in Procs : InBranch(sync[p].upstream, path, S)

LEMMA TipIn ==
    ASSUME NEW branch \in Histories, NEW path \in Paths, NEW S, Absent \in S,
           InBranch(branch, path, S)
    PROVE  TreeOf(branch)[path] \in S
<1>1. CASE branch = <<>>
  BY <1>1 DEF TreeOf, EmptyTree
<1>2. CASE branch # <<>>
  <2>1. Len(branch) \in 1 .. Len(branch)
    BY <1>2, EmptySeq DEF Histories
  <2> QED
    BY <1>2, <2>1 DEF TreeOf, Last, InBranch
<1> QED
  BY <1>1, <1>2

LEMMA AppendIn ==
    ASSUME NEW branch \in Histories, NEW path, NEW S, NEW c \in Commits,
           InBranch(branch, path, S), c.tree[path] \in S
    PROVE  InBranch(Append(branch, c), path, S)
BY AppendProperties DEF Histories, InBranch

LEMMA EmptyIn ==
    ASSUME NEW path, NEW S
    PROVE  InBranch(<<>>, path, S)
BY EmptySeq DEF InBranch

\* Whatever is asked for, returned, or interrupted, and every step of a sync.
LEMMA FilesOnlyMove ==
    ASSUME GitInv, NEW path \in Paths, NEW S, Absent \in S, CopiesAmong(path, S),
           GitMoves
    PROVE  CopiesAmong(path, S)'
<1>1. /\ remote \in Histories /\ head \in [Nodes -> Histories]
      /\ work \in [Nodes -> Trees]
      /\ sync \in [Procs -> [at : Stages, upstream : Histories]]
  BY DEF GitInv, TypeOK
<1>2. /\ InBranch(remote, path, S)
      /\ \A n \in Nodes : InBranch(head[n], path, S) /\ work[n][path] \in S
      /\ \A p \in Procs : InBranch(sync[p].upstream, path, S)
  BY DEF CopiesAmong
<1>3. ASSUME NEW p \in Procs, NEW record, sync' = [sync EXCEPT ![p] = record],
             InBranch(record.upstream, path, S)
      PROVE  \A q \in Procs : InBranch(sync'[q].upstream, path, S)
  BY <1>1, <1>2, <1>3
<1>4. ASSUME NEW p \in Procs, NEW from, NEW to, Move(p, from, to)
      PROVE  \A q \in Procs : InBranch(sync'[q].upstream, path, S)
  BY <1>3, <1>4, EmptyIn DEF Move
<1>5. ASSUME NEW p \in Procs, FastForward(p) PROVE CopiesAmong(path, S)'
  <2> DEFINE n == Home[p]
             u == sync[p].upstream
  <2>1. /\ n \in Nodes /\ head' = [head EXCEPT ![n] = u]
        /\ work'[n][path] \in {work[n][path], TreeOf(u)[path]}
        /\ \A m \in Nodes \ {n} : work'[m] = work[m]
    BY <1>5, FastForwardFacts
  <2>2. remote' = remote /\ Move(p, "merge", "commit")
    BY <1>5 DEF FastForward
  <2>3. u \in Histories /\ InBranch(u, path, S)
    BY <1>1, <1>2
  <2>4. TreeOf(u)[path] \in S
    BY <2>3, TipIn
  <2> HIDE DEF n, u
  <2>5. \A m \in Nodes : InBranch(head'[m], path, S) /\ work'[m][path] \in S
    BY <1>1, <1>2, <2>1, <2>3, <2>4
  <2> QED
    BY <1>2, <1>4, <2>2, <2>5 DEF CopiesAmong, InBranch
<1>6. ASSUME NEW p \in Procs, Commit(p) PROVE CopiesAmong(path, S)'
  <2>1. /\ Home[p] \in Nodes
        /\ \/ head' = head
           \/ \E c \in Commits : /\ c.tree = work[Home[p]]
                                 /\ head' = [head EXCEPT ![Home[p]] = Append(@, c)]
    BY <1>6, CommitFacts
  <2>2. remote' = remote /\ work' = work /\ Move(p, "commit", "compare")
    BY <1>6 DEF Commit
  <2>3. \A m \in Nodes : InBranch(head'[m], path, S)
    <3>1. CASE head' = head
      BY <1>2, <3>1
    <3>2. ASSUME NEW c \in Commits, c.tree = work[Home[p]],
                 head' = [head EXCEPT ![Home[p]] = Append(@, c)]
          PROVE  \A m \in Nodes : InBranch(head'[m], path, S)
      <4>1. InBranch(Append(head[Home[p]], c), path, S)
        BY <1>1, <1>2, <2>1, <3>2, AppendIn
      <4> QED
        BY <1>1, <1>2, <2>1, <3>2, <4>1
    <3> QED
      BY <2>1, <3>1, <3>2
  <2>4. InBranch(remote', path, S)
    BY <1>2, <2>2
  <2> QED
    BY <1>2, <1>4, <2>2, <2>3, <2>4 DEF CopiesAmong, InBranch
<1>7. ASSUME NEW p \in Procs, Send(p) \/ NetworkFails(p) PROVE CopiesAmong(path, S)'
  <2>1. Home[p] \in Nodes /\ (remote' = remote \/ remote' = head[Home[p]])
    BY <1>7, PushFacts
  <2>2. head' = head /\ work' = work /\ \E from, to : Move(p, from, to)
    BY <1>7 DEF Send, NetworkFails
  <2>3. InBranch(remote', path, S)
    BY <1>2, <2>1
  <2>4. \A q \in Procs : InBranch(sync'[q].upstream, path, S)
    BY <1>4, <2>2
  <2> QED
    BY <1>2, <2>2, <2>3, <2>4 DEF CopiesAmong, InBranch
<1>8. ASSUME UNCHANGED <<remote, head, work>>,
             \A q \in Procs : InBranch(sync'[q].upstream, path, S)
      PROVE  CopiesAmong(path, S)'
  BY <1>2, <1>8 DEF CopiesAmong, InBranch
<1>9. ASSUME NEW p \in Procs, Fetch(p) PROVE CopiesAmong(path, S)'
  BY <1>2, <1>3, <1>8, <1>9 DEF Fetch
<1>10. ASSUME NEW p \in Procs, Call(p) \/ Return(p) PROVE CopiesAmong(path, S)'
  <2>1. UNCHANGED <<remote, head, work>> /\ \E to \in {"wait", "idle"} :
           sync' = [sync EXCEPT ![p] = [at |-> to, upstream |-> <<>>]]
    BY <1>10 DEF Call, Return, Asked, NoSync
  <2>2. \A q \in Procs : InBranch(sync'[q].upstream, path, S)
    BY <1>3, <2>1, EmptyIn
  <2> QED
    BY <1>8, <2>1, <2>2
<1>11. ASSUME NEW p \in Procs, Enter(p) \/ LockTimeout(p) \/ UpToDate(p) \/ PullRefused(p)
                               \/ SendRejected(p) \/ Compare(p)
       PROVE  CopiesAmong(path, S)'
  <2>1. UNCHANGED <<remote, head, work>> /\ \E from, to : Move(p, from, to)
    BY <1>11 DEF Enter, LockTimeout, UpToDate, PullRefused, SendRejected, Compare
  <2> QED
    BY <1>4, <1>8, <2>1
<1>12. ASSUME NEW n \in Nodes, Reconcile(n) PROVE CopiesAmong(path, S)'
  <2>1. PICK c \in Commits :
           /\ head' = [head EXCEPT ![n] = Append(remote, c)]
           /\ work' = [work EXCEPT ![n] = c.tree]
           /\ c.tree[path] \in {TreeOf(head[n])[path], TreeOf(remote)[path]}
    BY <1>12, ReconcileFacts
  <2>2. remote' = remote /\ sync' = sync
    BY <1>12 DEF Reconcile
  <2>3. c.tree[path] \in S
    BY <1>1, <1>2, <2>1, TipIn
  <2>4. InBranch(Append(remote, c), path, S)
    BY <1>1, <1>2, <2>3, AppendIn
  <2>5. \A m \in Nodes : InBranch(head'[m], path, S) /\ work'[m][path] \in S
    BY <1>1, <1>2, <2>1, <2>3, <2>4
  <2> QED
    BY <1>2, <2>2, <2>5 DEF CopiesAmong, InBranch
<1> QED
  BY <1>5, <1>6, <1>7, <1>9, <1>10, <1>11, <1>12 DEF GitMoves, SyncStep

-----------------------------------------------------------------------------
\* The lock, and what a successful sync publishes.

\* A sync takes the lock when nobody of its node has it.
LEMMA LockKept ==
    ASSUME GitInv, OneAtATime, NEW p \in Procs, NEW record,
           sync' = [sync EXCEPT ![p] = record],
           record.at \in Locked => sync[p].at \in Locked \/ Unlocked(Home[p])
    PROVE  OneAtATime'
<1>1. sync \in [Procs -> [at : Stages, upstream : Histories]]
  BY DEF GitInv, TypeOK
<1>2. sync'[p] = record /\ \A q \in Procs \ {p} : sync'[q] = sync[q]
  BY <1>1
<1> QED
  BY <1>2 DEF OneAtATime, Unlocked

\* Every step of a sync, by the stage it leaves and the stage it goes to.
LEMMA SyncRecord ==
    ASSUME GitInv, NEW p \in Procs, SyncStep(p) \/ NetworkFails(p)
    PROVE  \E record : /\ sync' = [sync EXCEPT ![p] = record]
                       /\ record.at \in Locked =>
                             sync[p].at \in Locked \/ Unlocked(Home[p])
<1>1. CASE \E from, to : Move(p, from, to) /\ (to \in Locked =>
                            from \in Locked \/ Unlocked(Home[p]))
  BY <1>1 DEF Move
<1>2. CASE Fetch(p)
  BY <1>2 DEF Fetch, Locked
<1>3. CASE Enter(p)
  BY <1>1, <1>3 DEF Enter
<1>4. CASE LockTimeout(p) \/ PullRefused(p) \/ SendRejected(p) \/ Send(p) \/ NetworkFails(p)
  <2>1. {"failed", "ok"} \cap Locked = {}
    BY DEF Locked
  <2> QED
    BY <1>1, <1>4, <2>1 DEF LockTimeout, PullRefused, SendRejected, Send, NetworkFails
<1>5. CASE UpToDate(p) \/ FastForward(p) \/ Commit(p) \/ Compare(p)
  <2>1. {"merge", "commit", "compare"} \subseteq Locked
    BY DEF Locked
  <2> QED
    BY <1>1, <1>5, <2>1 DEF UpToDate, FastForward, Commit, Compare
<1> QED
  BY <1>2, <1>3, <1>4, <1>5 DEF SyncStep

LEMMA LockKeeps ==
    ASSUME GitInv, OneAtATime, GitMoves
    PROVE  OneAtATime'
<1>1. ASSUME NEW p \in Procs, SyncStep(p) \/ NetworkFails(p) PROVE OneAtATime'
  BY <1>1, SyncRecord, LockKept
<1>2. ASSUME NEW p \in Procs, Call(p) \/ Return(p) PROVE OneAtATime'
  <2>1. \E to \in {"wait", "idle"} :
           sync' = [sync EXCEPT ![p] = [at |-> to, upstream |-> <<>>]]
    BY <1>2 DEF Call, Return, Asked, NoSync
  <2>2. "wait" \notin Locked /\ "idle" \notin Locked
    BY DEF Locked
  <2> QED
    BY <2>1, <2>2, LockKept
<1>3. ASSUME NEW n \in Nodes, Reconcile(n) PROVE OneAtATime'
  BY <1>3 DEF Reconcile, OneAtATime
<1> QED
  BY <1>1, <1>2, <1>3 DEF GitMoves

LEMMA OneSyncPerNode == Spec => []OneAtATime
<1>1. InitGit => OneAtATime
  BY DEF InitGit, OneAtATime, NoSync, Locked
<1>2. GitInv /\ OneAtATime /\ [Next]_gitVars => OneAtATime'
  <2> SUFFICES ASSUME GitInv, OneAtATime, [Next]_gitVars PROVE OneAtATime'
    OBVIOUS
  <2>1. CASE GitMoves
    BY <2>1, LockKeeps
  <2>2. ASSUME NEW p \in Procs, Crash(p) PROVE OneAtATime'
    <3>1. sync' = [sync EXCEPT ![p] = NoSync] /\ NoSync.at \notin Locked
      BY <2>2 DEF Crash, NoSync, Locked
    <3> QED
      BY <3>1, LockKept
  <2>3. CASE sync' = sync
    BY <2>3 DEF OneAtATime
  <2> QED
    BY <2>1, <2>2, <2>3 DEF Next, GitMoves, Write, gitVars
<1> QED
  BY <1>1, <1>2, GitInvariant, PTL DEF Spec

\* Branches stay sequences of commits, worktrees stay trees of the team paths, and
\* the lock of a node is never held by two syncs, however many processes time out
\* waiting for it or are killed while they hold it.
THEOREM GitTypes == Spec => []GitTypeOK
<1>1. GitInv => TypeOK
  BY DEF GitInv
<1> QED
  BY <1>1, GitInvariant, OneSyncPerNode, PTL DEF GitTypeOK

\* Some commit of the remote branch has a file at the path.
RemoteHas(path) == ~ InBranch(remote, path, {Absent})

LEMMA LongerHas ==
    ASSUME NEW s \in Histories, NEW t \in Histories, IsPrefix(s, t), NEW path,
           ~ InBranch(s, path, {Absent})
    PROVE  ~ InBranch(t, path, {Absent})
<1>1. Len(s) <= Len(t) /\ s = SubSeq(t, 1, Len(s)) /\ Len(s) \in Nat /\ Len(t) \in Nat
  BY PrefixMeaning, LenProperties DEF Histories
<1>2. \A i \in 1 .. Len(s) : i \in 1 .. Len(t) /\ s[i] = t[i]
  BY <1>1 DEF Histories
<1> QED
  BY <1>2 DEF InBranch

LEMMA TipPublished ==
    ASSUME NEW branch \in Histories, NEW path \in Paths, TreeOf(branch)[path] # Absent
    PROVE  ~ InBranch(branch, path, {Absent})
BY TipIn

LEMMA RemoteGrows ==
    ASSUME GitInv, GitMoves
    PROVE  remote' \in Histories /\ IsPrefix(remote, remote')
<1>1. remote \in Histories /\ IsPrefix(remote, remote)
  BY PrefixOfItself DEF GitInv, TypeOK
<1>2. CASE remote' = remote
  BY <1>1, <1>2
<1>3. CASE \E p \in Procs : Send(p) \/ NetworkFails(p)
  BY <1>3, PushFacts
<1> QED
  BY <1>2, <1>3 DEF GitMoves, SyncStep, Call, Return, Enter, LockTimeout, Fetch, UpToDate,
     FastForward, PullRefused, Commit, Compare, SendRejected, Reconcile

\* A file of a worktree stays there until the remote branch has had it.
LEMMA FileSurvives ==
    ASSUME GitInv, GitMoves, NEW n \in Nodes, NEW path \in Paths,
           work[n][path] # Absent \/ RemoteHas(path)
    PROVE  work'[n][path] # Absent \/ RemoteHas(path)'
<1>1. /\ remote \in Histories /\ head \in [Nodes -> Histories]
      /\ work \in [Nodes -> Trees]
      /\ sync \in [Procs -> [at : Stages, upstream : Histories]]
  BY DEF GitInv, TypeOK
<1>2. RemoteHas(path) => RemoteHas(path)'
  <2>1. remote' \in Histories /\ IsPrefix(remote, remote')
    BY RemoteGrows
  <2>2. ~ InBranch(remote, path, {Absent}) => ~ InBranch(remote', path, {Absent})
    BY <1>1, <2>1, LongerHas
  <2> QED
    BY <2>2 DEF RemoteHas, InBranch
<1> SUFFICES ASSUME work[n][path] # Absent, ~ RemoteHas(path), work'[n][path] = Absent
             PROVE  FALSE
  BY <1>2
<1>3. ASSUME NEW p \in Procs, FastForward(p) PROVE FALSE
  <2> DEFINE u == sync[p].upstream
  <2>1. /\ u \in Histories /\ IsPrefix(head[Home[p]], u) /\ IsPrefix(u, remote)
        /\ Home[p] \in Nodes
        /\ work[Home[p]][path] \notin {TreeOf(head[Home[p]])[path], Absent} =>
              work'[Home[p]][path] = work[Home[p]][path]
        /\ \A m \in Nodes \ {Home[p]} : work'[m] = work[m]
    BY <1>1, <1>3, FastForwardFacts
  <2>2. n = Home[p]
    BY <2>1
  <2>3. head[n] \in Histories
    BY <1>1
  <2>4. TreeOf(head[n])[path] # Absent
    BY <2>1, <2>2
  <2>5. ~ InBranch(head[n], path, {Absent})
    BY <2>3, <2>4, TipPublished
  <2> HIDE DEF u
  <2>6. ~ InBranch(u, path, {Absent})
    BY <2>1, <2>2, <2>3, <2>5, LongerHas
  <2>7. ~ InBranch(remote, path, {Absent})
    BY <1>1, <2>1, <2>6, LongerHas
  <2> QED
    BY <2>7 DEF RemoteHas
<1>4. ASSUME NEW m \in Nodes, Reconcile(m) PROVE FALSE
  <2> DEFINE base == LongestCommonPrefix({head[m], remote})
  <2>1. PICK c \in Commits :
           /\ work' = [work EXCEPT ![m] = c.tree]
           /\ TreeOf(head[m])[path] # TreeOf(base)[path] =>
                 c.tree[path] = TreeOf(head[m])[path]
    BY <1>4, ReconcileFacts
  <2>2. n = m /\ c.tree[path] = Absent
    BY <1>1, <2>1
  <2>3. work[n] = TreeOf(head[n])
    BY <1>4, <2>2 DEF Reconcile
  <2>4. TreeOf(base)[path] # Absent
    BY <2>1, <2>2, <2>3
  <2>5. base \in Histories /\ IsPrefix(base, remote)
    BY <1>1, BaseIsShared
  <2> HIDE DEF base
  <2>6. ~ InBranch(remote, path, {Absent})
    BY <1>1, <2>4, <2>5, TipPublished, LongerHas
  <2> QED
    BY <2>6 DEF RemoteHas
<1>5. work' = work \/ (\E p \in Procs : FastForward(p)) \/ \E m \in Nodes : Reconcile(m)
  BY DEF GitMoves, SyncStep, Call, Return, Enter, LockTimeout, Fetch, UpToDate,
     PullRefused, Commit, Compare, Send, SendRejected, NetworkFails
<1> QED
  BY <1>3, <1>4, <1>5

\* What p's sync carries to the remote branch: the file at path of its node.
Carried(p, path) ==
    /\ work[Home[p]][path] # Absent \/ RemoteHas(path)
    /\ sync[p].at \in {"compare", "send"} =>
          TreeOf(head[Home[p]])[path] # Absent \/ RemoteHas(path)
    /\ sync[p].at = "ok" => RemoteHas(path)

\* Who has no commit to send under the lock has its branch left alone.
LEMMA HeadLeftAlone ==
    ASSUME GitInv, OneAtATime, GitMoves, NEW p \in Procs,
           sync[p].at \in {"compare", "send"}
    PROVE  head'[Home[p]] = head[Home[p]]
<1>1. head \in [Nodes -> Histories] /\ Home[p] \in Nodes
  BY GitConstants DEF GitInv, TypeOK
<1>2. sync[p].at \in Locked /\ "merge" \in Locked /\ "commit" \in Locked
      /\ sync[p].at # "merge" /\ sync[p].at # "commit"
  BY DEF Locked
<1>3. ASSUME NEW q \in Procs, Home[q] # Home[p], NEW branch,
             head' = [head EXCEPT ![Home[q]] = branch]
      PROVE  head'[Home[p]] = head[Home[p]]
  BY <1>1, <1>3
<1>4. ASSUME NEW q \in Procs, FastForward(q) \/ Commit(q)
      PROVE  head' = head \/ \E branch : head' = [head EXCEPT ![Home[q]] = branch]
  BY <1>4 DEF FastForward, Commit
<1>5. ASSUME NEW q \in Procs, FastForward(q) \/ Commit(q)
      PROVE  Home[q] # Home[p]
  <2>1. sync[q].at \in {"merge", "commit"}
    BY <1>5 DEF FastForward, Commit, Move
  <2> QED
    BY <1>2, <2>1 DEF OneAtATime
<1>6. ASSUME NEW n \in Nodes, Reconcile(n) PROVE head'[Home[p]] = head[Home[p]]
  <2>1. n # Home[p]
    BY <1>2, <1>6 DEF Reconcile, Unlocked
  <2>2. \E branch : head' = [head EXCEPT ![n] = branch]
    BY <1>6 DEF Reconcile
  <2> QED
    BY <1>1, <2>1, <2>2
<1>7. head' = head \/ (\E q \in Procs : FastForward(q) \/ Commit(q))
      \/ \E n \in Nodes : Reconcile(n)
  BY DEF GitMoves, SyncStep, Call, Return, Enter, LockTimeout, Fetch, UpToDate,
     PullRefused, Compare, Send, SendRejected, NetworkFails
<1> QED
  BY <1>3, <1>4, <1>5, <1>6, <1>7

\* A sync that succeeds has published the files of its worktree.
LEMMA CarriedOn ==
    ASSUME GitInv, OneAtATime, GitMoves, NEW p \in Procs, NEW path \in Paths,
           Carried(p, path)
    PROVE  Carried(p, path)'
<1> DEFINE n == Home[p]
<1>1. /\ remote \in Histories /\ head \in [Nodes -> Histories]
      /\ work \in [Nodes -> Trees] /\ n \in Nodes
      /\ sync \in [Procs -> [at : Stages, upstream : Histories]]
  BY GitConstants DEF GitInv, TypeOK
<1>2. work'[n][path] # Absent \/ RemoteHas(path)'
  BY <1>1, FileSurvives DEF Carried
<1>3. RemoteHas(path) => RemoteHas(path)'
  <2>1. remote' \in Histories /\ IsPrefix(remote, remote')
    BY RemoteGrows
  <2>2. ~ InBranch(remote, path, {Absent}) => ~ InBranch(remote', path, {Absent})
    BY <1>1, <2>1, LongerHas
  <2> QED
    BY <2>2 DEF RemoteHas, InBranch
<1>4. ASSUME sync'[p] = sync[p] PROVE Carried(p, path)'
  BY <1>2, <1>3, <1>4, HeadLeftAlone DEF Carried
<1>5. ASSUME sync'[p].at \notin {"compare", "send", "ok"} PROVE Carried(p, path)'
  BY <1>2, <1>5 DEF Carried
<1>6. ASSUME NEW from, NEW to \in Stages \ {"compare", "send", "ok"}, Move(p, from, to)
      PROVE  Carried(p, path)'
  BY <1>1, <1>5, <1>6 DEF Move
<1>7. CASE Commit(p)
  <2>1. /\ TreeOf(head'[n]) = work[n] /\ work' = work /\ remote' = remote
        /\ Move(p, "commit", "compare")
    BY <1>7, CommitFacts DEF Commit
  <2>2. sync'[p].at = "compare"
    BY <1>1, <2>1 DEF Move
  <2> QED
    BY <1>2, <2>1, <2>2 DEF Carried
<1>8. CASE Compare(p)
  <2>1. /\ head' = head /\ work' = work /\ remote' = remote /\ sync[p].at = "compare"
        /\ \/ remote = head[n] /\ Move(p, "compare", "ok")
           \/ Move(p, "compare", "send")
           \/ Move(p, "compare", "failed")
    BY <1>8 DEF Compare, Move
  <2>2. TreeOf(head[n])[path] # Absent \/ RemoteHas(path)
    BY <2>1 DEF Carried
  <2>3. CASE remote = head[n]
    <3>1. RemoteHas(path)
      BY <1>1, <2>2, <2>3, TipPublished DEF RemoteHas
    <3> QED
      BY <1>2, <1>3, <3>1 DEF Carried
  <2>4. CASE Move(p, "compare", "send")
    <3>1. sync'[p].at = "send"
      BY <1>1, <2>4 DEF Move
    <3> QED
      BY <1>2, <1>3, <2>1, <2>2, <3>1 DEF Carried
  <2>5. CASE Move(p, "compare", "failed")
    BY <1>6, <2>5 DEF Stages
  <2> QED
    BY <2>1, <2>3, <2>4, <2>5
<1>9. CASE Send(p)
  <2>1. /\ sync[p].at = "send" /\ remote' = head[n]
    BY <1>9 DEF Send, Move
  <2>2. TreeOf(head[n])[path] # Absent \/ RemoteHas(path)
    BY <2>1 DEF Carried
  <2>3. RemoteHas(path)'
    <3>1. ASSUME TreeOf(head[n])[path] # Absent PROVE ~ InBranch(remote', path, {Absent})
      BY <1>1, <2>1, <3>1, TipPublished
    <3> QED
      BY <1>3, <2>2, <3>1 DEF RemoteHas, InBranch
  <2> QED
    BY <1>2, <2>3 DEF Carried
<1>10. CASE NetworkFails(p) \/ Enter(p) \/ LockTimeout(p) \/ UpToDate(p) \/ FastForward(p)
            \/ PullRefused(p) \/ SendRejected(p)
  <2>1. {"fetch", "failed", "commit"} \subseteq Stages \ {"compare", "send", "ok"}
    BY DEF Stages, Locked
  <2> QED
    BY <1>6, <1>10, <2>1 DEF NetworkFails, Enter, LockTimeout, UpToDate, FastForward,
       PullRefused, SendRejected
<1>11. CASE Fetch(p) \/ Call(p) \/ Return(p)
  <2>1. sync'[p].at \in {"merge", "wait", "idle"}
    BY <1>1, <1>11 DEF Fetch, Call, Return, Asked, NoSync
  <2> QED
    BY <1>5, <2>1
<1>12. ASSUME NEW q \in Procs, q # p,
              SyncStep(q) \/ NetworkFails(q) \/ Call(q) \/ Return(q)
       PROVE  sync'[p] = sync[p]
  <2>1. \E record : sync' = [sync EXCEPT ![q] = record]
    BY <1>12, SyncRecord DEF Call, Return
  <2> QED
    BY <1>1, <1>12, <2>1
<1>13. ASSUME NEW m \in Nodes, Reconcile(m) PROVE sync'[p] = sync[p]
  BY <1>13 DEF Reconcile
<1>14. CASE SyncStep(p) \/ NetworkFails(p) \/ Call(p) \/ Return(p)
  BY <1>7, <1>8, <1>9, <1>10, <1>11, <1>14 DEF SyncStep
<1> QED
  BY <1>4, <1>12, <1>13, <1>14 DEF GitMoves

-----------------------------------------------------------------------------
\* The refinement of SharedHistory.

LEMMA SharedStarts == InitGit => Shared!Init
BY DEF InitGit, Shared!Init

\* A fast-forward adopts, a commit records, a push publishes, and a person's
\* reconciliation replays; every other step leaves the branches alone.
LEMMA SharedStep == GitInv /\ [Next]_gitVars => [Shared!Next]_<<remote, head>>
<1> SUFFICES ASSUME GitInv, Next, ~ UNCHANGED <<remote, head>>
             PROVE  \E n \in Nodes : \/ Shared!Record(n) \/ Shared!Adopt(n)
                                     \/ Shared!Publish(n) \/ Shared!Replay(n)
  BY DEF gitVars, Shared!Next
<1>1. ASSUME NEW p \in Procs, FastForward(p) PROVE Shared!Adopt(Home[p]) /\ Home[p] \in Nodes
  <2>1. /\ sync[p].upstream \in Prefixes(remote)
        /\ IsPrefix(head[Home[p]], sync[p].upstream)
        /\ head' = [head EXCEPT ![Home[p]] = sync[p].upstream]
        /\ Home[p] \in Nodes /\ remote' = remote
    BY <1>1, FastForwardFacts DEF FastForward
  <2> QED
    BY <2>1 DEF Shared!Adopt, IsPrefix, Shared!IsPrefix, Prefixes, Shared!Prefixes
<1>2. ASSUME NEW p \in Procs, Commit(p), head' # head
      PROVE  Shared!Record(Home[p]) /\ Home[p] \in Nodes
  <2>1. PICK c \in Commits : head' = [head EXCEPT ![Home[p]] = Append(@, c)]
    BY <1>2, CommitFacts
  <2>2. Home[p] \in Nodes /\ remote' = remote
    BY <1>2, CommitFacts DEF Commit
  <2> QED
    BY <2>1, <2>2 DEF Shared!Record
<1>3. ASSUME NEW p \in Procs, Send(p) \/ NetworkFails(p), remote' # remote
      PROVE  Shared!Publish(Home[p]) /\ Home[p] \in Nodes
  <2>1. IsPrefix(remote, head[Home[p]]) /\ remote' = head[Home[p]] /\ Home[p] \in Nodes
    BY <1>3, PushFacts
  <2>2. head' = head
    BY <1>3 DEF Send, NetworkFails
  <2> QED
    BY <2>1, <2>2 DEF Shared!Publish, IsPrefix, Shared!IsPrefix
<1>4. ASSUME NEW n \in Nodes, Reconcile(n) PROVE Shared!Replay(n)
  <2>1. PICK c \in Commits : head' = [head EXCEPT ![n] = Append(remote, c)]
    BY <1>4, ReconcileFacts
  <2>2. remote' = remote
    BY <1>4 DEF Reconcile
  <2> QED
    BY <2>1, <2>2 DEF Shared!Replay
<1>5. \/ \E p \in Procs : FastForward(p)
      \/ \E p \in Procs : Commit(p) /\ head' # head
      \/ \E p \in Procs : (Send(p) \/ NetworkFails(p)) /\ remote' # remote
      \/ \E n \in Nodes : Reconcile(n)
  <2>1. CASE \E p \in Procs : Call(p) \/ Return(p) \/ Crash(p)
    BY <2>1 DEF Call, Return, Crash
  <2>2. CASE \E p \in Procs : SyncStep(p)
    BY <2>2 DEF SyncStep, Enter, LockTimeout, Fetch, UpToDate, PullRefused, Compare,
       SendRejected, Commit, Send
  <2>3. CASE \E p \in Procs : NetworkFails(p)
    BY <2>3 DEF NetworkFails
  <2>4. CASE \E n \in Nodes, path \in Paths, blob \in Blobs : Write(n, path, blob)
    BY <2>4 DEF Write
  <2> QED
    BY <2>1, <2>2, <2>3, <2>4 DEF Next
<1> QED
  BY <1>1, <1>2, <1>3, <1>4, <1>5

\* Automatic synchronisation implements one shared history: no push, and no push
\* whose answer was lost, takes a commit out of the remote branch, and no pull
\* takes one out of a local branch.
THEOREM SyncImplementsSharedHistory == Spec => ImplementsSharedHistory
<1>1. Spec => Shared!Init /\ [][Shared!Next]_<<remote, head>>
  BY SharedStarts, SharedStep, GitInvariant, PTL DEF Spec
<1> QED
  BY <1>1 DEF ImplementsSharedHistory, Shared!Spec, Shared!sharedVars
=============================================================================
