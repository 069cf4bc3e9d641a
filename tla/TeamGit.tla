------------------------------ MODULE TeamGit ------------------------------
(***************************************************************************)
(* Automatic Git synchronisation of the shared .team state:                *)
(* TeamMemory.commit_push of team_agents/memory.py, on several nodes with  *)
(* clones of one remote branch, and on each node several processes (the    *)
(* server's relay worker, a command of the user) that take turns by a lock *)
(* file.  A sync is a fetch, a fast-forward of branch and worktree, a      *)
(* commit of what the worktree holds, a second fetch and a push; other     *)
(* nodes push, and other programs write the worktree, between any two of   *)
(* these.                                                                  *)
(*                                                                         *)
(* A commit is its author and its tree; a branch is the sequence of its    *)
(* commits, so that one is an ancestor of another when it is a prefix.     *)
(* Trees hold the allowlisted team paths only.                             *)
(***************************************************************************)
EXTENDS Integers, Sequences, SequencesExt

CONSTANTS
    Nodes,      \* clones of the team repository
    Procs,      \* processes that sync
    Home,       \* [Procs -> Nodes]
    Paths,      \* shared team paths
    Contents,   \* contents of a file
    Absent,     \* no file at a path
    MaxHistory, \* a worktree is written while its branch is shorter than this, and
                \*   a fork reconciled while the remote branch is no longer
    MaxFaults   \* number of network failures and crashes

VARIABLES
    remote,     \* the upstream branch
    head,       \* [Nodes -> the local branch]
    work,       \* [Nodes -> the worktree]
    sync,       \* [Procs -> where its commit_push is, and the head it fetched]
    faults      \* failures so far

gitVars == <<remote, head, work, sync, faults>>

Blobs     == Contents \cup {Absent}
Trees     == [Paths -> Blobs]
Commits   == [by : Nodes, tree : Trees]
Histories == Seq(Commits)

ASSUME GitConstants ==
    /\ Home \in [Procs -> Nodes]
    /\ Absent \notin Contents
    /\ MaxHistory \in Nat
    /\ MaxFaults \in Nat

EmptyTree == [path \in Paths |-> Absent]
TreeOf(branch) == IF branch = <<>> THEN EmptyTree ELSE Last(branch).tree

\* Stages of commit_push under the git lock, and all of them.
Locked == {"fetch", "merge", "commit", "compare", "send"}
Stages == {"idle", "wait", "ok", "failed"} \cup Locked

NoSync == [at |-> "idle", upstream |-> <<>>]
Asked  == [at |-> "wait", upstream |-> <<>>]

Unlocked(n) == \A p \in Procs : Home[p] = n => sync[p].at \notin Locked

InitGit ==
    /\ remote = <<>>
    /\ head = [n \in Nodes |-> <<>>]
    /\ work = [n \in Nodes |-> EmptyTree]
    /\ sync = [p \in Procs |-> NoSync]
    /\ faults = 0

-----------------------------------------------------------------------------

\* p's sync moves from one stage to another; a fetched head serves one stage.
Move(p, from, to) ==
    /\ sync[p].at = from
    /\ sync' = [sync EXCEPT ![p] = [at |-> to, upstream |-> <<>>]]

\* _git_lock: one process of a node at a time.
Enter(p) ==
    /\ Unlocked(Home[p])
    /\ Move(p, "wait", "fetch")
    /\ UNCHANGED <<remote, head, work, faults>>

\* Mutant: a sync that waited in vain goes on without the lock.
LockTimeoutGoesOn(p) ==
    /\ ~Unlocked(Home[p])
    /\ Move(p, "wait", "fetch")
    /\ UNCHANGED <<remote, head, work, faults>>

\* _git_lock: TimeoutError, the lock is held by another process.
LockTimeout(p) ==
    /\ ~Unlocked(Home[p])
    /\ Move(p, "wait", "failed")
    /\ UNCHANGED <<remote, head, work, faults>>

\* _fetch_unlocked: refs only, the worktree is untouched.
Fetch(p) ==
    /\ sync[p].at = "fetch"
    /\ sync' = [sync EXCEPT ![p] = [at |-> "merge", upstream |-> remote]]
    /\ UNCHANGED <<remote, head, work, faults>>

\* The fetched head is this branch, or an ancestor of it.
UpToDate(p) ==
    /\ IsPrefix(sync[p].upstream, head[Home[p]])
    /\ Move(p, "merge", "commit")
    /\ UNCHANGED <<remote, head, work, faults>>

\* Paths the fast-forward changes.
Incoming(branch, upstream) ==
    {path \in Paths : TreeOf(branch)[path] # TreeOf(upstream)[path]}

\* git refuses to overwrite a file that was written since the last commit.  A
\* file that was only deleted is written again.
Overwrites(n, upstream) ==
    \E path \in Incoming(head[n], upstream) :
        work[n][path] \notin {TreeOf(head[n])[path], Absent}

\* Mutant: reset --hard instead of merge --ff-only.
FastForwardHard(p) ==
    LET n == Home[p]
    IN  /\ IsStrictPrefix(head[n], sync[p].upstream)
        /\ head' = [head EXCEPT ![n] = sync[p].upstream]
        /\ work' = [work EXCEPT ![n] = TreeOf(sync[p].upstream)]
        /\ Move(p, "merge", "commit")
        /\ UNCHANGED <<remote, faults>>

\* merge --ff-only: the branch becomes the fetched one, and the paths that differ
\* are checked out.
FastForward(p) ==
    LET n == Home[p]
        upstream == sync[p].upstream
    IN  /\ IsStrictPrefix(head[n], upstream)
        /\ ~Overwrites(n, upstream)
        /\ head' = [head EXCEPT ![n] = upstream]
        /\ work' = [work EXCEPT ![n] =
                      [path \in Paths |-> IF path \in Incoming(head[n], upstream)
                                          THEN TreeOf(upstream)[path] ELSE @[path]]]
        /\ Move(p, "merge", "commit")
        /\ UNCHANGED <<remote, faults>>

\* Divergent histories, or a merge that git refuses.
PullRefused(p) ==
    LET n == Home[p]
        upstream == sync[p].upstream
    IN  /\ ~IsPrefix(upstream, head[n])
        /\ ~IsPrefix(head[n], upstream) \/ Overwrites(n, upstream)
        /\ Move(p, "merge", "failed")
        /\ UNCHANGED <<remote, head, work, faults>>

\* _commit_team_unlocked: one commit of the worktree, if it changed.
Commit(p) ==
    LET n == Home[p]
    IN  /\ head' = IF work[n] = TreeOf(head[n]) THEN head
                   ELSE [head EXCEPT ![n] = Append(@, [by |-> n, tree |-> work[n]])]
        /\ Move(p, "commit", "compare")
        /\ UNCHANGED <<remote, work, faults>>

\* Mutant: commits that an earlier sync could not push are left alone.
CompareEqualOnly(p) ==
    LET n == Home[p]
    IN  /\ IF IsPrefix(remote, head[n]) THEN Move(p, "compare", "ok")
           ELSE Move(p, "compare", "failed")
        /\ UNCHANGED <<remote, head, work, faults>>

\* _push_team_unlocked fetches again: nothing to push, something to push, or the
\* remote advanced or diverged.
Compare(p) ==
    LET n == Home[p]
    IN  /\ \/ remote = head[n] /\ Move(p, "compare", "ok")
           \/ IsStrictPrefix(remote, head[n]) /\ Move(p, "compare", "send")
           \/ ~IsPrefix(remote, head[n]) /\ Move(p, "compare", "failed")
        /\ UNCHANGED <<remote, head, work, faults>>

\* Mutant: a forced push.
SendForced(p) ==
    /\ remote' = head[Home[p]]
    /\ Move(p, "send", "ok")
    /\ UNCHANGED <<head, work, faults>>

\* git push: the server takes a fast-forward only.
Send(p) ==
    /\ IsPrefix(remote, head[Home[p]])
    /\ remote' = head[Home[p]]
    /\ Move(p, "send", "ok")
    /\ UNCHANGED <<head, work, faults>>

SendRejected(p) ==
    /\ ~IsPrefix(remote, head[Home[p]])
    /\ Move(p, "send", "failed")
    /\ UNCHANGED <<remote, head, work, faults>>

\* A fetch or a push that fails, or a push that was done while its answer was
\* lost.
NetworkFails(p) ==
    /\ faults < MaxFaults
    /\ faults' = faults + 1
    /\ sync[p].at \in {"fetch", "compare", "send"}
    /\ Move(p, sync[p].at, "failed")
    /\ remote' \in IF sync[p].at = "send" /\ IsPrefix(remote, head[Home[p]])
                   THEN {remote, head[Home[p]]} ELSE {remote}
    /\ UNCHANGED <<head, work>>

\* The steps of a running sync.
SyncStep(p) ==
    \/ Enter(p)
    \/ LockTimeout(p)
    \/ Fetch(p)
    \/ UpToDate(p)
    \/ FastForward(p)
    \/ PullRefused(p)
    \/ Commit(p)
    \/ Compare(p)
    \/ Send(p)
    \/ SendRejected(p)

Forked(n) == ~IsPrefix(remote, head[n]) /\ ~IsPrefix(head[n], remote)

\* What automatic sync leaves to a person: with a clean worktree, replay the
\* unpublished changes as one commit on top of the remote branch.
Reconcile(n) ==
    LET base == LongestCommonPrefix({head[n], remote})
        mine == {path \in Paths : TreeOf(head[n])[path] # TreeOf(base)[path]}
        tree == [path \in Paths |-> IF path \in mine THEN TreeOf(head[n])[path]
                                    ELSE TreeOf(remote)[path]]
    IN  /\ Forked(n)
        /\ Unlocked(n)
        /\ work[n] = TreeOf(head[n])
        /\ Len(remote) <= MaxHistory
        /\ head' = [head EXCEPT ![n] = Append(remote, [by |-> n, tree |-> tree])]
        /\ work' = [work EXCEPT ![n] = tree]
        /\ UNCHANGED <<remote, sync, faults>>

-----------------------------------------------------------------------------
\* The synchronisation on its own, with processes that may sync at any time and
\* programs that write the worktree at any time.

Call(p) ==
    /\ sync[p].at = "idle"
    /\ sync' = [sync EXCEPT ![p] = Asked]
    /\ UNCHANGED <<remote, head, work, faults>>

Return(p) ==
    /\ sync[p].at \in {"ok", "failed"}
    /\ sync' = [sync EXCEPT ![p] = NoSync]
    /\ UNCHANGED <<remote, head, work, faults>>

\* The process is killed; its lock goes with it.
Crash(p) ==
    /\ faults < MaxFaults
    /\ faults' = faults + 1
    /\ sync[p].at # "idle"
    /\ sync' = [sync EXCEPT ![p] = NoSync]
    /\ UNCHANGED <<remote, head, work>>

\* Some program of the node writes or removes a team file.
Write(n, path, blob) ==
    /\ Len(head[n]) < MaxHistory
    /\ work[n][path] # blob
    /\ work' = [work EXCEPT ![n][path] = blob]
    /\ UNCHANGED <<remote, head, sync, faults>>

Next ==
    \/ \E p \in Procs : Call(p) \/ SyncStep(p) \/ NetworkFails(p) \/ Return(p) \/ Crash(p)
    \/ \E n \in Nodes : Reconcile(n)
    \/ \E n \in Nodes, path \in Paths, blob \in Blobs : Write(n, path, blob)

Spec == InitGit /\ [][Next]_gitVars

\* Processes go on, and sync again and again; no person has to help.
FairSpec ==
    /\ Spec
    /\ \A p \in Procs : WF_gitVars(Call(p) \/ SyncStep(p) \/ Return(p))

-----------------------------------------------------------------------------
\* Properties.

\* The variables have the types of the repositories' state.
TypeOK ==
    /\ remote \in Histories
    /\ head \in [Nodes -> Histories]
    /\ work \in [Nodes -> Trees]
    /\ sync \in [Procs -> [at : Stages, upstream : Histories]]
    /\ faults \in Nat

\* The git lock: two syncs of a node never run between them.
OneAtATime == \A p, q \in Procs :
    p # q /\ Home[p] = Home[q] => sync[p].at \notin Locked \/ sync[q].at \notin Locked

\* Branches stay sequences of commits and worktrees trees of the team paths, and
\* of the processes of a node, of which some time out waiting for the git lock and
\* some are killed while they hold it, one at a time is between the first fetch
\* and the push.
GitTypeOK == TypeOK /\ OneAtATime

\* A push never removes a commit from the remote branch, and a pull never
\* removes one from a local branch: the detailed protocol implements the shared
\* history.
Shared == INSTANCE SharedHistory WITH history <- remote, copies <- head
ImplementsSharedHistory == Shared!Spec

\* A pull never overwrites or removes what a program wrote since the last
\* commit.
WritesSurvivePulls ==
    [][\A p \in Procs : sync[p].at = "merge" =>
         \A path \in Paths :
            LET n == Home[p]
                mine == work[n][path]
            IN  mine \notin {TreeOf(head[n])[path], Absent} =>
                    work'[n][path] = mine \/ sync'[p] = sync[p]]_gitVars

\* Published and in step with everybody else.
InStep(n) == head[n] = remote /\ work[n] = TreeOf(remote)

\* Only a person can help: the histories forked, or a file that was written here
\* was committed elsewhere too.
Blocked(n) == Forked(n) \/ (IsPrefix(head[n], remote) /\ Overwrites(n, remote))

\* Writing goes on for ever, or every node ends up in step, or blocked: failures
\* and lost answers are made up for by later syncs.
SomeWrite == \E n \in Nodes, path \in Paths, blob \in Blobs : Write(n, path, blob)

Settles ==
    <>[][~SomeWrite]_gitVars => <>[](\A n \in Nodes : InStep(n) \/ Blocked(n))
=============================================================================
