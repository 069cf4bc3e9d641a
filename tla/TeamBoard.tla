------------------------------ MODULE TeamBoard -----------------------------
(***************************************************************************)
(* The shared memory of a team: deltas, BOARD.md, the goal, the chat and   *)
(* the advisory locks of memory.py, deltas.py and chat.py, written by the  *)
(* agents of several clones.  A clone has one lock file; the agents of a   *)
(* clone share its worktree; clones meet in one remote branch, which only  *)
(* moves forward.  What a sync does step by step is in TeamGit; here a     *)
(* pull, a commit and a push are one step each.                            *)
(***************************************************************************)
EXTENDS Naturals, Sequences, FiniteSets, FiniteSetsExt, Functions

CONSTANTS
    Clones,
    Agents,        \* numbers, in the order of the agents' names; 0 is "system"
    CloneOf,       \* [Agents -> Clones]
    Calls,         \* [Agents -> what the agent may call]
    Ids,           \* task ids
    Lockable,      \* names of lock files
    Published,     \* task deltas that are in the remote branch before
    Behind,        \* clones that have not pulled them yet
    Ahead,         \* [Clones -> Nat]: how far the clock of a clone is ahead
    FutureSkew,    \* MAX_DELTA_FUTURE_SKEW_SECONDS
    MaxWriters,    \* MAX_DELTA_WRITERS
    MaxEntries,    \* MAX_DELTA_DIRECTORY_ENTRIES
    MaxFiles,      \* MAX_DELTA_FILES, with MAX_DELTA_TOTAL_BYTES
    MaxCalls,      \* bound: calls
    MaxNow         \* bound: the clock

VARIABLES
    now,
    hub,       \* the remote branch: [version, tree]
    work,      \* [Clones -> worktree]
    branch,    \* [Clones -> local branch: base, ahead, tree]
    gitlock,   \* [Clones -> agent that holds .team/.gitlock, or 0]
    call,      \* [Agents -> call in progress]
    held,      \* [Agents -> lock files it was told are its own]
    returned,  \* task deltas whose set_task has returned
    posted,    \* deltas whose post has returned
    calls

boardVars == <<now, hub, work, branch, gitlock, call, held, returned, posted, calls>>

\* BOARD.md shows a delta for each task; a lock file names its owner.
FreshTree == [deltas |-> {}, board |-> <<>>, goal |-> 0, locks |-> [l \in Lockable |-> 0]]

\* The order of deltas: timestamp, writer, file name.
Earlier(d, e) ==
    \/ d.at < e.at
    \/ d.at = e.at /\ d.w < e.w
    \/ d.at = e.at /\ d.w = e.w /\ d.n < e.n

\* Last write wins, for each task.
BoardRows(files) ==
    [i \in {d.id : d \in files} |->
        CHOOSE d \in files : d.id = i /\ \A e \in files \ {d} : e.id = i => Earlier(e, d)]

PublishedTree == [FreshTree EXCEPT !.deltas = Published, !.board = BoardRows(Published)]

NoCall == [op |-> "none", todo |-> <<>>, arg |-> 0, delta |-> {}, rows |-> <<>>]

BoardInit ==
    /\ now = 0 /\ calls = 0
    /\ hub = [version |-> 1, tree |-> PublishedTree]
    /\ work = [c \in Clones |-> IF c \in Behind THEN FreshTree ELSE PublishedTree]
    /\ branch = [c \in Clones |-> [base |-> IF c \in Behind THEN 0 ELSE 1, ahead |-> FALSE,
                                   tree |-> work[c]]]
    /\ gitlock = [c \in Clones |-> 0]
    /\ call = [a \in Agents |-> NoCall]
    /\ held = [a \in Agents |-> {}]
    /\ returned = Published /\ posted = {}

\* What each call does, in order.
Plan == [task    |-> <<"lock", "delta", "rows", "board", "commit">>,
         post    |-> <<"lock", "pull", "delta", "commit", "push">>,
         goal    |-> <<"lock", "pull", "goal", "commit", "push">>,
         sync    |-> <<"lock", "pull", "commit", "push">>,
         claim   |-> <<"lock", "look", "claim", "commit">>,
         release |-> <<"lock", "release", "commit">>,
         fact    |-> <<"delta", "lock", "commit">>,
         event   |-> <<"delta">>]

KindOf == [task |-> "task", post |-> "chat", fact |-> "fact", event |-> "event"]

ASSUME BoardConstants ==
    /\ Agents \subseteq Nat \ {0}
    /\ CloneOf \in [Agents -> Clones]
    /\ \A a \in Agents : Calls[a] \subseteq DOMAIN Plan
    /\ Ahead \in [Clones -> Nat]
    /\ {FutureSkew, MaxWriters, MaxEntries, MaxFiles, MaxCalls, MaxNow} \subseteq Nat

\* The clocks of two clones differ by what a read allows for at most.
ASSUME ClocksAgree == \A c, b \in Clones : Ahead[c] <= Ahead[b] + FutureSkew

\* Tasks written before, one per writer, time and number, each of which its
\* writer's clone still has.
ASSUME PublishedBefore ==
    /\ IsFiniteSet(Published)
    /\ \A d \in Published :
          /\ d.w \in Agents /\ CloneOf[d.w] \notin Behind /\ d.n \in Nat /\ d.id \in Ids
          /\ d.at \in 0 .. Ahead[CloneOf[d.w]]
          /\ d = [w |-> d.w, at |-> d.at, n |-> d.n, kind |-> "task", id |-> d.id]
          /\ \A e \in Published \ {d} : <<e.w, e.at, e.n>> # <<d.w, d.at, d.n>>

Clock(c) == now + Ahead[c]

-----------------------------------------------------------------------------
\* DeltaStore.read.

WrittenBy(files, w) == {d \in files : d.w = w}
WriterDirs(files)   == {d.w : d \in files}

\* entries_seen when the directory of w has been counted.
EntriesAt(files, w) ==
    Cardinality({x \in WriterDirs(files) : x <= w}) + Cardinality({d \in files : d.w < w})

\* Directories that go past the limit, by themselves or by their files.
Excess(files) ==
    {w \in WriterDirs(files) :
        EntriesAt(files, w) + Cardinality(WrittenBy(files, w)) > MaxEntries}

\* The directories are read in the order of their names.  Too many files in one
\* end the read without a result, but a directory that is itself past the limit
\* ends it with what was read until then.
Read(c, kind) ==
    LET files == work[c].deltas
        over  == Excess(files)
        found == {d \in files : d.kind = kind /\ \A w \in over : d.w < w}
    IN  IF \/ Cardinality(WriterDirs(files)) > MaxWriters
           \/ over # {} /\ EntriesAt(files, Min(over)) <= MaxEntries
           \/ Cardinality(found) > MaxFiles
        THEN {}
        ELSE {d \in found : d.at <= Clock(c) + FutureSkew}

-----------------------------------------------------------------------------
\* Steps of a call.

At(a, step) == call[a].todo # <<>> /\ Head(call[a].todo) = step
Proceeds(a)     == call' = [call EXCEPT ![a].todo = Tail(@)]
Skips(a)    == call' = [call EXCEPT ![a].todo = <<>>]
Raises(a)   == call' = [call EXCEPT ![a].todo = <<>>, ![a].op = "failed"]

Changes(a, tree) == work' = [work EXCEPT ![CloneOf[a]] = tree]

\* The layout is complete, or was completed; where it keeps changing under the
\* validation the call has failed already.
Begin(a, op, arg) ==
    /\ call[a] = NoCall /\ calls < MaxCalls
    /\ calls' = calls + 1
    /\ call' = [call EXCEPT ![a] = [NoCall EXCEPT !.op = op, !.todo = Plan[op], !.arg = arg]]
    /\ held' = IF op = "release" THEN [held EXCEPT ![a] = @ \ {arg}] ELSE held
    /\ UNCHANGED <<now, hub, work, branch, gitlock, returned, posted>>

\* Mutant: the call goes on without the lock.
LockAnyway(a) ==
    /\ At(a, "lock")
    /\ Proceeds(a)
    /\ UNCHANGED <<now, hub, work, branch, gitlock, held, returned, posted, calls>>

Lock(a) ==
    /\ At(a, "lock") /\ gitlock[CloneOf[a]] = 0
    /\ gitlock' = [gitlock EXCEPT ![CloneOf[a]] = a]
    /\ Proceeds(a)
    /\ UNCHANGED <<now, hub, work, branch, held, returned, posted, calls>>

LockTimesOut(a) ==
    /\ At(a, "lock") /\ gitlock[CloneOf[a]] # 0
    /\ Raises(a)
    /\ UNCHANGED <<now, hub, work, branch, gitlock, held, returned, posted, calls>>

\* One new file, under a name of its own; facts are written by "system".
WriteDelta(a) ==
    LET c == CloneOf[a] IN
    /\ At(a, "delta")
    /\ \E n \in {1, 2} :
          LET d == [w |-> IF call[a].op = "fact" THEN 0 ELSE a, at |-> Clock(c), n |-> n,
                    kind |-> KindOf[call[a].op], id |-> call[a].arg]
          IN  /\ \A b \in Clones : \A e \in work[b].deltas : <<e.w, e.at, e.n>> # <<d.w, d.at, d.n>>
              /\ Changes(a, [work[c] EXCEPT !.deltas = @ \cup {d}])
              /\ call' = [call EXCEPT ![a].todo = Tail(@), ![a].delta = {d}]
    /\ UNCHANGED <<now, hub, branch, gitlock, held, returned, posted, calls>>

\* The projection is computed, and replaces BOARD.md.
ReadRows(a) ==
    /\ At(a, "rows")
    /\ call' = [call EXCEPT ![a].todo = Tail(@),
                            ![a].rows = BoardRows(Read(CloneOf[a], "task"))]
    /\ UNCHANGED <<now, hub, work, branch, gitlock, held, returned, posted, calls>>

WriteBoard(a) ==
    /\ At(a, "board")
    /\ Changes(a, [work[CloneOf[a]] EXCEPT !.board = call[a].rows])
    /\ Proceeds(a)
    /\ UNCHANGED <<now, hub, branch, gitlock, held, returned, posted, calls>>

WriteGoal(a) ==
    /\ At(a, "goal")
    /\ Changes(a, [work[CloneOf[a]] EXCEPT !.goal = a])
    /\ Proceeds(a)
    /\ UNCHANGED <<now, hub, branch, gitlock, held, returned, posted, calls>>

\* claim_file: a free lock file is written, one's own is enough as it is.
LookAtLock(a) ==
    LET owner == work[CloneOf[a]].locks[call[a].arg] IN
    /\ At(a, "look")
    /\ \/ owner = 0 /\ Proceeds(a)
       \/ owner = a /\ Skips(a)
       \/ owner \notin {0, a} /\ Raises(a)
    /\ UNCHANGED <<now, hub, work, branch, gitlock, held, returned, posted, calls>>

Claim(a) ==
    /\ At(a, "claim")
    /\ Changes(a, [work[CloneOf[a]] EXCEPT !.locks[call[a].arg] = a])
    /\ Proceeds(a)
    /\ UNCHANGED <<now, hub, branch, gitlock, held, returned, posted, calls>>

\* release_file: only one's own.
ReleaseFile(a) ==
    LET c == CloneOf[a]  l == call[a].arg IN
    /\ At(a, "release")
    /\ IF work[c].locks[l] = a
       THEN Changes(a, [work[c] EXCEPT !.locks[l] = 0]) /\ Proceeds(a)
       ELSE Raises(a) /\ UNCHANGED work
    /\ UNCHANGED <<now, hub, branch, gitlock, held, returned, posted, calls>>

\* Files that both the worktree and the remote branch have changed.
Contested(c) ==
    LET mine == work[c]  old == branch[c].tree  new == hub.tree IN
    \/ mine.board # old.board /\ new.board # old.board
    \/ mine.goal # old.goal /\ new.goal # old.goal
    \/ \E l \in Lockable : mine.locks[l] # old.locks[l] /\ new.locks[l] # old.locks[l]

\* The worktree after a fast-forward.
Forwarded(c) ==
    LET mine == work[c]  old == branch[c].tree  new == hub.tree IN
    [deltas |-> mine.deltas \cup new.deltas,
     board  |-> IF new.board # old.board THEN new.board ELSE mine.board,
     goal   |-> IF new.goal # old.goal THEN new.goal ELSE mine.goal,
     locks  |-> [l \in Lockable |-> IF new.locks[l] # old.locks[l] THEN new.locks[l]
                                                                   ELSE mine.locks[l]]]

\* Fast-forward only; a fork, or a local change that would be lost, fails.
PullTeam(a) ==
    LET c == CloneOf[a] IN
    /\ At(a, "pull")
    /\ IF branch[c].base = hub.version
       THEN Proceeds(a) /\ UNCHANGED <<work, branch>>
       ELSE IF branch[c].ahead \/ Contested(c)
       THEN Raises(a) /\ UNCHANGED <<work, branch>>
       ELSE /\ Proceeds(a)
            /\ Changes(a, Forwarded(c))
            /\ branch' = [branch EXCEPT ![c] =
                            [base |-> hub.version, ahead |-> FALSE, tree |-> hub.tree]]
    /\ UNCHANGED <<now, hub, gitlock, held, returned, posted, calls>>

\* All of the shared paths, whoever wrote them.
CommitTeam(a) ==
    LET c == CloneOf[a] IN
    /\ At(a, "commit")
    /\ Proceeds(a)
    /\ branch' = [branch EXCEPT ![c].ahead = @ \/ work[c] # branch[c].tree,
                                ![c].tree = work[c]]
    /\ UNCHANGED <<now, hub, work, gitlock, held, returned, posted, calls>>

PushTeam(a) ==
    LET c == CloneOf[a] IN
    /\ At(a, "push")
    /\ IF branch[c].base # hub.version
       THEN Raises(a) /\ UNCHANGED <<hub, branch>>
       ELSE IF ~branch[c].ahead
       THEN Proceeds(a) /\ UNCHANGED <<hub, branch>>
       ELSE /\ Proceeds(a)
            /\ hub' = [version |-> hub.version + 1, tree |-> branch[c].tree]
            /\ branch' = [branch EXCEPT ![c].base = hub.version + 1, ![c].ahead = FALSE]
    /\ UNCHANGED <<now, work, gitlock, held, returned, posted, calls>>

Unlocks(a) == gitlock' = [c \in Clones |-> IF gitlock[c] = a THEN 0 ELSE gitlock[c]]

\* The caller gets an answer, or an exception.
Return(a) ==
    /\ call[a].op # "none" /\ call[a].todo = <<>>
    /\ Unlocks(a)
    /\ call' = [call EXCEPT ![a] = NoCall]
    /\ returned' = IF call[a].op = "task" THEN returned \cup call[a].delta ELSE returned
    /\ posted' = IF call[a].op = "post" THEN posted \cup call[a].delta ELSE posted
    /\ held' = IF call[a].op = "claim" THEN [held EXCEPT ![a] = @ \cup {call[a].arg}] ELSE held
    /\ UNCHANGED <<now, hub, work, branch, calls>>

\* A killed process loses its lock on the file .gitlock, and its memory.
AgentDies(a) ==
    /\ call[a] # NoCall
    /\ Unlocks(a)
    /\ call' = [call EXCEPT ![a] = NoCall]
    /\ held' = [held EXCEPT ![a] = {}]
    /\ UNCHANGED <<now, hub, work, branch, returned, posted, calls>>

BoardTick ==
    /\ now < MaxNow /\ now' = now + 1
    /\ UNCHANGED <<hub, work, branch, gitlock, call, held, returned, posted, calls>>

Arguments(op) ==
    CASE op = "task" -> Ids [] op \in {"claim", "release"} -> Lockable [] OTHER -> {0}

BoardNext ==
    \/ BoardTick
    \/ \E a \in Agents :
          \/ \E op \in Calls[a] : \E arg \in Arguments(op) : Begin(a, op, arg)
          \/ Lock(a) \/ LockTimesOut(a) \/ WriteDelta(a) \/ ReadRows(a) \/ WriteBoard(a)
          \/ WriteGoal(a) \/ LookAtLock(a) \/ Claim(a) \/ ReleaseFile(a) \/ PullTeam(a) \/ CommitTeam(a) \/ PushTeam(a)
          \/ Return(a) \/ AgentDies(a)

BoardSpec == BoardInit /\ [][BoardNext]_boardVars

-----------------------------------------------------------------------------
\* Properties.

BoardTypeOK ==
    /\ now \in 0 .. MaxNow /\ calls \in 0 .. MaxCalls
    /\ \A c \in Clones : /\ branch[c].base \in 0 .. hub.version
                         /\ gitlock[c] \in Agents \cup {0}
                         /\ DOMAIN work[c].board \subseteq Ids
    /\ \A a \in Agents : held[a] \subseteq Lockable /\ call[a].op \in DOMAIN Plan \cup {"none", "failed"}

\* As long as a clone's deltas fit the limits of a read, a task whose set_task
\* has returned is on the BOARD.md of its clone, with what that call wrote or
\* something later, whatever other agents wrote, pulled, committed or left half
\* done in between; two agents of a clone are never both told that a file is
\* theirs; and a message whose post has returned is in the remote branch.
BoardSound ==
    /\ \A d \in returned :
          LET tree == work[CloneOf[d.w]] IN
          Excess(tree.deltas) = {} /\ Cardinality(WriterDirs(tree.deltas)) <= MaxWriters
          /\ Cardinality({e \in tree.deltas : e.kind = "task"}) <= MaxFiles
             => d.id \in DOMAIN tree.board /\ ~Earlier(tree.board[d.id], d)
    /\ \A a, b \in Agents : a # b /\ CloneOf[a] = CloneOf[b] => held[a] \cap held[b] = {}
    /\ posted \subseteq hub.tree.deltas

\* A read shows all tasks of a clone or, past a limit, none: deltas.py says that
\* a partial prefix would be a misleading projection.
ReadsAreWhole ==
    \A c \in Clones :
        Read(c, "task") \in {{}, {d \in work[c].deltas : d.kind = "task"}}
=============================================================================
