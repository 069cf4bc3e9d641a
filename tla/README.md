# Verification of the Raven distributed agent protocol

TLA+ specifications of the program in this repository: a team of agent nodes
(RDAP) that delegate tasks to each other over A2A/HTTP or, when a node is not
reachable, as signed files in a shared Git tree or in a mailbox, and the reference
protocol they are built on. TLC model-checks the modules on small instances; TLAPS
proves theorems about all of them for every value of their constants. Paths below
are relative to `src/`; `raven_protocol/` stands for `protocol/reference/raven_protocol/`.

    tlc -config MCPeers.cfg MCPeers.tla      # and so on, one .cfg per run
    tlapm NodeProofs.tla      # and PeersProofs, BoardProofs, TeamGitProofs, GitRelayProofs,
                              # DelegationAuthProofs, ReferenceProofs, Sums

## 1. Inventory

### Components, state and operations

| Component | Source | State | Operations | Module |
|---|---|---|---|---|
| Task store | `team_agents/task_store.py` | rows by (owner, task id), byte counter | save, get, list, delete, stats; lazy expiry, eviction | `TaskStore` |
| Delegation authorization | `raven_identity.py` 50-167, 571-657; `executor.py` 70-154 | SQLite replay database; trust and revocation files, reloaded on every use | verify_delegation, first_time, seen | `DelegationAuth` |
| RPC ingress | `server.py` 207-258, 357-572 | semaphore, buffered bodies, its own replay database | bearer check, admission, body, HTTP authentication, release | `RpcIngress` |
| Task executor | `executor.py` 156-263; `server.py` 60-205; `llm.py` 94-158 | cancel events, registries of owners, rows of tasks | execute, cancel, on_cancel_task | `TaskLifecycle` |
| Team Git sync | `memory.py` 314-380, 460-984 | branch, worktree, lock file; the remote branch | commit_push: fetch, fast-forward, commit, fetch, push | `TeamGit` |
| Git relay | `relay.py`, its commands in `rdap.py` | inbox, outbox, quarantine files, SQLite outcome table, acknowledged answers | send_task, process_inbox, take_replies, ack_replies | `GitRelay` |
| Mailbox drain | `server.py` 767-1016, `mesh.py` | objects in the store, list of handled objects, the outcome table | put, page by page get, drain, restart | `MeshDrain` |
| Deltas, board, chat, claims | `deltas.py`, `chat.py`, `memory.py` 1164-1281, `tools.py` | delta files, BOARD.md, goal, lock files | set_task, remember_fact, set_goal, post, claim_file, release_file, read | `TeamBoard` |
| Event log | `memory.py` 93-202, 986-1161; `server.py` 597-629 | event files | recent_events | `EventLog` |
| Trust files | `rdap.py` 97-260, 307-320, 596-614, 873-1059, 1289-1435 | `state.json`, `peers.json`, the state lock | trust, discover, init, model, start, raven-bind, the merge of say | `TrustFiles` |
| Sending | `client.py`, `rdap.py` 1467-1632, 1682-2023, 2557-2618 | none on disk | ask, say, do; probe, card, request, mailbox, Git | `Delivery` |
| Bridge to raven-node | `raven_ipc.py`, `rdap.py` 651-706 | the call in progress | seal_under_session | `SealIpc` |
| Pairing | `raven_protocol/pair_init.py`, `pair_init_v2.py`, `prekey.py` | pending and accepted inits | make, verify, answer, confirm | `Pairing` |
| Device revocation | `raven_protocol/device_revocation_conformance.py` | claims, markers, heads, journal | apply, expand, convert, re-verify, authorize | `DeviceRevocation` |
| Double ratchet | `raven_protocol/hybrid_ratchet_v2_tr.py`, `hybrid_ratchet_v2_state.py` | chain keys, skipped keys, receive pipeline, ledger | encrypt, decrypt, commit | `Ratchet` |
| Braid session | `raven_protocol/full_braid_transition.py`, `full_braid_state.py`, `full_braid_auth.py` | RVFB1 state, pending transition | four transitions, prepare, promote, clear | `Braid` |
| Protected anchor | `raven_protocol/full_braid_protected_anchor.py` | chain of anchors, container file | append, open | `ProtectedAnchor` |

### How they interact

A JSON-RPC request passes the ingress (slot, body, HTTP signature), the A2A SDK
(external), and the executor, which authorizes the signed delegation inside it and
runs the brain; the SDK saves the task in the task store after every event. A task
for an unreachable node is a file: the sender's command writes it into `.team/` and
syncs; the receiver's worker thread syncs, reads its inbox, claims the task in the
outcome table, runs the brain, writes the answer and syncs; the sender's command
syncs, shows the answer, records it as acknowledged, removes the file and syncs. The
same worker drains the mailbox, and claims in the same outcome table. Agents of a
clone write deltas and derive BOARD.md from them under the lock file that syncs
take too. All programs of a node share its worktree; nodes share the remote branch
only. The commands of `rdap.py` are processes of their own and share the two trust files.

### What is hard

* Interleaving: worker threads that authorize over one database; several processes
  in one worktree or home; nodes that push between the fetch and the push of another;
  slots handed over while their new owner times out; a cancellation against the
  completion of its task; files rewritten while a scan reads them.
* Readings of the clock: one authorization reads it in `verify_delegation` and again
  in `first_time` or `claim`, which expire rows by their own reading; devices and
  agents have clocks of their own.
* Crashes: every step of the relay (claim, run, complete, write, unlink, commit,
  push) is durable on its own; two trust files cannot be replaced together;
  a container and its anchor are written one after the other.
* Lost answers: a push, a request, a mailbox put or a seal may be done although it is
  reported as failed.
* Networks that lose, repeat, reorder and alter messages (pairing, ratchets, braid).
* Limits: full task store, replay database, outcome table, registry of owners, skipped
  keys, quota of revocations, directory and byte limits of a read; no free slot.

PROJECT.json lists the hardest of these as hazards, each at its line, with the property
that covers it or the reason why none does.

## 2. Modules and what they correspond to

**TaskStore.** `entries` is `_entries`, `total_bytes` is `_total_bytes`, `reply` is
what the caller saw last. One action per method and outcome: a method holds the asyncio
lock and never awaits. Every method prunes expired rows first, so every action
does. `Evictions` is the set of victim lists of the eviction loop that make the new
row fit; `SaveStored` takes the shortest. A task is its state and its serialized
size. `list` is modelled before filtering and paging.

**DelegationAuth.** `req[t]` is the request a worker thread is busy with and the
stage it reached; `recorded` is the table `replay_signatures`. One action between any
two readings of a file, of the clock or of the database: `Stamp` is `now = time.time()`
before the lock, `FirstTime`/`ReplayRefused` the transaction.
`timely`, `runs`, `everTrusted` and `everClear` are history variables. What a
signature signs is constant; `Intact` sums up the comparisons with signed content.

**RpcIngress.** `at[r]` follows a request through the bearer check and `__call__`; one
action between any two awaits. asyncio's semaphore is external and modelled from its
use and documented fairness: a slot that is released while requests wait is handed to
the first of them (stage `handed`), and is passed on when that one times out before it
runs. Pass-through of other routes, declared length, chunks, disconnects, both
timeouts, header checks, and a policy file that cannot be read are actions of their
own. Whether the peer of an HTTP signature is trusted is left open (any signed request may
be refused). A worker thread reads the clock to verify (`Verify`) and again in `first_time`
(`Stamp`), whose one transaction (`Admit`) tests the row, records the signature and deletes what
expired at that second reading; `wall` moves between any of these.

**TaskLifecycle.** `msg[m]` is where `execute` is for a message, `events` is
`_cancel_events` with both of its keys, `row` the rows of the task store, `owners` the
registries, `call[x]` where `on_cancel_task` is. The SDK is external: it runs the
messages of a task one after the other, saves what the executor enqueues, and when it
stops a producer, interrupts it, closes its queue, or comes too late for both;
the forced save of `CANCELED` follows.

**SharedHistory, TeamGit.** The abstract module is what a sync promises: one history
that grows at its end, and copies that record, adopt and publish. `TeamGit` implements
it. A commit is author and tree, a branch the sequence of its commits, ancestry the
prefix relation. `sync[p]` is where `commit_push` of process `p` is and the head it
fetched. Git itself is external: a fast-forward updates the paths that differ and
refuses when one of them has uncommitted contents; a server accepts fast-forwards only.
`NetworkFails` covers failed fetches and pushes, and a push that was done although its
answer was lost. `Reconcile` is the rebase by hand that the code asks for when
histories forked. The validation of what a range of commits touches is taken to
succeed, and a sync dies between two git commands, not inside one.

**GitRelay** EXTENDS `TeamGit`. `cli` is the user's command in progress (`rdap ask` or
`rdap replies`), `worker` the drain in progress, `outcomes` the SQLite table, `acked`
the sender's replay cache, `report` and `shown` what the user read. Reading a slot, each
verification, the claim, the run, `complete`, the write of the reply, the removal of
the task and the syncs are separate steps; processes die between any two. `timely` and
`invoked` count claims and runs.

**MeshDrain.** `store` is the mailbox, read in pages whose cursor is a place in its
order, while objects arrive and expire; `seenFile` is `.team/mesh-seen.json`, read when
a drain starts and saved after the whole drain, cut to its newest entries; `table` is
the outcome table of `GitRelay`. The process of the store, an external program, may be
gone, which the worker repairs with a restart.

**TeamBoard.** `work[c]` is a clone's worktree (deltas, BOARD.md, goal, lock files),
`gitlock[c]` its lock file, `Plan` the steps of each operation, one action each.
`Read` is `DeltaStore.read` with its limits: of writers, of directory entries, of
files, of stamps in the future. A pull, a commit and a push are one step each; their
steps are in `TeamGit`.

**EventLog.** A file is its name, its identity, its version and its pieces; `scan` is
where `recent_events` is and how much of each limit is spent. The look at the
directory, the opening, the look before, the read in pieces, the two looks after and
the last look are separate steps, between which files and directories change. The code
compares inode, size, `mtime_ns` and `ctime_ns`; the model has a counter of the writes for the
two times, and so sees a rewrite of the same size within one tick of the file system's clock,
which the code takes for the same content. The order of
a report is stated by ranks: an event stands where the number of those before it says.

**TrustFiles.** `home` is `state.json` (teammates with the identity that their endpoint
was verified for), `peers` is `peers.json`, `lock` is `STATE_LOCK_FILE`, `cmd[c]` the
process that runs a command. Every write is a step, and may fail or be the last.

**Delivery.** `rung[m]` is the place on the ladder of transports for a teammate, `got`
what its node has or will get of this attempt, `told` and `shown` what the user reads. What
fails and how is chosen freely; the code's classification of the failure decides what follows.
The user may repeat the command after any report in `RetryAfter`; `earlier` and `doubts` then
count what earlier attempts delivered and how many of them were not reported as undelivered.

**SealIpc.** `ipc[c]` is a call with its stage and its remaining time, `thread[c]` the
thread that a pipe call leaves behind, `conn` and `answer` the daemon's side.

**Pairing, DeviceRevocation, Ratchet, Braid, ProtectedAnchor.** Signatures, hashes and
keys are terms: a signature is its signer and what was signed, a root is the message and
the secrets that went into it, a chain is the root it came from. `wire` and `net` keep
all messages ever sent, so that any may be repeated, delayed or lost. In `Ratchet` a crash
falls between the derived candidate, the opened message, the receipt and the head; the steps after
the receipt (`persist_MKSKIPPED`, `FINALIZE_head`, `clear_PENDING`) are one, and a crash
between these three is not in the model. `Braid` has the
transitions that the code implements; the steps of the agent that it leaves to a
production runtime are modelled only as far as these need them (`*Elsewhere`). In
`ProtectedAnchor` the driver that writes the container and then the anchor is the
caller's, modelled as the module's comments say.

**Composition.** `GitRelay` extends `TeamGit`, which instantiates `SharedHistory`.
`MCNode` and `MCPeers` put modules that share no state into one run: the variable
`part` is chosen at first and says which module's next-state relation runs; the
others keep their first state. Each part is thereby checked as if alone, with all of
its own initial states. `MC*` modules hold the values of constants only.

## 3. Runs

| Run | Question | Bounds |
|---|---|---|
| `delegation_auth` | a valid delegation is accepted once; database bounded; accepted means authentic and allowed | 2 threads, 3 signatures (one broken), 2 peers, room for 1 row, clock to 2: expiry, housekeeping and a full database happen between any two steps |
| `delegation_auth_expiry` | *violation*, see 5 | 2 signatures, with counted runs |
| `team_git` | refinement of `SharedHistory`, one sync of a node at a time, no lost writes, all nodes come in step or are blocked | 2 nodes, 3 processes, 2 paths, worktrees written while their branch is empty (what is written early may be committed late), reconciliation once more, 2 failures |
| `git_relay` | once while valid, truthful answers, nothing vanishes, outcomes final, acknowledged answers not repeated | 1 task, 2 crashes or failures anywhere, clock to 2, forks reconciled up to 3 commits: a fork takes a crash between the answer and the removal of its task |
| `git_relay_crowd` | another process of the receiver commits the worktree between any two steps of the worker; a full outcome table | 2 tasks, room for 1 outcome, no failures |
| `git_relay_answered` | a queued task is finally answered or refused with evidence | 1 task, 1 failure |
| `git_relay_expiry`, `git_relay_not_queued` | *violations*, see 5 | 1 task, 1 failure |
| `node` | ingress: slots, memory, ownership, one request per signature while it is valid, every request decided; executor: a cancellation reaches its owner's task only, no traces of what was rejected, every task ends | 3 requests, 2 slots, body limit 1: two copies of one signed request, which expires at the first tick of the clock, so between any two of their steps, and a forged or anonymous one; 3 messages of 2 owners under one message id, of which 2 arrive, 1 cancellation, room for 2 owners, the trust of one owner withdrawn at any time |
| `trust_bind` | *violation*, see 5 | 2 commands at a time, 3 in all, 2 names, 2 addresses |
| `peers` | twelve parts, below | below |
| `board_prefix` | *violation*, see 5 | 3 agents, 2 clones, 2 directory entries |

The parts of `peers`:

| Part | Question | Bounds |
|---|---|---|
| `TaskStore` | limits, byte counter, unfinished work never evicted for another task, eviction order, nothing evicted in vain | 2 owners x 2 ids, 2 rows, 4 bytes, sizes 1, 3, 5, clock to 2: both limits and their combination are reached, one size never fits |
| `TeamBoard` | BOARD.md shows every task that was set, one owner per claimed file in a clone, posts that returned are published | 2 agents in one clone and one in another whose clock is behind, 3 calls, crashes anywhere, a published task that one clone has not pulled |
| `EventLog` | no torn, mixed or misplaced event is reported; bounded work; nothing missed in quiet | 2 directories, 3 files of up to 2 pieces, 2 changes at any step, each limit reached |
| `TrustFiles` | nobody is let in whom the user does not see; endpoints belong to the identity | 2 commands at a time, 3 in all, 1 crash or failed write, 2 names, 2 addresses; raven-bind only alone, see 5 |
| `Delivery` | once at most in an attempt; reports are true; repetitions deliver again only what a report left in doubt; only genuine text | 2 teammates, 3 commands with their flags, responses of up to 2 artifacts, 1 repetition, after a failure or a timeout |
| `MeshDrain` | run once while valid; table bounded; the saved list holds handled objects only | 4 objects (two with one task, one that is none), pages of 2, reads of 3, 2 remembered, room for 1 outcome, 4 troubles |
| `SealIpc` | an envelope is the one that was sealed for the call; which errors may be repeated; a pipe call ends in time | 1 call over a socket, 1 over a pipe, 1 trouble |
| `Pairing` | a confirmed init was accepted unaltered, in time, with the same root | 2 devices, the clock of one ahead, both versions, 2 inits, 1 altered message or rotation, clock to 2 |
| `DeviceRevocation` | no handle of a revoked device is authorized again, nor does its revocation depend on the journal; no change without a new generation; markers; collisions on record | 3 claims with one id, a shared handle, quota 1 to 3, 3 writes of the journal |
| `Ratchet` | no key twice; everything within the limits is read once | 4 and 3 messages in any order, 2 skipped at a time and kept, 3 keys each, 1 crash |
| `Braid` | chunks and keys never used twice, both sides derive the same, one sender per epoch | sources of 2 chunks, 4 epochs, 6 replay entries, chains of 1, 2 crashes |
| `ProtectedAnchor` | one unbroken history; no opening of a container set back; a crash alone never blocks | 2 sessions with 4 and 1 anchors, 1 container set back, 1 damaged or doubled record |

Constants called a *bound* in their comment limit the instance only; the others are
the program's own limits, set so small that they are reached. One crash and one lost
answer are enough to separate any two durable steps; two, to meet a recovery that fails
itself. In `node` one of the requests is the forged or anonymous one and the other two are
the copies, which is enough since requests differ in nothing else. Symmetry sets are not used. Deadlock is not
checked in `node`, `peers`, `trust_bind` and `board_prefix`, where everything may have
ended.

**Fairness.** `TeamGit!FairSpec`: every process keeps syncing and no sync stops
half-way (each is a finite sequence of git commands with a timeout); no fairness of
writes, failures, reconciliation. `FairRelaySpec`: the worker loop of the server goes
on (`while not stop_event.wait(...)`), the user collects answers again and again
and a started command goes on; nothing is assumed of new tasks, the clock,
failures or of help by a person. `IngressFairness`: the event loop runs what is ready and
its two timers fire; nothing is assumed of clients or of the application, which may
keep its slot for ever. `TaskFairness`: `execute` and `on_cancel_task` go on once
started, since each await in them is bounded by a timeout of the model client or of the
memory's lock; nothing is assumed of arrivals, cancellations or policy.

Every property is accompanied, in PROJECT.json, by a plausible bug of the code (a
definition marked *Mutant* in the module) that breaks it.

## 4. Proofs

Every theorem below is proved for all values of its module's constants: any number of
parties, tasks, files, processes, crashes and repetitions, any limits. The module
names are those of the proofs; each EXTENDS the modules it is about. The pattern is the same
throughout: an inductive invariant, checked with TLC on the run's instance before it was
proved; one lemma per action, and under it one step per part that the action can disturb;
a closing step with PTL. What an actor's record may look like is a predicate of its own
(`DeliveryFits`, `SealFits`, `StateFits` and so on), so that a step of one actor needs
no word about the others.

**Sums.** The sums of the community modules are folds. `SumOfEmpty`, `SumOfRemove`, `SumOfUnion` and
`SumBound` are proved from the fold's definition, with induction over a cardinality replaced
by a least counterexample (`LeastNumber`, `SmallestSet`), which the provers can do. `TaskStore`
counts bytes and `RpcIngress` memory with them, `EventLog` the sizes of what a scan reads.

**DelegationAuthProofs.** `TypeCorrect`, `AcceptedOnceWhileValid`, `AcceptedAllowed`,
`CacheStaysBounded`, `RecordedOnlyWhenAccepted`, `ValidStaysRecorded`, for both values of
`require_signed`. `OnceWhileValid` is not inductive. `AuthInv` adds what makes
it so: a stamp lies in the past (`StampedPast`), a signature accepted while valid
is recorded as long as it is valid (`ValidRecorded`), and what a thread has
already checked held at some moment of its request (`Known`). The stale stamp is
harmless because a stale reading considers more rows alive, never fewer; that is also
why `CacheBounded` holds although the limit is tested against it.

**TeamGitProofs.** `GitTypes`, which includes the mutual exclusion by the git lock,
`PullsKeepWrites` and the refinement
`SyncImplementsSharedHistory`. The refinement needs `FetchedInv`: a head that a process
fetched is a prefix of the remote branch, whatever others push before it is used, and a
local branch between its fast-forward and its push extends it. Then every sync step is a
step of `SharedHistory` or a stutter, and a push that succeeds only appends.

**GitRelayProofs.** `RelayTypes`, `ClaimedOnceWhileValid`, `FinalOnceDecided`,
`ReportsStayTrue`, `NothingEverVanishes`. *Once*: a task that was claimed keeps its row
while it is valid, since the row and every copy of the task's file, wherever it is, have one
and the same expiry. *Reports*: `Carried` is what the sync of a process takes to the remote
branch, so that "queued" is said only of what is there (`QueuedInv`); `RealInv` says of every
answer, wherever it is, that it was put there after a run. *Nothing vanishes*: `KeptInv` states
the property of every tree a fast-forward or a reconciliation can bring back, not of the remote
branch alone, and `Follows` orders trees by what may replace what: a task by its answer or the
evidence of its refusal, an answer by its acknowledgement. Every write of the relay and every
merge goes upwards in that order.

**NodeProofs.** *Ingress*: `IngressTypes`, `SlotsAreConserved`, `AdmissionIsVerified`,
`ResourcesAreBounded`. A signature is admitted once while it is valid: its row is kept that long,
since the reading that a thread holds lies in the past (`ReadingsBound`) and so considers more
rows alive, never fewer (`ReplayInv`). Slots are conserved because a released slot belongs to the request it
was handed to until that one runs or passes it on; the memory bound adds up over the owners
of slots, and needs the set of requests to be finite. *Executor*: `TaskTypesHold`,
`NothingLeftBehind`, `CancelsAreScoped`. `TaskInv` adds that at most one message of a task is
executing (`OneRun`, the SDK's promise), that every entry of `_cancel_events` belongs to an execution
in progress under one of its keys, and that every registered execution is found under the id
of its task (`EventsInv`); `on_cancel_task` sets the event that it finds there. *Task store*: `StoreTyped`,
`CountStaysBounded`, `RejectedNeverRetained`, `ActiveNeverDropped`, `BytesStayCounted`. `StoreInv`
joins types, row bound and the absence of rejected rows; `Counted` says that the byte
counter is the sum of the sizes of the rows and within its limit. `WithoutFacts`, `PrunedFacts` and
`SavedFacts` say once what removing, pruning and storing do to a table and its cardinality;
every operation is one of these. Both bounds follow because victims are rows other than the
saved one, so that the cardinality and the sum of the new table are the projected ones.
`EvictsMinimally`: (`updated_at`, key) orders the rows totally, so that a nonempty set of rows has
one youngest; the list of victims without its youngest would have been a list the loop
had before, when there was not enough room yet. A row saved as it was needs no room.
`NodeTyped`: a behaviour of the run `node` is one of its first part, which leaves the second
alone, or the other way round, and so has the types of both.

**PeersProofs.** *Trust files*: `TrustFilesTyped`, `EndpointsStayVerified`, `PeersAreShown`. A
command that holds the lock knows both files (`AsHolder`), and writes the one that hides nobody
first. `PeersAreShown` assumes `BindAlone = TRUE`, that is, no command runs beside raven-bind;
finding 4 shows why it must. *Sending*: `TasksDeliveredAsTold`. `DeliveryFits` ties the rung of a
teammate to what its node got in this attempt and what the user was told: below the request
nothing was delivered, and a rung is left downwards only after a failure that proves so. `PastFits`
does the accounts of earlier attempts. It is proved for every `RetryAfter`: a task is delivered
twice only to a user who repeats a command that was answered, queued or of unknown outcome. That is no
idle case: after a timeout `hint_timeout` of `runtime_hints.py` says "the brain may still be working —
retry", and the repetition has a new task id, which is why `say` calls a lost response ambiguous and asks the
user to check the peer's history first. *Mailbox*:
`MailboxRunsOnce`. A task that ran and has not expired has its row, so that the claim of a
second listing fails; an object in the saved list is settled. *Bridge*: `SealsAreOwned`. The
time a pipe call has spent and what is left of it add up to its timeout. Of a call over a socket no such bound
is stated: its timeout starts again at each operation and each piece.
*Event log*: `EventsHold`, `EventsTyped`. A content that a scan reports was that of the name's
file at some moment of the scan; the look after the read agrees with the one before it only
when nothing was written in between, as versions only grow, so that an open file is tied to
what it was when its name was last seen to lead to it. Where nobody disturbs the directory,
the position of the scan is known exactly: what it has spent of each limit is a count, or a sum, over
the names it is past. A report is in order because the ranks of a finite set under a strict
total order are 0..n−1, each once.

**ReferenceProofs.** `RevocationsHold`: what was acknowledged is applied or has its marker
(`RevokeInv`), so the journal may be cleared by the next claim that is inserted, and may stay
when its own claim is found to be known; the handles of every applied claim are denied, and while
there is a marker everything is. Each operation that changes claims, markers, damage,
collisions, forks or heads raises the generation.
`PairingsAgree`: whatever a signature covers was made by its signer (`Made`), so that a
confirmation was built from the init itself. `AnchorsHold`: the records of a session form a
chain in which generation and revision together number the record (`Unbroken`), of which one at
most has no successor; a container opens only when it is that end's, and one that stands behind
the end can be opened by nobody (`Stands`), while after a crash alone the container is that of
the newest record or of one that may follow it (`Undisturbed`).
*Ratchet*: `RatchetHolds`. Turns are numbered over both parties: Alice's key i is turn 2i+1, Bob's
2i. Every root is the sequence of the secrets up to its turn (`RootOf`), so that a chain is
known by its length. `Reader` says what a party in a given state has read: a message behind
the state is read or has its key kept, one ahead of it is neither, and the parties are one
turn apart at most.
*Braid*: `BraidHolds`. Which side sends the heads and which the tails of an epoch is decided by
the epoch's parity (`Heads`), and the sides are one epoch apart at most (`Together`). A transition
is prepared on a copy and persisted later, so the invariant says of a prepared one, too, what
it will make of the state (`Draft`), and counts the frames of a persisted one that are not
out yet as sent (`Sent`). Every seal was made with a root and a counter that lie before those its
side has now (`SealedBefore`): a crash before the persist makes nothing that was seen, and one
after it repeats the same frame.

**BoardProofs.** `BoardTyped`, `BoardHolds`. The invariant is built in layers, each of which uses
those before it. `Files`: deltas are distinct by writer, time and number, and no clock
finds one beyond the skew that a read allows for, so that a read leaves out nothing that its
limits admit. `Locking`: a call past its lock holds `.gitlock`. `Synced`: a branch that is not
ahead has nothing that is not published, and one at the remote version has all of it; `Posting`
follows a post from its worktree over the branch to the remote. `LockFiles`, `Claims`:
a lock file that an agent owns is changed by that agent only, so no pull brings back an
old owner. `Written`: a delta that returned is committed wherever it is. `Rows`, `Showing`:
boards show deltas of their own tree, cover what has returned, and are never older than the board
of their branch, which is why a fast-forward that replaces BOARD.md loses no task.

**Assumptions.** `StoreLimits`, `StoreInputs`, `AuthConstants`, `GitConstants`,
`RelayConstants`, `IngressConstants`, `TaskConstants`, `FreshIds`, `NobodyElse`,
`RepeatsAfterReports`, `MeshLimits`, `SealLimits`, `QuotaGrows`, `PairingTimes`,
`RatchetConstants`, `BraidConstants`, `EventConstants`, `BoardConstants`, `ClocksAgree`, `PublishedBefore`: limits are numbers, marker values differ from proper ones, and the like. TLC evaluates each
of them in a run of its module. Two say more. `FreshIds`: the message id a client draws
(uuid4) is not the task id that the SDK draws for another message. `ClocksAgree`: the clocks of two clones differ by MAX_DELTA_FUTURE_SKEW at most, the
difference that `DeltaStore.read` is written to tolerate. The clock never goes back anywhere.

**Only model-checked.** Liveness (`Settles`, `QueuedIsAnswered`, `EveryRequestDecided`,
`EveryTaskEnds`), which is outside TLAPS. `PeersTypeOK`, which joins the type invariants of twelve
parts: those of the task store, the board, the trust files and the events are theorems (`StoreTyped`,
`BoardTyped`, `TrustFilesTyped`, `EventsTyped`); the others have the types their invariants need among the invariants' parts, which is less
than `PeersTypeOK` says of them. For the mailbox more is not in reach: the bound of its
saved list rests on cutting a sorted sequence, which the library defines by recursion.

## 5. Findings

1. `SignatureRunsOnce` (`delegation_auth_expiry`): `verify_delegation` and
   `first_time` read the clock separately. A delegation that expires in between is
   accepted although its signature was recorded before, as its row counts as expired.
   The docstring promises "once-only semantics". While the delegation is valid it is
   once-only, which is proved. `verify_http_request` has the same gap: a copy of a signed
   request that is verified in the last second of its validity (`raven_identity.py` 455-462) and
   asks for its row in the next (94-111) is admitted again, although by
   `docs/rdap-task-lifecycle.md` 144 a second presentation before expiry must fail.
   `RpcIngress` contains that step, and `AdmittedAsVerified` says what is left: each signature is
   admitted at most once while it is valid.
2. `AtMostOnceInvocation` (`git_relay_expiry`): `RelayOutcomeStore.claim` deletes
   expired rows by its own reading of the clock, the row of the task that was just
   verified included; after a crash that left the task file, the brain runs
   twice. The class is documented as "at-most-once".
3. `NotQueuedNeverRuns` (`git_relay_not_queued`): when the second sync of `send_task`
   fails, `rdap ask` prints "not queued", but the envelope stays in the worktree or in
   the local branch; the next sync of any command publishes it and it is run.
4. `NoHiddenPeer` (`trust_bind`): `raven-bind` reads `state.json` and writes it back
   without the state lock and without comparing. Between the two, `trust` or `discover`
   may add a teammate, which is then lost from `state.json` while `peers.json` keeps
   its identity: an identity is let in that no list shows. `rdap.py` says that every
   interruption point is fail-closed "rather than leaving a hidden authorized
   identity". When `raven-bind` runs alone, the property holds (run `peers`).
5. `ReadsAreWhole` (`board_prefix`): when the limit of directory entries is met at the
   directory of a writer, `DeltaStore.read` stops and returns what it has read so far
   (`deltas.py` 143), while at its other limits it returns nothing, as a partial prefix
   would be a misleading projection by the module's own words; BOARD.md then lacks the
   tasks of later writers.

## 6. Not modelled

* Cryptography: signatures, hashes and keys are terms, and verify or not.
* Bytes: wire and state encodings, addresses, fingerprints, canonical JSON. Their
  correctness is one of bytes, for which the repository has vectors.
* Files: symbolic links, permissions and malformed envelopes, which the code
  refuses or quarantines before any step modelled here; atomic replacement of a file
  is one step (`EventLog` has identities and links of event files in detail).
* The clock set back, and databases or worktrees damaged by others.
* Start and stop of the server, mDNS, certificates, reading of the environment: run
  once, in order.
* Menus, diagnosis, `watch`, `ls` and the parsing of arguments in `rdap.py`, which only
  print; the conformance matrices and vectors of the reference protocol and the
  repository's selftest, which are tests themselves.
* External programs beyond their use: git, the A2A SDK, the model, the mailbox binary,
  raven-node, the production runtime of the braid.

## 7. What could follow

Theorems: `PeersTypeOK`, once the mailbox's cut is stated by ranks as the order of event
reports is. Models: the indexed session and the symmetric epochs of the reference protocol, with
the abstract specification "every message key opens at most one message".
