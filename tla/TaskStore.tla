----------------------------- MODULE TaskStore -----------------------------
(***************************************************************************)
(* BoundedTaskStore of team_agents/task_store.py: the in-memory A2A task   *)
(* store of one node, bounded in rows, in bytes and, for finished tasks,   *)
(* in time.                                                                *)
(*                                                                         *)
(* Every method takes the store's asyncio lock and awaits nothing while it *)
(* holds it, so each method is one atomic action.  A task is abstracted to *)
(* its status and its serialized size; the reply variable is what the last *)
(* caller saw.  Owners and task ids are numbers standing for strings, in   *)
(* the order Python's sort gives the strings.                              *)
(***************************************************************************)
EXTENDS Integers, FiniteSets, Functions

CONSTANTS
    Owners,      \* authenticated owners (owner_resolver)
    TaskIds,     \* well-formed task ids
    SavedStates, \* task states the callers save
    Sizes,       \* serialized sizes (_size) the callers save
    MaxCount,    \* max_count
    MaxBytes,    \* max_bytes
    Ttl,         \* ttl_seconds
    MaxClock     \* bound on the clock, for model checking only

VARIABLES
    entries,     \* _entries: (owner, task id) -> row, a partial function
    total_bytes, \* _total_bytes
    clock,       \* the monotonic clock
    reply        \* what the last call returned or raised

vars == <<entries, total_bytes, clock, reply>>

Active   == {"SUBMITTED", "WORKING"}
Terminal == {"COMPLETED", "CANCELED", "FAILED", "REJECTED"}
Keys     == Owners \X TaskIds
Entry    == [state : Active \cup Terminal, updated_at : Nat, size : Nat]

ASSUME StoreLimits ==
    /\ MaxCount \in Nat \ {0}
    /\ MaxBytes \in Nat \ {0}
    /\ Ttl \in Nat \ {0}
    /\ MaxClock \in Nat
ASSUME StoreInputs ==
    /\ Owners \subseteq Nat
    /\ TaskIds \subseteq Nat
    /\ SavedStates \subseteq Active \cup Terminal
    /\ Sizes \subseteq Nat

-----------------------------------------------------------------------------
\* Helpers over a table of rows.

\* Keys in the order of the tuples (owner, task_id).
KeyBefore(k1, k2) ==
    \/ k1[1] < k2[1]
    \/ k1[1] = k2[1] /\ k1[2] < k2[2]

\* The order in which finished rows are given up: (updated_at, key).
OlderThan(rows, k1, k2) ==
    \/ rows[k1].updated_at < rows[k2].updated_at
    \/ rows[k1].updated_at = rows[k2].updated_at /\ KeyBefore(k1, k2)

IsTerminal(row) == row.state \in Terminal
IsRejected(row) == row.state = "REJECTED"

Bytes(rows, keys) == SumFunctionOnSet([k \in keys |-> rows[k].size], keys)

\* _remove_locked of every key of a set: the remaining rows.
Without(rows, keys) == Restrict(rows, DOMAIN rows \ keys)

\* The rows _prune_expired_locked removes.
Expired(rows, now) ==
    {k \in DOMAIN rows : IsTerminal(rows[k]) /\ now - rows[k].updated_at >= Ttl}

\* Mutant: pruning forgets the byte counter.
UnprunedBytes == total_bytes

Pruned == Without(entries, Expired(entries, clock))
PrunedBytes == total_bytes - Bytes(entries, Expired(entries, clock))

\* Mutant: active work may be evicted too.
AllCandidates(rows, key) == DOMAIN rows \ {key}

\* Candidates of _evictions_for_locked: finished rows other than the saved one.
Candidates(rows, key) == {k \in DOMAIN rows \ {key} : IsTerminal(rows[k])}

\* Mutant: the youngest candidates are given up first.
YoungestFirst(rows, key) ==
    {{}} \cup {{k \in Candidates(rows, key) : k = c \/ OlderThan(rows, c, k)} :
                 c \in Candidates(rows, key)}

\* The lists the eviction loop goes through: nothing, then the oldest
\* candidates up to and including some candidate.
VictimLists(rows, key) ==
    {{}} \cup {{k \in Candidates(rows, key) : k = c \/ OlderThan(rows, k, c)} :
                 c \in Candidates(rows, key)}

\* Mutant: the new row is not counted.
UncountedNewRow(rows, key, victims) == Cardinality(DOMAIN rows) - Cardinality(victims)

\* projected_count and projected_bytes once victims are gone.
ProjectedCount(rows, key, victims) ==
    Cardinality(DOMAIN rows \cup {key}) - Cardinality(victims)

ProjectedBytes(rows, bytes, key, size, victims) ==
    (bytes - Bytes(rows, DOMAIN rows \cap {key}) + size) - Bytes(rows, victims)

\* The victim lists after which the new row fits.
Evictions(rows, bytes, key, size) ==
    {victims \in VictimLists(rows, key) :
        /\ ProjectedCount(rows, key, victims) <= MaxCount
        /\ ProjectedBytes(rows, bytes, key, size, victims) <= MaxBytes}

\* entries[key] = row.
Put(rows, key, row) ==
    [k \in DOMAIN rows \cup {key} |-> IF k = key THEN row ELSE rows[k]]

-----------------------------------------------------------------------------
\* The operations.

\* The method, the key it was called for, its outcome and the keys of the rows it
\* returned.
Reply(op, key, result, rows) ==
    [op |-> op, key |-> key, result |-> result, rows |-> rows]

NoTaskKey == <<-1, -1>>
NoReply == Reply("none", NoTaskKey, "none", {})

Init ==
    /\ entries = <<>>
    /\ total_bytes = 0
    /\ clock = 0
    /\ reply = NoReply

\* An owner key over 1024 bytes, or an empty or oversized task id: refused
\* before the lock, with no pruning.
InvalidParams ==
    /\ reply' = Reply("invalid", NoTaskKey, "InvalidParamsError", {})
    /\ UNCHANGED <<entries, total_bytes, clock>>

\* save of a rejected task: never stored, never replaces a valid row.
SaveRejected(owner, id) ==
    /\ "REJECTED" \in SavedStates
    /\ LET gone == {k \in DOMAIN Pruned \cap {<<owner, id>>} : IsRejected(Pruned[k])}
       IN  /\ entries' = Without(Pruned, gone)
           /\ total_bytes' = PrunedBytes - Bytes(Pruned, gone)
    /\ reply' = Reply("save_rejected", <<owner, id>>, "ok", {})
    /\ UNCHANGED clock

\* save of a task larger than the whole store: refused before the lock.
SaveOversized(owner, id, size) ==
    /\ size > MaxBytes
    /\ reply' = Reply("save", <<owner, id>>, "TaskStoreCapacityError", {})
    /\ UNCHANGED <<entries, total_bytes, clock>>

\* save that fits, after the shortest sufficient list of evictions.
SaveStored(owner, id, state, size) ==
    /\ state # "REJECTED"
    /\ size <= MaxBytes
    /\ LET key  == <<owner, id>>
           fits == Evictions(Pruned, PrunedBytes, key, size)
       IN  \E victims \in fits :
             /\ \A other \in fits : victims \subseteq other
             /\ entries' = Put(Without(Pruned, victims), key,
                               [state |-> state, updated_at |-> clock, size |-> size])
             /\ total_bytes' = ProjectedBytes(Pruned, PrunedBytes, key, size, victims)
    /\ reply' = Reply("save", <<owner, id>>, "ok", {})
    /\ UNCHANGED clock

\* save that no list of evictions makes room for: only the pruning happened.
SaveNoRoom(owner, id, state, size) ==
    /\ state # "REJECTED"
    /\ size <= MaxBytes
    /\ Evictions(Pruned, PrunedBytes, <<owner, id>>, size) = {}
    /\ entries' = Pruned
    /\ total_bytes' = PrunedBytes
    /\ reply' = Reply("save", <<owner, id>>, "TaskStoreCapacityError", {})
    /\ UNCHANGED clock

\* get: the row of this owner, or nothing.
Get(owner, id) ==
    /\ entries' = Pruned
    /\ total_bytes' = PrunedBytes
    /\ reply' = Reply("get", <<owner, id>>, "ok", DOMAIN Pruned \cap {<<owner, id>>})
    /\ UNCHANGED clock

\* list: the rows of this owner, before the request's filters and paging.
List(owner) ==
    /\ entries' = Pruned
    /\ total_bytes' = PrunedBytes
    /\ reply' = Reply("list", NoTaskKey, "ok", DOMAIN Pruned \cap ({owner} \X TaskIds))
    /\ UNCHANGED clock

\* delete: the row of this owner, if there is one.
Delete(owner, id) ==
    /\ LET gone == DOMAIN Pruned \cap {<<owner, id>>}
       IN  /\ entries' = Without(Pruned, gone)
           /\ total_bytes' = PrunedBytes - Bytes(Pruned, gone)
    /\ reply' = Reply("delete", <<owner, id>>, "ok", {})
    /\ UNCHANGED clock

\* stats: counters over the pruned table.
Stats ==
    /\ entries' = Pruned
    /\ total_bytes' = PrunedBytes
    /\ reply' = Reply("stats", NoTaskKey, "ok", DOMAIN Pruned)
    /\ UNCHANGED clock

\* Time passes between calls.
Tick ==
    /\ clock < MaxClock
    /\ clock' = clock + 1
    /\ reply' = NoReply
    /\ UNCHANGED <<entries, total_bytes>>

Save(owner, id, state, size) ==
    \/ SaveOversized(owner, id, size)
    \/ SaveStored(owner, id, state, size)
    \/ SaveNoRoom(owner, id, state, size)

Next ==
    \/ \E owner \in Owners, id \in TaskIds :
         \/ SaveRejected(owner, id)
         \/ Get(owner, id)
         \/ Delete(owner, id)
         \/ \E state \in SavedStates, size \in Sizes : Save(owner, id, state, size)
    \/ \E owner \in Owners : List(owner)
    \/ InvalidParams
    \/ Stats
    \/ Tick

Spec == Init /\ [][Next]_vars
-----------------------------------------------------------------------------
\* Properties.

Outcomes == {"none", "ok", "InvalidParamsError", "TaskStoreCapacityError"}
Methods  == {"none", "save", "save_rejected", "get", "list", "delete", "stats",
             "invalid"}

\* The store's variables have the types of the fields of BoundedTaskStore; the
\* table is always a finite function on keys.
TypeOK ==
    /\ DOMAIN entries \subseteq Keys
    /\ IsFiniteSet(DOMAIN entries)
    /\ entries \in [DOMAIN entries -> Entry]
    /\ clock \in Nat
    /\ reply \in [op : Methods, key : Keys \cup {NoTaskKey},
                  result : Outcomes, rows : SUBSET Keys]

\* save never leaves more rows than max_count.
CountBounded == Cardinality(DOMAIN entries) <= MaxCount

\* The byte limit holds of the rows really stored, although save only tests the
\* running counter _total_bytes that every removal and insertion adjusts.
BytesBounded ==
    /\ total_bytes \in 0 .. MaxBytes
    /\ total_bytes = Bytes(entries, DOMAIN entries)

\* "Rejected tasks are never retained", whatever was saved under the key before.
NoRejectedRow == \A k \in DOMAIN entries : entries[k].state # "REJECTED"

\* A row that is no longer there, or was replaced, after a step.
Lost(k) == k \notin DOMAIN entries' \/ entries'[k] # entries[k]

\* No expiry, eviction, rejected save or failed save removes or changes the row
\* of unfinished work: it goes only by its own delete, and is replaced only by its
\* own save.  A save of another task never takes its place, not even one of the
\* same owner: "Never evict an active (non-terminal) task to admit
\* another task"
\* (docs/rdap-task-lifecycle.md, 7.2).
ActiveKeptStep ==
    \A k \in DOMAIN entries :
        entries[k].state \in Active /\ Lost(k) =>
            /\ reply'.key = k
            /\ reply'.result = "ok"
            /\ reply'.op = "delete" \/ (reply'.op = "save" /\ k \in DOMAIN entries')

ActiveKept == [][ActiveKeptStep]_vars

\* The unexpired rows that a save gave up for room.
Evicted == IF reply'.op = "save"
           THEN DOMAIN entries \ (DOMAIN entries' \cup Expired(entries, clock))
           ELSE {}

\* Every finished row that survives unchanged is younger than the victims.
OldestEvicted ==
    \A k \in Evicted, m \in DOMAIN entries :
        ~Lost(m) /\ entries[m].state \in Terminal => OlderThan(entries, k, m)

\* With the youngest victim kept the table would exceed one of the limits.
NoNeedlessEviction ==
    \A k \in Evicted :
        (\A m \in Evicted \ {k} : OlderThan(entries, m, k))
        => \/ Cardinality(DOMAIN entries') + 1 > MaxCount
           \/ Bytes(entries', DOMAIN entries') + entries[k].size > MaxBytes

\* After a refusal for capacity and a rejected save only expired rows are gone.
RefusalEvictsNothing ==
    reply'.result # "ok" \/ reply'.op = "save_rejected" =>
        \A k \in DOMAIN entries : Lost(k) => k \in Expired(entries, clock)

\* A save gives up finished rows oldest first, no more of them than it must, and
\* none at all when it ends up refused.
EvictionMinimal ==
    [][OldestEvicted /\ NoNeedlessEviction /\ RefusalEvictsNothing]_vars
=============================================================================
