----------------------------- MODULE MeshDrain ------------------------------
(***************************************************************************)
(* The experimental mailbox of a node: teammates put objects into a store, *)
(* and the relay worker of server.py drains it.  Objects stay in the store *)
(* until they expire there; the worker remembers the ones it has handled   *)
(* in a short file that it writes after a whole drain, and relies for the  *)
(* rest on the outcome table that the Git relay also uses.  The store and  *)
(* its client are an external program.                                     *)
(***************************************************************************)
EXTENDS Naturals, Sequences, FiniteSets, SequencesExt, FiniteSetsExt

CONSTANTS
    Objects,      \* objects in the mailbox
    Tasks,        \* signed tasks
    Carries,      \* [Objects -> the task in it, or Garbage]
    Garbage,      \* an object without a well-formed task
    Position,     \* [Objects -> place in the order the store lists them in]
    PageSize,     \* objects in a page of the store
    MaxObjects,   \* MAX_MAILBOX_OBJECTS
    MaxSeen,      \* max_mesh_seen
    MaxRows,      \* capacity of the outcome table
    MaxTroubles   \* bound: crashes, failures, changes of policy

ASSUME MeshLimits == MaxSeen \in Nat /\ MaxRows \in Nat

VARIABLES
    store,     \* the objects in the mailbox
    serving,   \* the process of the store answers
    seenFile,  \* .team/mesh-seen.json, oldest first
    drain,     \* the worker
    table,     \* outcome table: task -> "running" or "completed"
    replyFile, \* tasks whose reply is in the worktree
    ran,       \* [Tasks -> runs before the task expired]
    valid,     \* tasks that have not expired
    admitted,  \* tasks whose sender is trusted now
    refused,   \* objects whose task was refused
    troubles

meshVars == <<store, serving, seenFile, drain, table, replyFile, ran, valid, admitted,
              refused, troubles>>

NoDrain == [at |-> "idle", todo |-> <<>>, seen |-> <<>>, cursor |-> 0, again |-> FALSE]

MeshInit ==
    /\ store = {} /\ serving = TRUE /\ seenFile = <<>>
    /\ drain = NoDrain
    /\ table = <<>>
    /\ replyFile = {} /\ refused = {}
    /\ ran = [t \in Tasks |-> 0]
    /\ valid = Tasks /\ admitted = Tasks
    /\ troubles = 0

Trouble == troubles < MaxTroubles /\ troubles' = troubles + 1
Task    == Carries[Head(drain.todo)]

DrainAt(stage) == drain.at = stage /\ drain.todo # <<>>
DrainTo(stage) == drain' = [drain EXCEPT !.at = stage]

\* The object is dealt with: remembered, in memory only.
Handled ==
    drain' = [drain EXCEPT !.at = "object", !.todo = Tail(@),
                           !.seen = Append(@, Head(drain.todo))]

-----------------------------------------------------------------------------
\* The store and the world.

MeshPut(o) ==
    /\ o \notin store /\ Trouble
    /\ store' = store \cup {o}
    /\ UNCHANGED <<serving, seenFile, drain, table, replyFile, ran, valid, admitted, refused>>

\* An object leaves the store, its process goes down, a task expires, a sender is
\* revoked or trusted.
WorldChanges ==
    /\ Trouble
    /\ \/ \E o \in store : store' = store \ {o} /\ UNCHANGED <<serving, valid, admitted>>
       \/ serving' = FALSE /\ UNCHANGED <<store, valid, admitted>>
       \/ \E t \in valid : valid' = valid \ {t} /\ UNCHANGED <<store, serving, admitted>>
       \/ \E t \in Tasks : /\ admitted' = SymDiff(admitted, {t})
                           /\ UNCHANGED <<store, serving, valid>>
    /\ UNCHANGED <<seenFile, drain, table, replyFile, ran, refused>>

\* Any exception ends the drain, and nothing it remembered is saved.
MeshFails ==
    /\ drain.at # "idle" /\ Trouble
    /\ drain' = NoDrain
    /\ UNCHANGED <<store, serving, seenFile, table, replyFile, ran, valid, admitted, refused>>

-----------------------------------------------------------------------------
\* A drain.

MeshGet ==
    /\ drain.at = "idle"
    /\ drain' = [NoDrain EXCEPT !.at = "page", !.seen = seenFile]
    /\ UNCHANGED <<store, serving, seenFile, table, replyFile, ran, valid, admitted, refused, troubles>>

\* The objects that are listed after the cursor, and the next page of them.
Listed(cursor) == {o \in store : Position[o] > cursor}
Page(cursor)  ==
    LET listed == SetToSortSeq(Listed(cursor), LAMBDA o, p : Position[o] < Position[p])
    IN  SubSeq(listed, 1, Min({PageSize, Len(listed)}))

\* mailbox_get_all asks for page after page, while others put objects into the
\* store; more objects than the limit fail the drain.
MeshPage ==
    LET page == Page(drain.cursor)
        objs == drain.todo \o page
    IN  /\ drain.at = "page" /\ serving
        /\ drain' =
             IF Len(objs) > MaxObjects THEN NoDrain
             ELSE IF Len(page) = Cardinality(Listed(drain.cursor))
             THEN [drain EXCEPT !.at = "object", !.todo = objs]
             ELSE [drain EXCEPT !.todo = objs, !.cursor = Position[Last(page)]]
        /\ UNCHANGED <<store, serving, seenFile, table, replyFile, ran, valid, admitted, refused,
                       troubles>>

\* A store that does not answer is started again, once in a drain; if that fails,
\* its rows are left as they are.
MeshRestart ==
    /\ drain.at = "page" /\ ~serving
    /\ \/ ~drain.again /\ serving' = TRUE
          /\ drain' = [drain EXCEPT !.todo = <<>>, !.cursor = 0, !.again = TRUE]
       \/ serving' = FALSE /\ drain' = NoDrain
    /\ UNCHANGED <<store, seenFile, table, replyFile, ran, valid, admitted, refused, troubles>>

\* Known objects are passed over, malformed ones are remembered.
MeshPass ==
    /\ DrainAt("object")
    /\ \/ /\ Head(drain.todo) \in Range(drain.seen)
          /\ drain' = [drain EXCEPT !.todo = Tail(@)]
       \/ /\ Head(drain.todo) \notin Range(drain.seen) /\ Task = Garbage
          /\ Handled
    /\ UNCHANGED <<store, serving, seenFile, table, replyFile, ran, valid, admitted, refused, troubles>>

\* The signature, its time and its sender, by the policy of this moment.
MeshVerify ==
    /\ DrainAt("object")
    /\ Head(drain.todo) \notin Range(drain.seen) /\ Task # Garbage
    /\ IF Task \in valid \cap admitted
       THEN DrainTo("claim") /\ UNCHANGED refused
       ELSE Handled /\ refused' = refused \cup {Head(drain.todo)}
    /\ UNCHANGED <<store, serving, seenFile, table, replyFile, ran, valid, admitted, troubles>>

\* Rows of expired tasks are deleted, the one that is claimed included.
LiveTable == [t \in DOMAIN table \cap valid |-> table[t]]

Entered(state) ==
    [t \in DOMAIN LiveTable \cup {Task} |-> IF t = Task THEN state ELSE table[t]]

\* Mutant: a task that was interrupted is run again.
MeshClaimRetries ==
    /\ DrainAt("claim")
    /\ IF Task \in DOMAIN LiveTable /\ table[Task] = "completed"
       THEN DrainTo("reply") /\ table' = LiveTable
       ELSE /\ Task \in DOMAIN LiveTable \/ Cardinality(DOMAIN LiveTable) < MaxRows
            /\ DrainTo("run") /\ table' = Entered("running")
    /\ UNCHANGED <<store, serving, seenFile, replyFile, ran, valid, admitted, refused, troubles>>

\* claim: an answer that is there, work that was interrupted, or new work for
\* which there is a row; a full table fails the drain.
MeshClaim ==
    /\ DrainAt("claim")
    /\ IF Task \in DOMAIN LiveTable
       THEN /\ DrainTo(IF table[Task] = "completed" THEN "reply" ELSE "complete")
            /\ table' = LiveTable
       ELSE IF Cardinality(DOMAIN LiveTable) < MaxRows
       THEN DrainTo("run") /\ table' = Entered("running")
       ELSE drain' = NoDrain /\ UNCHANGED table
    /\ UNCHANGED <<store, serving, seenFile, replyFile, ran, valid, admitted, refused, troubles>>

\* The brain, whose exceptions are answers too.
MeshRun ==
    /\ DrainAt("run")
    /\ DrainTo("complete")
    /\ ran' = [ran EXCEPT ![Task] = @ + IF Task \in valid THEN 1 ELSE 0]
    /\ UNCHANGED <<store, serving, seenFile, table, replyFile, valid, admitted, refused, troubles>>

\* The signed answer, or the notice of an interruption.
MeshComplete ==
    /\ DrainAt("complete")
    /\ DrainTo("reply")
    /\ table' = Entered("completed")
    /\ UNCHANGED <<store, serving, seenFile, replyFile, ran, valid, admitted, refused, troubles>>

MeshReply ==
    /\ DrainAt("reply")
    /\ replyFile' = replyFile \cup {Task}
    /\ Handled
    /\ UNCHANGED <<store, serving, seenFile, table, ran, valid, admitted, refused, troubles>>

\* Mutant: the list is saved as it is.
MeshSaveUncut ==
    /\ drain.at = "object" /\ drain.todo = <<>>
    /\ seenFile' = drain.seen
    /\ drain' = NoDrain
    /\ UNCHANGED <<store, serving, table, replyFile, ran, valid, admitted, refused, troubles>>

\* The list is saved after the last object, cut to the newest; then a sync
\* publishes the replies, or a later one does.
MeshSave ==
    /\ drain.at = "object" /\ drain.todo = <<>>
    /\ seenFile' = [i \in 1 .. Min({MaxSeen, Len(drain.seen)}) |->
                     drain.seen[Len(drain.seen) - Min({MaxSeen, Len(drain.seen)}) + i]]
    /\ drain' = NoDrain
    /\ UNCHANGED <<store, serving, table, replyFile, ran, valid, admitted, refused, troubles>>

MeshNext ==
    \/ \E o \in Objects : MeshPut(o)
    \/ WorldChanges \/ MeshFails
    \/ MeshGet \/ MeshPage \/ MeshRestart \/ MeshPass \/ MeshVerify \/ MeshClaim \/ MeshRun \/ MeshComplete
    \/ MeshReply \/ MeshSave

MeshSpec == MeshInit /\ [][MeshNext]_meshVars

-----------------------------------------------------------------------------
\* Properties.

MeshTypeOK ==
    /\ store \subseteq Objects /\ serving \in BOOLEAN /\ refused \subseteq Objects
    /\ Range(seenFile) \subseteq Objects /\ Len(seenFile) <= MaxSeen
    /\ drain.at \in {"idle", "page", "object", "claim", "run", "complete", "reply"}
    /\ DOMAIN table \subseteq Tasks
    /\ replyFile \subseteq Tasks /\ valid \subseteq Tasks /\ admitted \subseteq Tasks

\* However often the short list of handled objects is lost, cut or out of date,
\* and however many objects carry the same task, the task is run at most once
\* while it is valid; the outcome table keeps its bound; and an object that was put on the
\* saved list was answered, refused or not a task.
MeshSound ==
    /\ \A t \in Tasks : ran[t] <= 1
    /\ Cardinality(DOMAIN table) <= MaxRows
    /\ \A o \in Range(seenFile) :
          Carries[o] = Garbage \/ o \in refused \/ Carries[o] \in replyFile
=============================================================================
