--------------------------- MODULE TaskLifecycle ---------------------------
(***************************************************************************)
(* One task from its message to its terminal state: TeamAgentExecutor with *)
(* its cancel events, the tool loop of OpenAIBrain, the owner-scoped       *)
(* registries and on_cancel_task with its forced save.  All of it runs on  *)
(* one event loop; an action is what happens between two awaits.  The      *)
(* a2a-sdk is external: it runs the messages of one task of one owner one  *)
(* after the other, saves every event that the executor enqueues, and on   *)
(* cancellation interrupts the executor or closes its queue, or comes too  *)
(* late for both.                                                          *)
(***************************************************************************)
EXTENDS Naturals, FiniteSets, Functions, TLC

CONSTANTS
    Messages,    \* deliveries of messages to the server
    Cancels,     \* calls of CancelTask
    By, About,   \* [Messages \cup Cancels -> the owner, the task id]
    MessageId,   \* [Messages -> id under which the message was signed]
    Authentic,   \* the messages that verify_delegation can accept
    Earlier,     \* owners that may have been served before
    Doubted,     \* bound: owners whose trust may be withdrawn
    MaxOwners,   \* capacity of the owner-scoped registries
    MaxSteps,    \* max_steps of the tool loop
    MaxArrivals  \* messages that arrive, a bound of the model

\* The ids of messages are made by the client (uuid4), those of tasks by the SDK: an
\* owner's message is not signed under the id of another of that owner's tasks.
\* Nothing is assumed of the ids of different owners.
ASSUME FreshIds ==
    \A m, n \in Messages :
        By[m] = By[n] /\ MessageId[m] = About[n] => About[m] = About[n]

ASSUME TaskConstants ==
    /\ MaxOwners \in Nat
    /\ MaxSteps \in Nat
    /\ IsFiniteSet(Earlier) /\ Cardinality(Earlier) <= MaxOwners

VARIABLES
    msg,         \* [Messages -> stage of execute]
    step,        \* [Messages -> steps of the brain so far]
    events,      \* _cancel_events: (owner, id) -> the message whose event it is
    isSet,       \* the messages whose event is set
    queueClosed, \* the messages whose event queue the SDK closed
    row,         \* task store: (owner, task) -> state
    owners,      \* owners that have a registry
    call,        \* [Cancels -> stage of on_cancel_task]
    policy,      \* owners trusted and not revoked by the files on disk
    touched      \* messages for which team memory or Git was written

taskVars == <<msg, step, events, isSet, queueClosed, row, owners, call, policy, touched>>

Principals == {By[m] : m \in Messages \cup Cancels}
Row(m)     == <<By[m], About[m]>>
Ended      == {"COMPLETED", "FAILED", "CANCELED"}
Running    == {"register", "start", "brain", "complete", "fail"}
Stages     == Running \cup {"new", "authorize", "finally", "rejected", "refused", "done", "raised"}
CallStages == {"new", "authorize", "stop", "hook", "drained", "canceled", "notfound", "denied"}

\* Mutant: a cancel event is registered under the message's id only.
KeysOfMessage(m) == {<<By[m], MessageId[m]>>}

EventKeys(m) == {Row(m), <<By[m], MessageId[m]>>}

Registered(m) == msg[m] \in {"start", "brain", "complete", "fail"}

TaskInit ==
    /\ msg = [m \in Messages |-> "new"]
    /\ step = [m \in Messages |-> 0]
    /\ events = <<>> /\ isSet = {} /\ queueClosed = {}
    /\ row = <<>>
    /\ owners \in SUBSET Earlier
    /\ call = [x \in Cancels |-> "new"]
    /\ policy = Principals
    /\ touched = {}

To(m, stage) == msg' = [msg EXCEPT ![m] = stage]

\* The SDK saves an event of the executor, unless it closed the queue.
Emit(m, state) ==
    row' = IF m \in queueClosed THEN row
           ELSE [k \in DOMAIN row \cup {Row(m)} |-> IF k = Row(m) THEN state ELSE row[k]]

-----------------------------------------------------------------------------
\* A message.

\* get_or_create: the registry of the owner, a new one while there is capacity;
\* an owner's registry is never given back.
TaskArrive(m) ==
    /\ msg[m] = "new"
    /\ Cardinality({n \in Messages : msg[n] # "new"}) < MaxArrivals
    /\ \A n \in Messages : Row(n) = Row(m) => msg[n] \notin Running \cup {"authorize", "finally"}
    /\ Row(m) \in DOMAIN row => row[Row(m)] \notin Ended
    /\ IF By[m] \in owners \/ Cardinality(owners) < MaxOwners
       THEN To(m, "authorize") /\ owners' = owners \cup {By[m]}
       ELSE To(m, "refused") /\ UNCHANGED owners
    /\ UNCHANGED <<step, events, isSet, queueClosed, row, call, policy, touched>>

\* authorize, in a worker thread; DelegationAuth has it in detail.
Authorized(m) == m \in Authentic /\ By[m] \in policy

\* Mutant: the work is announced before it is authorized.
TaskRejectAfterRow(m) ==
    /\ msg[m] = "authorize" /\ ~Authorized(m)
    /\ To(m, "rejected")
    /\ Emit(m, "SUBMITTED")
    /\ UNCHANGED <<step, events, isSet, queueClosed, owners, call, policy, touched>>

\* Rejected: one terminal event, which the store does not keep.
TaskReject(m) ==
    /\ msg[m] = "authorize" /\ ~Authorized(m)
    /\ To(m, "rejected")
    /\ UNCHANGED <<step, events, isSet, queueClosed, row, owners, call, policy, touched>>

\* Accepted: a first message announces the task.
TaskAccept(m) ==
    /\ msg[m] = "authorize" /\ Authorized(m)
    /\ To(m, "register")
    /\ IF Row(m) \in DOMAIN row THEN UNCHANGED row ELSE Emit(m, "SUBMITTED")
    /\ UNCHANGED <<step, events, isSet, queueClosed, owners, call, policy, touched>>

\* The cancel event, under the task's and under the message's id; submit.
TaskRegister(m) ==
    /\ msg[m] = "register"
    /\ To(m, "start")
    /\ events' = [k \in DOMAIN events \cup EventKeys(m) |->
                    IF k \in EventKeys(m) THEN m ELSE events[k]]
    /\ Emit(m, "SUBMITTED")
    /\ UNCHANGED <<step, isSet, queueClosed, owners, call, policy, touched>>

\* start_work and the entries in the team log, which may fail.
TaskStart(m) ==
    /\ msg[m] = "start"
    /\ To(m, "brain") \/ To(m, "fail")
    /\ Emit(m, "WORKING")
    /\ touched' = touched \cup {m}
    /\ UNCHANGED <<step, events, isSet, queueClosed, owners, call, policy>>

\* One round of the loop: a cancelled task ends with the answer CANCELLED; the
\* model answers, or asks for tools, or its server fails; at last no step is left.
TaskBrain(m) ==
    /\ msg[m] = "brain"
    /\ IF step[m] = MaxSteps THEN To(m, "fail") /\ UNCHANGED step
       ELSE IF m \in isSet THEN To(m, "complete") /\ UNCHANGED step
       ELSE \/ To(m, "complete") /\ UNCHANGED step
            \/ To(m, "fail") /\ UNCHANGED step
            \/ step' = [step EXCEPT ![m] = @ + 1] /\ UNCHANGED msg
    /\ UNCHANGED <<events, isSet, queueClosed, row, owners, call, policy, touched>>

\* The signed artifact and complete; signing and the last log entry may fail.
TaskComplete(m) ==
    /\ msg[m] = "complete"
    /\ \/ To(m, "finally") /\ Emit(m, "COMPLETED")
       \/ To(m, "fail") /\ (UNCHANGED row \/ Emit(m, "COMPLETED"))
    /\ UNCHANGED <<step, events, isSet, queueClosed, owners, call, policy, touched>>

\* The handler of all exceptions logs first; when that fails too, the task is
\* never reported as failed.
TaskFail(m) ==
    /\ msg[m] = "fail"
    /\ \/ To(m, "finally") /\ Emit(m, "FAILED")
       \/ To(m, "raised") /\ UNCHANGED row
    /\ events' = IF msg'[m] = "raised"
                 THEN Restrict(events, DOMAIN events \ EventKeys(m)) ELSE events
    /\ UNCHANGED <<step, isSet, queueClosed, owners, call, policy, touched>>

\* Whatever happened, both ids are forgotten, and team memory is synced.
TaskFinally(m) ==
    /\ msg[m] = "finally"
    /\ To(m, "done")
    /\ events' = Restrict(events, DOMAIN events \ EventKeys(m))
    /\ UNCHANGED <<step, isSet, queueClosed, row, owners, call, policy, touched>>

-----------------------------------------------------------------------------
\* A cancellation.

At(x, stage) == call' = [call EXCEPT ![x] = stage]

\* The row of this owner, before anything else.
CancelLookup(x) ==
    /\ call[x] = "new"
    /\ At(x, IF Row(x) \in DOMAIN row THEN "authorize" ELSE "notfound")
    /\ UNCHANGED <<msg, step, events, isSet, queueClosed, row, owners, policy, touched>>

\* _authorize_cancellation, by the policy files of this moment.
CancelAuthorize(x) ==
    /\ call[x] = "authorize"
    /\ At(x, IF By[x] \in policy THEN "stop" ELSE "denied")
    /\ UNCHANGED <<msg, step, events, isSet, queueClosed, row, owners, policy, touched>>

\* The SDK refuses when the task has ended, and otherwise stops its producer:
\* the executor is interrupted, before its try or in it, or goes on with a closed
\* queue, or with an open one.
CancelStop(x) ==
    LET mine == {m \in Messages : Row(m) = Row(x) /\ msg[m] \in Running \cup {"authorize"}}
    IN  /\ call[x] = "stop"
        /\ \/ row[Row(x)] \in Ended /\ At(x, "denied") /\ UNCHANGED <<msg, queueClosed>>
           \/ /\ At(x, "hook")
              /\ \/ msg' = [m \in Messages |-> IF m \notin mine THEN msg[m]
                                             ELSE IF msg[m] \in {"authorize", "register"} THEN "done"
                                             ELSE "finally"]
                 \/ UNCHANGED msg
              /\ queueClosed' \in {queueClosed, queueClosed \cup mine}
        /\ UNCHANGED <<step, events, isSet, row, owners, policy, touched>>

\* The executor's hook sets the event that is registered under the task's id.
CancelHook(x) ==
    /\ call[x] = "hook"
    /\ At(x, "drained")
    /\ isSet' = IF Row(x) \in DOMAIN events THEN isSet \cup {events[Row(x)]} ELSE isSet
    /\ UNCHANGED <<msg, step, events, queueClosed, row, owners, policy, touched>>

\* Mutant: the hook's caller believes the SDK.
CancelForceSaveTrusts(x) ==
    /\ call[x] = "drained"
    /\ At(x, "canceled")
    /\ UNCHANGED <<msg, step, events, isSet, queueClosed, row, owners, policy, touched>>

\* What the SDK returns is saved as canceled, unless it is already.
CancelForceSave(x) ==
    /\ call[x] = "drained"
    /\ At(x, "canceled")
    /\ row' = [row EXCEPT ![Row(x)] = "CANCELED"]
    /\ UNCHANGED <<msg, step, events, isSet, queueClosed, owners, policy, touched>>

\* An operator edits the files of trusted and revoked peers.
PolicyEdit(o) ==
    /\ policy' = policy \ {o}
    /\ o \in policy
    /\ UNCHANGED <<msg, step, events, isSet, queueClosed, row, owners, call, touched>>

ExecuteStep(m) ==
    \/ TaskReject(m) \/ TaskAccept(m) \/ TaskRegister(m) \/ TaskStart(m)
    \/ TaskBrain(m) \/ TaskComplete(m) \/ TaskFail(m) \/ TaskFinally(m)

CancelStep(x) ==
    CancelAuthorize(x) \/ CancelStop(x) \/ CancelHook(x) \/ CancelForceSave(x)

TaskNext ==
    \/ \E m \in Messages : TaskArrive(m) \/ ExecuteStep(m)
    \/ \E x \in Cancels : CancelLookup(x) \/ CancelStep(x)
    \/ \E o \in Doubted : PolicyEdit(o)

TaskSpec == TaskInit /\ [][TaskNext]_taskVars

\* The event loop runs what is ready, the model's server answers or times out,
\* and the SDK goes on with a cancellation.  Nobody has to send anything.
TaskFairness ==
    /\ \A m \in Messages : WF_taskVars(ExecuteStep(m))
    /\ \A x \in Cancels : WF_taskVars(CancelStep(x))

-----------------------------------------------------------------------------
\* Properties.

TaskTypeOK ==
    /\ msg \in [Messages -> Stages]
    /\ step \in [Messages -> 0 .. MaxSteps]
    /\ DOMAIN events \subseteq UNION {EventKeys(m) : m \in Messages}
    /\ \A k \in DOMAIN events : events[k] \in Messages
    /\ isSet \subseteq Messages /\ queueClosed \subseteq Messages
    /\ DOMAIN row \subseteq {Row(m) : m \in Messages}
    /\ \A k \in DOMAIN row : row[k] \in Ended \cup {"SUBMITTED", "WORKING"}
    /\ owners \subseteq Principals \cup Earlier /\ Cardinality(owners) <= MaxOwners
    /\ call \in [Cancels -> CallStages]

\* The only cancellations that may touch a task: its owner's, once allowed.
MayCancel(k) == {x \in Cancels : Row(x) = k /\ call[x] \in {"stop", "hook", "drained"}}

\* A cancellation works on the caller's own task and on no other, also where ids
\* are equal across owners or messages: it sets the event of the execution that
\* runs under the task's id, whichever execution registered or ended last; only
\* it interrupts work or overrules an outcome.
CancelScopedStep ==
    /\ \A m \in isSet' \ isSet : MayCancel(Row(m)) # {}
    /\ \A m \in queueClosed' \ queueClosed : MayCancel(Row(m)) # {}
    /\ \A x \in Cancels : call[x] = "hook" /\ call'[x] = "drained" =>
          \A m \in Messages : Row(m) = Row(x) /\ Registered(m) => m \in isSet'
    /\ \A k \in DOMAIN row :
          row[k] \in {"COMPLETED", "FAILED"} /\ row'[k] \notin {row[k], "FAILED"}
             => MayCancel(k) # {}

CancelScoped == [][CancelScopedStep]_taskVars

\* A message that is rejected leaves nothing behind, neither a row nor an entry
\* in team memory, and no message leaves a cancel event behind, however it ended.
NoTrace ==
    /\ \A m \in touched : msg[m] \notin {"rejected", "refused"}
    /\ \A k \in DOMAIN row : \E m \in Messages :
          Row(m) = k /\ msg[m] \in Stages \ {"new", "authorize", "rejected", "refused"}
    /\ \A k \in DOMAIN events : \E m \in Messages :
          k \in EventKeys(m) /\ msg[m] \notin {"done", "raised", "rejected"}

\* No task stays unfinished, which would keep its place in the store for ever,
\* unless the failure of its execution could not even be logged.
EveryTaskEnds ==
    \A m \in Messages :
        Row(m) \in DOMAIN row ~>
            \/ Row(m) \in DOMAIN row /\ row[Row(m)] \in Ended
            \/ \E n \in Messages : Row(n) = Row(m) /\ msg[n] = "raised"
=============================================================================
