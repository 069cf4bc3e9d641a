------------------------------ MODULE GitRelay ------------------------------
(***************************************************************************)
(* The Git relay: tasks and answers that travel as signed files in the     *)
(* shared .team tree.  GitRelay and RelayOutcomeStore of                   *)
(* team_agents/relay.py, with the commands of rdap.py that use them and    *)
(* the worker loop of the server, over the synchronisation of TeamGit.     *)
(*                                                                         *)
(* One node sends: its command line queues tasks, collects answers, shows  *)
(* them and acknowledges them.  The other receives: its worker drains the  *)
(* inbox, claims each task in a database, runs the brain, stores the       *)
(* signed answer in the database, writes it to the outbox and removes the  *)
(* task.  Other processes of both nodes sync meanwhile, any process may be *)
(* killed between two steps, and time passes between any two readings of   *)
(* the clock.                                                              *)
(***************************************************************************)
EXTENDS TeamGit, FiniteSets

CONSTANTS
    Sender,      \* node of the user
    Receiver,    \* node that does the work
    Cli,         \* the user's command
    Worker,      \* the receiver's relay worker
    Tasks,       \* task ids; a task is signed once
    NoTask,      \* none of them
    Genuine,     \* tasks that pass the receiver's checks, but for their time
    Ttl,         \* MAX_DELEGATION_TTL_SECONDS
    MaxOutcomes, \* MAX_RELAY_OUTCOMES
    MaxClock     \* bound on the clock, for model checking only

VARIABLES
    clock,       \* int(time.time())
    cli,         \* the command in progress
    worker,      \* the drain in progress
    outcomes,    \* relay_outcomes: task -> row, a partial function
    acked,       \* answers in the sender's replay cache
    report,      \* [Tasks -> what the user was told about sending it]
    shown,       \* answers displayed so far
    invoked,     \* [Tasks -> brain runs]
    timely       \* [Tasks -> claims as new before the task expired]

relayVars == <<clock, cli, worker, outcomes, acked, report, shown, invoked, timely>>
vars == <<gitVars, relayVars>>

\* An envelope is what it says and when its signature expires.
Envelopes == [kind : {"task", "answer", "notice"}, expires : 0 .. MaxClock + Ttl]
Replies   == [task : Tasks, envelope : Envelopes]
Slots     == {"inbox", "outbox", "badtask", "badreply"}

ASSUME RelayConstants ==
    /\ Sender \in Nodes /\ Receiver \in Nodes /\ Sender # Receiver
    /\ Cli \in Procs /\ Worker \in Procs
    /\ Home[Cli] = Sender /\ Home[Worker] = Receiver
    /\ Paths = Slots \X Tasks
    /\ Contents = Envelopes
    /\ NoTask \notin Tasks
    /\ Genuine \subseteq Tasks
    /\ Ttl \in Nat \ {0}
    /\ MaxOutcomes \in Nat
    /\ MaxClock \in Nat

NoBatch == <<>>

IdleCli == [at |-> "idle", task |-> NoTask, batch |-> NoBatch, accepted |-> {},
            dirty |-> FALSE]
IdleWorker == [at |-> "idle", task |-> NoTask, batch |-> NoBatch, reply |-> Absent,
               dirty |-> FALSE]

\* _read_slot: the envelopes of one slot, read once.
ReadSlot(n, slot) ==
    [t \in {s \in Tasks : work[n][<<slot, s>>] # Absent} |-> work[n][<<slot, t>>]]

Drop(batch, t) == Restrict(batch, DOMAIN batch \ {t})

\* A file is gone, or written, or moved as evidence if it is still there.
Unlinked(tree, slot, t) == [tree EXCEPT ![<<slot, t>>] = Absent]
Written(tree, slot, t, envelope) == [tree EXCEPT ![<<slot, t>>] = envelope]

\* Mutant: no evidence is kept.
QuarantinedWithoutEvidence(tree, slot, t, evidence) == Unlinked(tree, slot, t)

Quarantined(tree, slot, t, evidence) ==
    IF tree[<<slot, t>>] = Absent THEN tree
    ELSE Written(Unlinked(tree, slot, t), evidence, t, tree[<<slot, t>>])

\* A process starts a sync, and hears of its end.
Asks(p) == sync' = [sync EXCEPT ![p] = Asked]
Hears(p, answer) ==
    /\ sync[p].at = answer
    /\ sync' = [sync EXCEPT ![p] = NoSync]

Init ==
    /\ InitGit
    /\ clock = 0
    /\ cli = IdleCli
    /\ worker = IdleWorker
    /\ outcomes = <<>>
    /\ acked = {}
    /\ report = [t \in Tasks |-> "none"]
    /\ shown = {}
    /\ invoked = [t \in Tasks |-> 0]
    /\ timely = [t \in Tasks |-> 0]

-----------------------------------------------------------------------------
\* Sending: send_task.

\* "recover pending durable state": nothing is written before it succeeds.
StartSend(t) ==
    /\ cli.at = "idle"
    /\ report[t] = "none"
    /\ Asks(Cli)
    /\ cli' = [IdleCli EXCEPT !.at = "recover", !.task = t]
    /\ report' = [report EXCEPT ![t] = "sending"]
    /\ UNCHANGED <<remote, head, work, faults, clock, worker, outcomes, acked, shown,
                   invoked, timely>>

\* The task is signed and its envelope written, and the second sync starts.
WriteTask ==
    /\ cli.at = "recover"
    /\ sync[Cli].at = "ok"
    /\ Asks(Cli)
    /\ work' = [work EXCEPT ![Sender] =
                  Written(@, "inbox", cli.task, [kind |-> "task", expires |-> clock + Ttl])]
    /\ cli' = [cli EXCEPT !.at = "publish"]
    /\ UNCHANGED <<remote, head, faults, clock, worker, outcomes, acked, report, shown,
                   invoked, timely>>

\* The user reads "queued", or "not queued" with the reason.
ReportSend(answer) ==
    /\ \/ cli.at = "recover" /\ answer = "failed"
       \/ cli.at = "publish"
    /\ Hears(Cli, answer)
    /\ report' = [report EXCEPT ![cli.task] = IF answer = "ok" THEN "queued" ELSE "not queued"]
    /\ cli' = IdleCli
    /\ UNCHANGED <<remote, head, work, faults, clock, worker, outcomes, acked, shown,
                   invoked, timely>>

-----------------------------------------------------------------------------
\* Collecting answers: take_replies, the display, ack_replies.

StartTake ==
    /\ cli.at = "idle"
    /\ Asks(Cli)
    /\ cli' = [IdleCli EXCEPT !.at = "collect"]
    /\ UNCHANGED <<remote, head, work, faults, clock, worker, outcomes, acked, report,
                   shown, invoked, timely>>

\* A sync of take_replies, or the one after the acknowledgement, that fails ends
\* the command.
TakeFails ==
    /\ cli.at \in {"collect", "cleanup", "acknowledge"}
    /\ Hears(Cli, "failed")
    /\ cli' = IdleCli
    /\ UNCHANGED <<remote, head, work, faults, clock, worker, outcomes, acked, report,
                   shown, invoked, timely>>

ReadOutbox ==
    /\ cli.at = "collect"
    /\ Hears(Cli, "ok")
    /\ cli' = [cli EXCEPT !.at = "reply", !.batch = ReadSlot(Sender, "outbox")]
    /\ UNCHANGED <<remote, head, work, faults, clock, worker, outcomes, acked, report,
                   shown, invoked, timely>>

\* verify_delegation of the next reply: an expired one is quarantined.
VerifyReply(t) ==
    /\ cli.at = "reply"
    /\ t \in DOMAIN cli.batch
    /\ IF clock < cli.batch[t].expires
       THEN /\ cli' = [cli EXCEPT !.at = "seen", !.task = t]
            /\ UNCHANGED work
       ELSE /\ cli' = [cli EXCEPT !.batch = Drop(@, t), !.dirty = TRUE]
            /\ work' = [work EXCEPT ![Sender] = Quarantined(@, "outbox", t, "badreply")]
    /\ UNCHANGED <<remote, head, sync, faults, clock, worker, outcomes, acked, report,
                   shown, invoked, timely>>

\* Mutant: acknowledged answers are not remembered.
NeverSeen(reply, now) == FALSE

\* ReplayCache.seen, at its own reading of the clock: a reply acknowledged before
\* is removed, another is accepted.
Seen(reply, now) == reply \in acked /\ reply.envelope.expires > now

CheckSeen ==
    /\ cli.at = "seen"
    /\ LET t == cli.task
           reply == [task |-> t, envelope |-> cli.batch[t]]
       IN  IF Seen(reply, clock)
           THEN /\ cli' = [cli EXCEPT !.at = "reply", !.batch = Drop(@, t), !.dirty = TRUE]
                /\ work' = [work EXCEPT ![Sender] = Unlinked(@, "outbox", t)]
           ELSE /\ cli' = [cli EXCEPT !.at = "reply", !.batch = Drop(@, t),
                                      !.accepted = @ \cup {reply}]
                /\ UNCHANGED work
    /\ UNCHANGED <<remote, head, sync, faults, clock, worker, outcomes, acked, report,
                   shown, invoked, timely>>

\* What was removed or quarantined is published before the answers are returned.
Cleanup ==
    /\ cli.at = "reply"
    /\ cli.batch = NoBatch
    /\ cli.dirty
    /\ Asks(Cli)
    /\ cli' = [cli EXCEPT !.at = "cleanup"]
    /\ UNCHANGED <<remote, head, work, faults, clock, worker, outcomes, acked, report,
                   shown, invoked, timely>>

\* The answers are printed.
Display ==
    /\ \/ /\ cli.at = "reply"
          /\ cli.batch = NoBatch
          /\ ~cli.dirty
          /\ UNCHANGED sync
       \/ /\ cli.at = "cleanup"
          /\ Hears(Cli, "ok")
    /\ shown' = shown \cup cli.accepted
    /\ cli' = IF cli.accepted = {} THEN IdleCli ELSE [cli EXCEPT !.at = "ack"]
    /\ UNCHANGED <<remote, head, work, faults, clock, worker, outcomes, acked, report,
                   invoked, timely>>

\* first_time records the answer's signature, then its file is removed.
Ack(reply) ==
    /\ cli.at = "ack"
    /\ reply \in cli.accepted
    /\ acked' = {r \in acked : r.envelope.expires > clock} \cup {reply}
    /\ work' = [work EXCEPT ![Sender] = Unlinked(@, "outbox", reply.task)]
    /\ cli' = [cli EXCEPT !.accepted = @ \ {reply}]
    /\ UNCHANGED <<remote, head, sync, faults, clock, worker, outcomes, report, shown,
                   invoked, timely>>

PublishAcks ==
    /\ cli.at = "ack"
    /\ cli.accepted = {}
    /\ Asks(Cli)
    /\ cli' = [cli EXCEPT !.at = "acknowledge"]
    /\ UNCHANGED <<remote, head, work, faults, clock, worker, outcomes, acked, report,
                   shown, invoked, timely>>

TakeDone ==
    /\ cli.at = "acknowledge"
    /\ Hears(Cli, "ok")
    /\ cli' = IdleCli
    /\ UNCHANGED <<remote, head, work, faults, clock, worker, outcomes, acked, report,
                   shown, invoked, timely>>

-----------------------------------------------------------------------------
\* Working: process_inbox and RelayOutcomeStore.

StartDrain ==
    /\ worker.at = "idle"
    /\ Asks(Worker)
    /\ worker' = [IdleWorker EXCEPT !.at = "recover"]
    /\ UNCHANGED <<remote, head, work, faults, clock, cli, outcomes, acked, report,
                   shown, invoked, timely>>

ReadInbox ==
    /\ worker.at = "recover"
    /\ Hears(Worker, "ok")
    /\ worker' = [worker EXCEPT !.at = "next", !.batch = ReadSlot(Receiver, "inbox")]
    /\ UNCHANGED <<remote, head, work, faults, clock, cli, outcomes, acked, report,
                   shown, invoked, timely>>

\* Mutant: the task is removed as soon as it is accepted.
VerifyTaskRemoves(t) ==
    /\ worker.at = "next"
    /\ t \in DOMAIN worker.batch
    /\ worker' = IF t \in Genuine /\ clock < worker.batch[t].expires
                 THEN [worker EXCEPT !.at = "claim", !.task = t]
                 ELSE [worker EXCEPT !.batch = Drop(@, t), !.dirty = TRUE]
    /\ work' = [work EXCEPT ![Receiver] = Unlinked(@, "inbox", t)]
    /\ UNCHANGED <<remote, head, sync, faults, clock, cli, outcomes, acked, report, shown,
                   invoked, timely>>

\* The next task is verified: one that does not pass is quarantined.
VerifyTask(t) ==
    /\ worker.at = "next"
    /\ t \in DOMAIN worker.batch
    /\ IF t \in Genuine /\ clock < worker.batch[t].expires
       THEN /\ worker' = [worker EXCEPT !.at = "claim", !.task = t]
            /\ UNCHANGED work
       ELSE /\ worker' = [worker EXCEPT !.batch = Drop(@, t), !.dirty = TRUE]
            /\ work' = [work EXCEPT ![Receiver] = Quarantined(@, "inbox", t, "badtask")]
    /\ UNCHANGED <<remote, head, sync, faults, clock, cli, outcomes, acked, report, shown,
                   invoked, timely>>

\* Mutant: rows are dropped one second early.
LiveRowsEarly(now) ==
    Restrict(outcomes, {t \in DOMAIN outcomes : outcomes[t].expires > now + 1})

\* Rows of the outcome table that are not expired, and a table with a row put in.
LiveRows(now) == Restrict(outcomes, {t \in DOMAIN outcomes : outcomes[t].expires > now})
WithRow(table, t, row) ==
    [s \in DOMAIN table \cup {t} |-> IF s = t THEN row ELSE table[s]]

\* Mutant: the row forgets its expiry.
RowWithoutExpiry(state, reply) == [state |-> state, reply |-> reply]

Row(state, reply) ==
    [state |-> state, reply |-> reply, expires |-> worker.batch[worker.task].expires]

\* Mutant: an interrupted run is started again.
ClaimInterruptedRuns ==
    /\ worker.at = "claim"
    /\ worker.task \in DOMAIN LiveRows(clock)
    /\ LiveRows(clock)[worker.task].state = "processing"
    /\ outcomes' = LiveRows(clock)
    /\ worker' = [worker EXCEPT !.at = "run"]
    /\ timely' = [timely EXCEPT ![worker.task] = @ + 1]
    /\ UNCHANGED <<gitVars, clock, cli, acked, report, shown, invoked>>

\* claim, at its own reading of the clock: expired rows go first.  An unfinished
\* row means that an earlier run was interrupted, and the answer says so.
ClaimInterrupted ==
    LET rows == LiveRows(clock)
    IN  /\ worker.at = "claim"
        /\ worker.task \in DOMAIN rows
        /\ rows[worker.task].state = "processing"
        /\ outcomes' = rows
        /\ worker' = [worker EXCEPT !.at = "complete",
                        !.reply = [kind |-> "notice", expires |-> clock + Ttl]]
        /\ UNCHANGED <<gitVars, clock, cli, acked, report, shown, invoked, timely>>

\* Mutant: a finished task is removed without its answer being written again.
ClaimCompletedSkips ==
    /\ worker.at = "claim"
    /\ worker.task \in DOMAIN LiveRows(clock)
    /\ LiveRows(clock)[worker.task].state = "completed"
    /\ outcomes' = LiveRows(clock)
    /\ worker' = [worker EXCEPT !.at = "unlink"]
    /\ UNCHANGED <<gitVars, clock, cli, acked, report, shown, invoked, timely>>

\* The answer of a finished row is written again.
ClaimCompleted ==
    LET rows == LiveRows(clock)
    IN  /\ worker.at = "claim"
        /\ worker.task \in DOMAIN rows
        /\ rows[worker.task].state = "completed"
        /\ outcomes' = rows
        /\ worker' = [worker EXCEPT !.at = "write", !.reply = rows[worker.task].reply]
        /\ UNCHANGED <<gitVars, clock, cli, acked, report, shown, invoked, timely>>

ClaimNew ==
    LET rows == LiveRows(clock)
        t == worker.task
    IN  /\ worker.at = "claim"
        /\ t \notin DOMAIN rows
        /\ Cardinality(DOMAIN rows) < MaxOutcomes
        /\ outcomes' = WithRow(rows, t, Row("processing", Absent))
        /\ worker' = [worker EXCEPT !.at = "run"]
        /\ timely' = IF clock < worker.batch[t].expires
                     THEN [timely EXCEPT ![t] = @ + 1] ELSE timely
        /\ UNCHANGED <<gitVars, clock, cli, acked, report, shown, invoked>>

\* A full table ends the drain and is left as it was; the loop starts over later.
ClaimRefused ==
    LET rows == LiveRows(clock)
    IN  /\ worker.at = "claim"
        /\ worker.task \notin DOMAIN rows
        /\ Cardinality(DOMAIN rows) >= MaxOutcomes
        /\ worker' = IdleWorker
        /\ UNCHANGED <<gitVars, clock, cli, outcomes, acked, report, shown, invoked, timely>>

\* The brain runs, with or without success; its answer is signed.
RunBrain ==
    /\ worker.at = "run"
    /\ invoked' = [invoked EXCEPT ![worker.task] = @ + 1]
    /\ worker' = [worker EXCEPT !.at = "complete",
                    !.reply = [kind |-> "answer", expires |-> clock + Ttl]]
    /\ UNCHANGED <<gitVars, clock, cli, outcomes, acked, report, shown, timely>>

\* complete: other expired rows go, and the claimed row gets the reply.
Complete ==
    LET t == worker.task
        rows == Restrict(outcomes, DOMAIN LiveRows(clock) \cup ({t} \cap DOMAIN outcomes))
    IN  /\ worker.at = "complete"
        /\ t \in DOMAIN rows
        /\ outcomes' = WithRow(rows, t, Row("completed", worker.reply))
        /\ worker' = [worker EXCEPT !.at = "write"]
        /\ UNCHANGED <<gitVars, clock, cli, acked, report, shown, invoked, timely>>

\* The reply is written to the outbox before the task is removed.
WriteReply ==
    /\ worker.at = "write"
    /\ work' = [work EXCEPT ![Receiver] = Written(@, "outbox", worker.task, worker.reply)]
    /\ worker' = [worker EXCEPT !.at = "unlink"]
    /\ UNCHANGED <<remote, head, sync, faults, clock, cli, outcomes, acked, report, shown,
                   invoked, timely>>

RemoveTask ==
    /\ worker.at = "unlink"
    /\ work' = [work EXCEPT ![Receiver] = Unlinked(@, "inbox", worker.task)]
    /\ worker' = [IdleWorker EXCEPT !.at = "next", !.dirty = TRUE,
                                    !.batch = Drop(worker.batch, worker.task)]
    /\ UNCHANGED <<remote, head, sync, faults, clock, cli, outcomes, acked, report, shown,
                   invoked, timely>>

\* The end of the inbox: what was done or quarantined is published.
Flush ==
    /\ worker.at = "next"
    /\ worker.batch = NoBatch
    /\ IF worker.dirty
       THEN Asks(Worker) /\ worker' = [worker EXCEPT !.at = "flush"]
       ELSE UNCHANGED sync /\ worker' = IdleWorker
    /\ UNCHANGED <<remote, head, work, faults, clock, cli, outcomes, acked, report, shown,
                   invoked, timely>>

\* A sync that fails ends the drain; so does the last one.
DrainEnds ==
    /\ \/ worker.at = "flush" /\ (Hears(Worker, "ok") \/ Hears(Worker, "failed"))
       \/ worker.at = "recover" /\ Hears(Worker, "failed")
    /\ worker' = IdleWorker
    /\ UNCHANGED <<remote, head, work, faults, clock, cli, outcomes, acked, report, shown,
                   invoked, timely>>

-----------------------------------------------------------------------------

CliStep ==
    \/ \E t \in Tasks : VerifyReply(t)
    \/ WriteTask
    \/ \E answer \in {"ok", "failed"} : ReportSend(answer)
    \/ TakeFails
    \/ ReadOutbox
    \/ CheckSeen
    \/ Cleanup
    \/ Display
    \/ \E reply \in cli.accepted : Ack(reply)
    \/ PublishAcks
    \/ TakeDone

WorkerStep ==
    \/ StartDrain
    \/ ReadInbox
    \/ \E t \in Tasks : VerifyTask(t)
    \/ ClaimInterrupted
    \/ ClaimCompleted
    \/ ClaimNew
    \/ ClaimRefused
    \/ RunBrain
    \/ Complete
    \/ WriteReply
    \/ RemoveTask
    \/ Flush
    \/ DrainEnds

\* The synchronisation goes on, whoever asked for it.
GitStep(p) == (SyncStep(p) \/ NetworkFails(p)) /\ UNCHANGED relayVars

\* Commands and loops of the two nodes that only sync.
OthersSync(p) ==
    /\ p \notin {Cli, Worker}
    /\ Call(p) \/ Return(p)
    /\ UNCHANGED relayVars

\* The command or the server is killed.
CliCrash ==
    /\ cli.at # "idle"
    /\ faults < MaxFaults
    /\ faults' = faults + 1
    /\ sync' = [sync EXCEPT ![Cli] = NoSync]
    /\ cli' = IdleCli
    /\ UNCHANGED <<remote, head, work, clock, worker, outcomes, acked, report, shown,
                   invoked, timely>>

WorkerCrash ==
    /\ worker.at # "idle"
    /\ faults < MaxFaults
    /\ faults' = faults + 1
    /\ sync' = [sync EXCEPT ![Worker] = NoSync]
    /\ worker' = IdleWorker
    /\ UNCHANGED <<remote, head, work, clock, cli, outcomes, acked, report, shown,
                   invoked, timely>>

Tick ==
    /\ clock < MaxClock
    /\ clock' = clock + 1
    /\ UNCHANGED <<gitVars, cli, worker, outcomes, acked, report, shown, invoked, timely>>

RelayNext ==
    \/ \E t \in Tasks : StartSend(t)
    \/ StartTake
    \/ CliStep
    \/ WorkerStep
    \/ \E p \in Procs :
         \/ OthersSync(p)
         \/ GitStep(p)
    \/ \E n \in Nodes : Reconcile(n) /\ UNCHANGED relayVars
    \/ CliCrash
    \/ WorkerCrash
    \/ Tick

RelaySpec == Init /\ [][RelayNext]_vars

\* The server's loop drains again and again, the user collects again and again,
\* and no sync stops half-way.  Nothing is assumed of tasks being sent, of the
\* clock, of failures or of a person's help.
FairRelaySpec ==
    /\ RelaySpec
    /\ WF_vars(WorkerStep)
    /\ WF_vars(CliStep \/ StartTake)
    /\ \A p \in Procs : WF_vars(SyncStep(p) /\ UNCHANGED relayVars)

-----------------------------------------------------------------------------
\* Properties.

\* The relay's own variables have the types of the program's state.
RelayTypeOK ==
    /\ TypeOK
    /\ clock \in 0 .. MaxClock
    /\ cli.at \in {"idle", "recover", "publish", "collect", "reply", "seen", "cleanup",
                   "ack", "acknowledge"}
    /\ cli.accepted \subseteq Replies
    /\ worker.at \in {"idle", "recover", "next", "claim", "run", "complete", "write",
                      "unlink", "flush"}
    /\ worker.reply \in Blobs
    /\ DOMAIN outcomes \subseteq Tasks
    /\ \A t \in DOMAIN outcomes :
         outcomes[t] \in [state : {"processing", "completed"}, reply : Blobs,
                          expires : 0 .. MaxClock + Ttl]
    /\ acked \subseteq Replies
    /\ report \in [Tasks -> {"none", "sending", "queued", "not queued"}]
    /\ shown \subseteq Replies
    /\ invoked \in [Tasks -> Nat]
    /\ timely \in [Tasks -> Nat]

\* The brain is started at most once for a task while the task is valid: the
\* claim is durable before the run, whatever crashes in between.
OnceWhileValid == \A t \in Tasks : timely[t] <= 1

\* "Crash-durable at-most-once task invocation".
AtMostOnceInvocation == \A t \in Tasks : invoked[t] <= 1

\* Every answer anywhere, in a tree, in the database or on the screen, is the
\* answer of a run, and of a task that passed verification.
AnswersAreReal ==
    \A t \in Tasks :
        (\/ \E reply \in shown \cup acked :
              reply.task = t /\ reply.envelope.kind = "answer"
         \/ \E n \in Nodes : LET file == work[n][<<"outbox", t>>]
                             IN  file # Absent /\ file.kind = "answer"
         \/ t \in DOMAIN outcomes /\ outcomes[t].state = "completed"
            /\ outcomes[t].reply.kind = "answer")
        => t \in Genuine /\ invoked[t] >= 1

\* The user was told "queued" only of a task the remote branch has received.
QueuedIsPublished ==
    \A t \in Tasks : report[t] = "queued" =>
        \E i \in DOMAIN remote : remote[i].tree[<<"inbox", t>>] # Absent

\* What the user reads is true, of a task sent and of an answer received.
ReportsAreTrue == AnswersAreReal /\ QueuedIsPublished

\* "not queued" is what the user reads when the task is not going to be done.
NotQueuedNeverRuns == \A t \in Tasks : report[t] = "not queued" => invoked[t] = 0

\* A task that reached the remote branch never just disappears from it: the task
\* is there, or its answer, or the evidence why one of them was refused, or its
\* answer was shown to the user.
Accounted(t, tree) ==
    \/ \E slot \in Slots : tree[<<slot, t>>] # Absent
    \/ \E reply \in shown : reply.task = t

NothingVanishes ==
    \A t \in Tasks :
        (\E i \in DOMAIN remote : remote[i].tree[<<"inbox", t>>] # Absent)
            => Accounted(t, TreeOf(remote))

\* A stored outcome is final while its task is valid: an interruption notice is
\* never replaced by an answer, nor an answer by another.
OutcomeIsFinal ==
    [][\A t \in DOMAIN outcomes :
         outcomes[t].state = "completed" /\ outcomes[t].expires > clock =>
             t \in DOMAIN outcomes' /\ outcomes'[t] = outcomes[t]]_vars

\* An answer that was acknowledged is not shown again while it is valid.
AckedNotShownAgain ==
    [][cli.at \in {"reply", "cleanup"} /\ cli'.at = "ack" =>
         \A reply \in cli.accepted : reply \in acked => reply.envelope.expires <= clock]_vars

\* What was decided once stays: the outcome on the receiver, the acknowledgement
\* on the sender.
AnswersAreFinal == OutcomeIsFinal /\ AckedNotShownAgain

\* Why a task or its answer was refused is kept on one of the nodes.
Refused(t) ==
    \E n \in Nodes, slot \in {"badtask", "badreply"} : work[n][<<slot, t>>] # Absent

\* A queued task is answered on the user's screen, or refused with evidence,
\* whatever processes were killed and syncs failed; unless forked histories wait
\* for a person for ever.
QueuedIsAnswered ==
    \A t \in Tasks :
        report[t] = "queued" ~>
            \/ \E reply \in shown : reply.task = t
            \/ Refused(t)
            \/ \E n \in Nodes : Blocked(n)
=============================================================================
