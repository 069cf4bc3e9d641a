--------------------------- MODULE GitRelayProofs ---------------------------
(***************************************************************************)
(* Proofs about GitRelay for any tasks, nodes and processes, any limits    *)
(* and any order of crashes, failures and expiry: its types, that a task   *)
(* is claimed as new once while it is valid, that outcomes and             *)
(* acknowledgements are final, that what the user reads is true, and that  *)
(* a task the remote branch has had never just disappears.                 *)
(*                                                                         *)
(* The argument needs the files as much as the tables: every copy of a     *)
(* task, in whichever worktree, branch or fetched head, has one expiry,    *)
(* and the row of its outcome has it too; every copy of an answer is of a  *)
(* run; and the command that reports "queued" has carried the file to the  *)
(* remote branch.  TeamGitProofs says that synchronisation only moves      *)
(* files, so that the relay's own steps are what remains.                  *)
(***************************************************************************)
EXTENDS GitRelay, TeamGitProofs

-----------------------------------------------------------------------------
\* The inductive invariant.

Expiries == 0 .. MaxClock + Ttl
Batches  == UNION {[D -> Envelopes] : D \in SUBSET Tasks}
OutcomeRows == [state : {"processing", "completed"}, reply : Blobs, expires : Expiries]
Tables == UNION {[D -> OutcomeRows] : D \in SUBSET Tasks}

CliStates ==
    [at : {"idle", "recover", "publish", "collect", "reply", "seen", "cleanup", "ack",
           "acknowledge"},
     task : Tasks \cup {NoTask}, batch : Batches, accepted : SUBSET Replies,
     dirty : BOOLEAN]
WorkerStates ==
    [at : {"idle", "recover", "next", "claim", "run", "complete", "write", "unlink",
           "flush"},
     task : Tasks \cup {NoTask}, batch : Batches, reply : Blobs, dirty : BOOLEAN]

Sending == {"recover", "publish"}
Working == {"claim", "run", "complete", "write", "unlink"}

\* The types, and which task a stage of a command is about.
CliTyped ==
    /\ cli \in CliStates
    /\ cli.at \in Sending => cli.task \in Tasks
    /\ cli.at = "seen" => cli.task \in DOMAIN cli.batch
WorkerTyped ==
    /\ worker \in WorkerStates
    /\ worker.at \in Working => worker.task \in DOMAIN worker.batch /\ worker.task \in Genuine
OthersTyped ==
    /\ clock \in 0 .. MaxClock
    /\ outcomes \in Tables
    /\ acked \subseteq Replies
    /\ shown \subseteq Replies
    /\ report \in [Tasks -> {"none", "sending", "queued", "not queued"}]
    /\ invoked \in [Tasks -> Nat]
    /\ timely \in [Tasks -> Nat]

TypesInv == GitInv /\ OneAtATime /\ CliTyped /\ WorkerTyped /\ OthersTyped

\* A task has no file before it is sent, and one expiry everywhere afterwards; a
\* claim of a valid task is remembered.
TaskFiles(t, S) == CopiesAmong(<<"inbox", t>>, S) /\ CopiesAmong(<<"badtask", t>>, S)
ExpiringAt(e) == {blob \in Blobs : blob = Absent \/ blob.expires = e}

Unsent(t) == report[t] = "none" \/ (cli.at = "recover" /\ cli.task = t)
NothingOf(t) ==
    /\ TaskFiles(t, {Absent})
    /\ t \notin DOMAIN worker.batch
    /\ t \notin DOMAIN outcomes
    /\ timely[t] = 0
OneExpiry(t, e) ==
    /\ TaskFiles(t, ExpiringAt(e))
    /\ t \in DOMAIN worker.batch => worker.batch[t].expires = e
    /\ t \in DOMAIN outcomes => outcomes[t].expires = e
    /\ timely[t] > 0 => clock >= e \/ t \in DOMAIN outcomes
    /\ timely[t] <= 1

OnceInv ==
    /\ cli.at \in Sending => report[cli.task] = "sending"
    /\ \A t \in Tasks : Unsent(t) => NothingOf(t)
    /\ \A t \in Tasks : \E e \in Expiries : OneExpiry(t, e)

\* The task being run is claimed; an answer being collected was not acknowledged.
FinalInv ==
    /\ worker.at \in {"run", "complete"} =>
          worker.task \in DOMAIN outcomes /\ outcomes[worker.task].state = "processing"
    /\ cli.at \in {"collect", "reply", "seen", "cleanup"} =>
          \A reply \in cli.accepted : reply \in acked => reply.envelope.expires <= clock

\* Without a run of a genuine task there is no answer to it anywhere.
Answered(t) == t \in Genuine /\ invoked[t] >= 1
NotAnswers == {blob \in Blobs : blob = Absent \/ blob.kind # "answer"}

NoAnswerTo(t) ==
    /\ CopiesAmong(<<"outbox", t>>, NotAnswers)
    /\ t \in DOMAIN cli.batch => cli.batch[t].kind # "answer"
    /\ \A reply \in cli.accepted \cup shown \cup acked :
          reply.task = t => reply.envelope.kind # "answer"
    /\ t \in DOMAIN outcomes /\ outcomes[t].state = "completed" =>
          outcomes[t].reply.kind # "answer"
    /\ worker.at \in {"complete", "write"} /\ worker.task = t =>
          worker.reply.kind # "answer"

RealInv == \A t \in Tasks : Answered(t) \/ NoAnswerTo(t)

\* The command that sends has its file carried by its sync.
QueuedInv ==
    /\ cli.at = "publish" => Carried(Cli, <<"inbox", cli.task>>)
    /\ \A t \in Tasks : report[t] = "queued" => RemoteHas(<<"inbox", t>>)

-----------------------------------------------------------------------------
\* Files and batches.

LEMMA PathOf ==
    ASSUME NEW slot \in Slots, NEW t \in Tasks
    PROVE  <<slot, t>> \in Paths
BY RelayConstants

LEMMA WrittenFacts ==
    ASSUME NEW tree \in Trees, NEW slot \in Slots, NEW t \in Tasks, NEW blob \in Blobs
    PROVE  /\ Written(tree, slot, t, blob) \in Trees
           /\ \A path \in Paths :
                 Written(tree, slot, t, blob)[path] =
                    IF path = <<slot, t>> THEN blob ELSE tree[path]
BY PathOf DEF Written, Trees

LEMMA UnlinkedFacts ==
    ASSUME NEW tree \in Trees, NEW slot \in Slots, NEW t \in Tasks
    PROVE  /\ Unlinked(tree, slot, t) \in Trees
           /\ \A path \in Paths :
                 Unlinked(tree, slot, t)[path] =
                    IF path = <<slot, t>> THEN Absent ELSE tree[path]
BY PathOf DEF Unlinked, Trees, Blobs

\* What is quarantined is gone from its slot, and the evidence is what it was.
LEMMA QuarantinedFacts ==
    ASSUME NEW tree \in Trees, NEW slot \in Slots, NEW evidence \in Slots \ {slot},
           NEW t \in Tasks
    PROVE  /\ Quarantined(tree, slot, t, evidence) \in Trees
           /\ Quarantined(tree, slot, t, evidence)[<<slot, t>>] = Absent
           /\ Quarantined(tree, slot, t, evidence)[<<evidence, t>>] \in
                 {tree[<<slot, t>>], tree[<<evidence, t>>]}
           /\ \A path \in Paths \ {<<slot, t>>, <<evidence, t>>} :
                 Quarantined(tree, slot, t, evidence)[path] = tree[path]
<1>1. /\ <<slot, t>> \in Paths /\ <<evidence, t>> \in Paths
      /\ <<slot, t>> # <<evidence, t>>
  BY PathOf
<1>2. CASE tree[<<slot, t>>] = Absent
  BY <1>2 DEF Quarantined
<1>3. CASE tree[<<slot, t>>] # Absent
  <2> DEFINE blob == tree[<<slot, t>>]
             rest == Unlinked(tree, slot, t)
  <2>1. blob \in Blobs
    BY <1>1 DEF Trees
  <2>2. rest \in Trees /\ \A path \in Paths :
           rest[path] = IF path = <<slot, t>> THEN Absent ELSE tree[path]
    BY UnlinkedFacts
  <2>3. Quarantined(tree, slot, t, evidence) = Written(rest, evidence, t, blob)
    BY <1>3 DEF Quarantined
  <2> HIDE DEF rest, blob
  <2>4. /\ Written(rest, evidence, t, blob) \in Trees
        /\ \A path \in Paths :
              Written(rest, evidence, t, blob)[path] =
                 IF path = <<evidence, t>> THEN blob ELSE rest[path]
    BY <2>1, <2>2, WrittenFacts
  <2> QED
    BY <1>1, <2>2, <2>3, <2>4 DEF blob
<1> QED
  BY <1>2, <1>3

LEMMA BatchFacts ==
    ASSUME NEW batch \in Batches
    PROVE  /\ DOMAIN batch \subseteq Tasks
           /\ \A t \in DOMAIN batch : batch[t] \in Envelopes
BY DEF Batches

LEMMA EmptyBatch ==
    /\ NoBatch \in Batches /\ DOMAIN NoBatch = {}
    /\ <<>> \in Tables /\ DOMAIN <<>> = {}
<1>1. DOMAIN <<>> = {}
  OBVIOUS
<1>2. \A S : <<>> \in [{} -> S]
  BY <1>1
<1> QED
  BY <1>1, <1>2 DEF NoBatch, Batches, Tables

LEMMA DropFacts ==
    ASSUME NEW batch \in Batches, NEW t
    PROVE  /\ Drop(batch, t) \in Batches
           /\ DOMAIN Drop(batch, t) = DOMAIN batch \ {t}
           /\ \A s \in DOMAIN batch \ {t} : Drop(batch, t)[s] = batch[s]
<1>1. /\ DOMAIN Drop(batch, t) = DOMAIN batch \ {t}
      /\ \A s \in DOMAIN batch \ {t} : Drop(batch, t)[s] = batch[s]
  BY DEF Drop, Restrict
<1>2. Drop(batch, t) \in [DOMAIN batch \ {t} -> Envelopes]
  BY BatchFacts DEF Drop, Restrict
<1>3. DOMAIN batch \ {t} \in SUBSET Tasks
  BY BatchFacts
<1> QED
  BY <1>1, <1>2, <1>3 DEF Batches

LEMMA ReadSlotFacts ==
    ASSUME GitInv, NEW n \in Nodes, NEW slot \in Slots
    PROVE  /\ ReadSlot(n, slot) \in Batches
           /\ \A t \in DOMAIN ReadSlot(n, slot) :
                 /\ t \in Tasks /\ work[n][<<slot, t>>] # Absent
                 /\ ReadSlot(n, slot)[t] = work[n][<<slot, t>>]
<1> DEFINE D == {s \in Tasks : work[n][<<slot, s>>] # Absent}
<1>1. ReadSlot(n, slot) = [t \in D |-> work[n][<<slot, t>>]]
  BY DEF ReadSlot
<1>2. work[n] \in [Paths -> Blobs]
  BY DEF GitInv, TypeOK, Trees
<1>3. \A t \in D : work[n][<<slot, t>>] \in Envelopes
  BY <1>2, PathOf, RelayConstants DEF Blobs
<1>4. D \in SUBSET Tasks
  OBVIOUS
<1>5. \A t \in D : work[n][<<slot, t>>] # Absent
  OBVIOUS
<1> HIDE DEF D
<1>6. ReadSlot(n, slot) \in [D -> Envelopes] /\ DOMAIN ReadSlot(n, slot) = D
  BY <1>1, <1>3
<1> QED
  BY <1>1, <1>4, <1>5, <1>6 DEF Batches

-----------------------------------------------------------------------------
\* The relay's own steps, and what they change in the repositories.

CliOwn    == (\E t \in Tasks : StartSend(t)) \/ StartTake \/ CliStep \/ CliCrash
WorkerOwn == WorkerStep \/ WorkerCrash

LEMMA StepKinds ==
    ASSUME [RelayNext]_vars
    PROVE  \/ GitMoves /\ UNCHANGED relayVars
           \/ CliOwn
           \/ WorkerOwn
           \/ Tick
           \/ UNCHANGED vars
BY DEF RelayNext, GitMoves, OthersSync, GitStep, CliOwn, WorkerOwn

\* p asks for a sync, hears of its end or is killed.
SyncOf(p) == sync' = sync \/ \E record \in {Asked, NoSync} :
                                sync' = [sync EXCEPT ![p] = record]

\* A file of a node's slot is removed, or moved as evidence.
Clears(n, slot, evidence) ==
    \E t \in Tasks :
        \/ work' = [work EXCEPT ![n] = Unlinked(@, slot, t)]
        \/ work' = [work EXCEPT ![n] = Quarantined(@, slot, t, evidence)]

LEMMA CliFiles ==
    ASSUME TypesInv, CliOwn
    PROVE  /\ remote' = remote /\ head' = head /\ faults' \in Nat /\ SyncOf(Cli)
           /\ \/ work' = work
              \/ WriteTask
              \/ Clears(Sender, "outbox", "badreply")
<1>1. faults \in Nat /\ cli.accepted \subseteq Replies /\ DOMAIN cli.batch \subseteq Tasks
      /\ (cli.at = "seen" => cli.task \in DOMAIN cli.batch)
  <2>1. cli.batch \in Batches
    BY DEF TypesInv, CliTyped, CliStates
  <2> QED
    BY <2>1, BatchFacts DEF TypesInv, GitInv, TypeOK, CliTyped, CliStates
<1>2. ASSUME NEW t \in Tasks, StartSend(t) PROVE remote' = remote /\ head' = head
         /\ faults' = faults /\ work' = work /\ SyncOf(Cli)
  BY <1>2 DEF StartSend, Asks, SyncOf
<1>3. CASE StartTake \/ Cleanup \/ PublishAcks
  BY <1>1, <1>3 DEF StartTake, Cleanup, PublishAcks, Asks, SyncOf
<1>4. CASE WriteTask
  BY <1>1, <1>4 DEF WriteTask, Asks, SyncOf
<1>5. CASE (\E answer \in {"ok", "failed"} : ReportSend(answer)) \/ TakeFails \/ ReadOutbox
           \/ TakeDone
  BY <1>1, <1>5 DEF ReportSend, TakeFails, ReadOutbox, TakeDone, Hears, SyncOf
<1>6. CASE Display
  BY <1>1, <1>6 DEF Display, Hears, SyncOf
<1>7. ASSUME NEW t \in Tasks, VerifyReply(t)
      PROVE  /\ remote' = remote /\ head' = head /\ faults' = faults /\ sync' = sync
             /\ work' = work \/ Clears(Sender, "outbox", "badreply")
  BY <1>7 DEF VerifyReply, Clears
<1>8. CASE CheckSeen
  <2>1. cli.task \in Tasks
    BY <1>1, <1>8 DEF CheckSeen
  <2> QED
    BY <1>1, <1>8, <2>1 DEF CheckSeen, Clears, SyncOf
<1>9. ASSUME NEW reply \in cli.accepted, Ack(reply)
      PROVE  /\ remote' = remote /\ head' = head /\ faults' = faults /\ sync' = sync
             /\ Clears(Sender, "outbox", "badreply")
  <2>1. reply.task \in Tasks
    BY <1>1 DEF Replies
  <2> QED
    BY <1>9, <2>1 DEF Ack, Clears
<1>10. CASE CliCrash
  BY <1>1, <1>10 DEF CliCrash, SyncOf
<1> QED
  BY <1>1, <1>2, <1>3, <1>4, <1>5, <1>6, <1>7, <1>8, <1>9, <1>10
     DEF CliOwn, CliStep, SyncOf

LEMMA WorkerFiles ==
    ASSUME TypesInv, WorkerOwn
    PROVE  /\ remote' = remote /\ head' = head /\ faults' \in Nat /\ SyncOf(Worker)
           /\ \/ work' = work
              \/ WriteReply
              \/ Clears(Receiver, "inbox", "badtask")
<1>1. faults \in Nat /\ DOMAIN worker.batch \subseteq Tasks
      /\ (worker.at \in Working => worker.task \in DOMAIN worker.batch)
  <2>1. worker.batch \in Batches
    BY DEF TypesInv, WorkerTyped, WorkerStates
  <2> QED
    BY <2>1, BatchFacts DEF TypesInv, GitInv, TypeOK, WorkerTyped
<1>2. CASE StartDrain
  BY <1>1, <1>2 DEF StartDrain, Asks, SyncOf
<1>3. CASE ReadInbox \/ DrainEnds
  BY <1>1, <1>3 DEF ReadInbox, DrainEnds, Hears, SyncOf
<1>4. ASSUME NEW t \in Tasks, VerifyTask(t)
      PROVE  /\ remote' = remote /\ head' = head /\ faults' = faults /\ sync' = sync
             /\ work' = work \/ Clears(Receiver, "inbox", "badtask")
  BY <1>4 DEF VerifyTask, Clears
<1>5. CASE ClaimInterrupted \/ ClaimCompleted \/ ClaimNew \/ ClaimRefused \/ RunBrain \/ Complete
  BY <1>1, <1>5 DEF ClaimInterrupted, ClaimCompleted, ClaimNew, ClaimRefused, RunBrain,
     Complete, gitVars, SyncOf
<1>6. CASE WriteReply
  BY <1>1, <1>6 DEF WriteReply, SyncOf
<1>7. CASE RemoveTask
  <2>1. worker.task \in Tasks
    BY <1>1, <1>7 DEF RemoveTask, Working
  <2> QED
    BY <1>1, <1>7, <2>1 DEF RemoveTask, Clears, SyncOf
<1>8. CASE Flush
  BY <1>1, <1>8 DEF Flush, Asks, SyncOf
<1>9. CASE WorkerCrash
  BY <1>1, <1>9 DEF WorkerCrash, SyncOf
<1> QED
  BY <1>1, <1>2, <1>3, <1>4, <1>5, <1>6, <1>7, <1>8, <1>9 DEF WorkerOwn, WorkerStep, SyncOf

\* What a cleared slot looks like, path by path.
LEMMA ClearsFacts ==
    ASSUME GitInv, NEW m \in Nodes, NEW slot \in Slots, NEW evidence \in Slots \ {slot},
           Clears(m, slot, evidence)
    PROVE  /\ work' \in [Nodes -> Trees]
           /\ \A n \in Nodes, t \in Tasks :
                 /\ work'[n][<<slot, t>>] \in {work[n][<<slot, t>>], Absent}
                 /\ work'[n][<<evidence, t>>] \in
                       {work[n][<<evidence, t>>], work[n][<<slot, t>>]}
           /\ \A n \in Nodes, path \in Paths :
                 n # m \/ path \notin {slot, evidence} \X Tasks =>
                    work'[n][path] = work[n][path]
<1>1. work \in [Nodes -> Trees] /\ work[m] \in Trees
  BY DEF GitInv, TypeOK
<1>2. PICK t \in Tasks :
         \/ work' = [work EXCEPT ![m] = Unlinked(work[m], slot, t)]
         \/ work' = [work EXCEPT ![m] = Quarantined(work[m], slot, t, evidence)]
  BY DEF Clears
<1>3. PICK tree \in Trees :
         /\ work' = [work EXCEPT ![m] = tree]
         /\ tree[<<slot, t>>] = Absent
         /\ tree[<<evidence, t>>] \in {work[m][<<evidence, t>>], work[m][<<slot, t>>]}
         /\ \A path \in Paths \ {<<slot, t>>, <<evidence, t>>} : tree[path] = work[m][path]
  <2>1. <<slot, t>> \in Paths /\ <<evidence, t>> \in Paths /\ <<slot, t>> # <<evidence, t>>
    BY PathOf
  <2>2. CASE work' = [work EXCEPT ![m] = Unlinked(work[m], slot, t)]
    <3>1. /\ Unlinked(work[m], slot, t) \in Trees
          /\ \A path \in Paths :
                Unlinked(work[m], slot, t)[path] =
                   IF path = <<slot, t>> THEN Absent ELSE work[m][path]
      BY <1>1, UnlinkedFacts
    <3> QED
      BY <2>1, <2>2, <3>1
  <2>3. CASE work' = [work EXCEPT ![m] = Quarantined(work[m], slot, t, evidence)]
    <3>1. /\ Quarantined(work[m], slot, t, evidence) \in Trees
          /\ Quarantined(work[m], slot, t, evidence)[<<slot, t>>] = Absent
          /\ Quarantined(work[m], slot, t, evidence)[<<evidence, t>>] \in
                {work[m][<<slot, t>>], work[m][<<evidence, t>>]}
          /\ \A path \in Paths \ {<<slot, t>>, <<evidence, t>>} :
                Quarantined(work[m], slot, t, evidence)[path] = work[m][path]
      BY <1>1, QuarantinedFacts
    <3> QED
      BY <2>3, <3>1
  <2> QED
    BY <1>2, <2>2, <2>3
<1>4. work' \in [Nodes -> Trees] /\ work'[m] = tree /\ \A n \in Nodes \ {m} : work'[n] = work[n]
  BY <1>1, <1>3
<1>5. ASSUME NEW n \in Nodes, NEW s \in Tasks
      PROVE  /\ work'[n][<<slot, s>>] \in {work[n][<<slot, s>>], Absent}
             /\ work'[n][<<evidence, s>>] \in
                   {work[n][<<evidence, s>>], work[n][<<slot, s>>]}
  <2>1. CASE n # m
    BY <1>4, <2>1
  <2>2. CASE n = m /\ s = t
    BY <1>3, <1>4, <2>2
  <2>3. CASE n = m /\ s # t
    <3>1. /\ <<slot, s>> \in Paths \ {<<slot, t>>, <<evidence, t>>}
          /\ <<evidence, s>> \in Paths \ {<<slot, t>>, <<evidence, t>>}
      BY <2>3, PathOf
    <3> QED
      BY <1>3, <1>4, <2>3, <3>1
  <2> QED
    BY <2>1, <2>2, <2>3
<1>6. ASSUME NEW n \in Nodes, NEW path \in Paths,
             n # m \/ path \notin {slot, evidence} \X Tasks
      PROVE  work'[n][path] = work[n][path]
  <2>1. CASE n # m
    BY <1>4, <2>1
  <2>2. CASE n = m
    <3>1. path \in Paths \ {<<slot, t>>, <<evidence, t>>}
      BY <1>6, <2>2
    <3> QED
      BY <1>3, <1>4, <2>2, <3>1
  <2> QED
    BY <2>1, <2>2
<1> QED
  BY <1>4, <1>5, <1>6

LEMMA WriteTaskFacts ==
    ASSUME TypesInv, WriteTask
    PROVE  /\ work' \in [Nodes -> Trees]
           /\ cli.task \in Tasks
           /\ clock + Ttl \in Expiries
           /\ \E file \in Envelopes :
                 /\ file.expires = clock + Ttl
                 /\ \A n \in Nodes, path \in Paths :
                       work'[n][path] = IF n = Sender /\ path = <<"inbox", cli.task>>
                                        THEN file ELSE work[n][path]
<1> DEFINE file == [kind |-> "task", expires |-> clock + Ttl]
<1>1. /\ work \in [Nodes -> Trees] /\ work[Sender] \in Trees /\ Sender \in Nodes
      /\ clock \in 0 .. MaxClock /\ "inbox" \in Slots
  BY RelayConstants DEF TypesInv, GitInv, TypeOK, OthersTyped, Slots
<1>2. cli.task \in Tasks
  BY DEF WriteTask, TypesInv, CliTyped, Sending
<1>3. clock + Ttl \in 0 .. MaxClock + Ttl
  <2>1. Ttl \in Nat /\ MaxClock \in Nat
    BY RelayConstants
  <2> QED
    BY <1>1, <2>1
<1>4. file \in Envelopes /\ file.expires = clock + Ttl
  BY <1>3 DEF Envelopes
<1>5. file \in Blobs
  BY <1>4, RelayConstants DEF Blobs
<1>6. work' = [work EXCEPT ![Sender] = Written(work[Sender], "inbox", cli.task, file)]
  BY DEF WriteTask
<1> HIDE DEF file
<1>7. /\ Written(work[Sender], "inbox", cli.task, file) \in Trees
      /\ \A path \in Paths :
            Written(work[Sender], "inbox", cli.task, file)[path] =
               IF path = <<"inbox", cli.task>> THEN file ELSE work[Sender][path]
  BY <1>1, <1>2, <1>5, WrittenFacts
<1>8. \A n \in Nodes, path \in Paths :
         work'[n][path] = IF n = Sender /\ path = <<"inbox", cli.task>>
                          THEN file ELSE work[n][path]
  BY <1>1, <1>6, <1>7
<1>9. work' \in [Nodes -> Trees]
  BY <1>1, <1>6, <1>7
<1> QED
  BY <1>2, <1>3, <1>4, <1>8, <1>9 DEF Expiries

LEMMA WriteReplyFacts ==
    ASSUME TypesInv, WriteReply
    PROVE  /\ work' \in [Nodes -> Trees]
           /\ worker.task \in Tasks /\ worker.reply \in Blobs
           /\ \A n \in Nodes, path \in Paths :
                 work'[n][path] = IF n = Receiver /\ path = <<"outbox", worker.task>>
                                  THEN worker.reply ELSE work[n][path]
<1> DEFINE file == worker.reply
<1>1. /\ work \in [Nodes -> Trees] /\ work[Receiver] \in Trees /\ Receiver \in Nodes
      /\ "outbox" \in Slots
  BY RelayConstants DEF TypesInv, GitInv, TypeOK, Slots
<1>2. worker.task \in Tasks
  <2>1. worker.task \in DOMAIN worker.batch /\ worker.batch \in Batches
    BY DEF WriteReply, TypesInv, WorkerTyped, Working, WorkerStates
  <2> QED
    BY <2>1, BatchFacts
<1>3. file \in Blobs
  BY DEF TypesInv, WorkerTyped, WorkerStates
<1>4. work' = [work EXCEPT ![Receiver] = Written(work[Receiver], "outbox", worker.task, file)]
  BY DEF WriteReply
<1> HIDE DEF file
<1>5. /\ Written(work[Receiver], "outbox", worker.task, file) \in Trees
      /\ \A path \in Paths :
            Written(work[Receiver], "outbox", worker.task, file)[path] =
               IF path = <<"outbox", worker.task>> THEN file ELSE work[Receiver][path]
  BY <1>1, <1>2, <1>3, WrittenFacts
<1>6. \A n \in Nodes, path \in Paths :
         work'[n][path] = IF n = Receiver /\ path = <<"outbox", worker.task>>
                          THEN file ELSE work[n][path]
  BY <1>1, <1>4, <1>5
<1>7. work' \in [Nodes -> Trees]
  BY <1>1, <1>4, <1>5
<1> QED
  BY <1>2, <1>3, <1>6, <1>7 DEF file

\* The nodes and slots of the two commands.
LEMMA Places ==
    /\ Sender \in Nodes /\ Receiver \in Nodes /\ Sender # Receiver
    /\ Cli \in Procs /\ Worker \in Procs /\ Cli # Worker
    /\ Home[Cli] = Sender /\ Home[Worker] = Receiver
    /\ {"inbox", "outbox", "badtask", "badreply"} = Slots
BY RelayConstants DEF Slots

LEMMA OwnWork ==
    ASSUME TypesInv, CliOwn \/ WorkerOwn
    PROVE  work' \in [Nodes -> Trees]
<1>1. GitInv /\ work \in [Nodes -> Trees]
  BY DEF TypesInv, GitInv, TypeOK
<1>2. ASSUME Clears(Sender, "outbox", "badreply") PROVE work' \in [Nodes -> Trees]
  <2>1. "outbox" \in Slots /\ "badreply" \in Slots \ {"outbox"}
    BY Places
  <2> QED
    BY <1>1, <1>2, <2>1, Places, ClearsFacts
<1>3. ASSUME Clears(Receiver, "inbox", "badtask") PROVE work' \in [Nodes -> Trees]
  <2>1. "inbox" \in Slots /\ "badtask" \in Slots \ {"inbox"}
    BY Places
  <2> QED
    BY <1>1, <1>3, <2>1, Places, ClearsFacts
<1> QED
  BY <1>1, <1>2, <1>3, CliFiles, WorkerFiles, WriteTaskFacts, WriteReplyFacts

LEMMA SyncOfFacts ==
    ASSUME GitInv, OneAtATime, NEW p \in Procs, SyncOf(p), remote' = remote
    PROVE  /\ sync' \in [Procs -> [at : Stages, upstream : Histories]]
           /\ FetchedInv' /\ OneAtATime'
           /\ \A q \in Procs : sync'[q].upstream \in {sync[q].upstream, <<>>}
           /\ \A q \in Procs \ {p} : sync'[q] = sync[q]
<1>1. /\ sync \in [Procs -> [at : Stages, upstream : Histories]]
      /\ remote \in Histories /\ FetchedInv
  BY DEF GitInv, TypeOK
<1>2. CASE sync' = sync
  BY <1>1, <1>2 DEF FetchedInv, OneAtATime
<1>3. ASSUME NEW to \in {"wait", "idle"},
             sync' = [sync EXCEPT ![p] = [at |-> to, upstream |-> <<>>]]
      PROVE  /\ sync' \in [Procs -> [at : Stages, upstream : Histories]]
             /\ FetchedInv' /\ OneAtATime'
             /\ \A q \in Procs : sync'[q].upstream \in {sync[q].upstream, <<>>}
             /\ \A q \in Procs \ {p} : sync'[q] = sync[q]
  <2>1. /\ to \in Stages /\ to # "merge" /\ to \notin Locked
        /\ <<>> \in Histories /\ IsPrefix(remote, remote)
    BY <1>1, EmptySeq, PrefixOfItself DEF Stages, Locked, Histories
  <2>2. sync' \in [Procs -> [at : Stages, upstream : Histories]] /\ FetchedInv'
    BY <1>1, <1>3, <2>1, SyncMoves
  <2>3. OneAtATime'
    BY <1>3, <2>1, LockKept
  <2> QED
    BY <1>1, <1>3, <2>2, <2>3
<1> QED
  BY <1>2, <1>3 DEF SyncOf, Asked, NoSync

\* The relay's own steps keep the repositories well-typed and their locks.
LEMMA OwnGit ==
    ASSUME TypesInv, CliOwn \/ WorkerOwn
    PROVE  GitInv' /\ OneAtATime'
<1>1. GitInv /\ OneAtATime /\ remote \in Histories /\ head \in [Nodes -> Histories]
  BY DEF TypesInv, GitInv, TypeOK
<1>2. /\ remote' = remote /\ head' = head /\ faults' \in Nat
      /\ SyncOf(Cli) \/ SyncOf(Worker)
  BY CliFiles, WorkerFiles
<1>3. sync' \in [Procs -> [at : Stages, upstream : Histories]] /\ FetchedInv' /\ OneAtATime'
  BY <1>1, <1>2, Places, SyncOfFacts
<1>4. work' \in [Nodes -> Trees]
  BY OwnWork
<1> QED
  BY <1>1, <1>2, <1>3, <1>4 DEF GitInv, TypeOK

\* They bring no new copy of a path but in a worktree.
LEMMA OwnCopies ==
    ASSUME TypesInv, CliOwn \/ WorkerOwn, NEW path \in Paths, NEW S,
           CopiesAmong(path, S), \A n \in Nodes : work'[n][path] \in S
    PROVE  CopiesAmong(path, S)'
<1>1. /\ remote' = remote /\ head' = head
      /\ SyncOf(Cli) \/ SyncOf(Worker)
  BY CliFiles, WorkerFiles
<1>2. \A q \in Procs : sync'[q].upstream \in {sync[q].upstream, <<>>}
  BY <1>1, Places, SyncOfFacts DEF TypesInv
<1>3. \A q \in Procs : InBranch(sync'[q].upstream, path, S)
  BY <1>2, EmptyIn DEF CopiesAmong
<1> QED
  BY <1>1, <1>3 DEF CopiesAmong, InBranch

\* Nothing but the sending of a task makes a copy of it, and nothing but the
\* writing of a reply makes one of that.
LEMMA TaskFilesKept ==
    ASSUME TypesInv, CliOwn \/ WorkerOwn, NEW t \in Tasks, NEW S, Absent \in S,
           TaskFiles(t, S), ~ (WriteTask /\ cli.task = t)
    PROVE  TaskFiles(t, S)'
<1>1. /\ <<"inbox", t>> \in Paths /\ <<"badtask", t>> \in Paths
      /\ GitInv /\ work \in [Nodes -> Trees]
  BY Places, PathOf DEF TypesInv, GitInv, TypeOK
<1>2. /\ CopiesAmong(<<"inbox", t>>, S) /\ CopiesAmong(<<"badtask", t>>, S)
      /\ \A n \in Nodes : work[n][<<"inbox", t>>] \in S /\ work[n][<<"badtask", t>>] \in S
  BY DEF TaskFiles, CopiesAmong
<1>3. \A n \in Nodes : work'[n][<<"inbox", t>>] \in S /\ work'[n][<<"badtask", t>>] \in S
  <2>1. CASE work' = work
    BY <1>2, <2>1
  <2>2. CASE WriteTask
    BY <1>1, <1>2, <2>2, WriteTaskFacts
  <2>3. CASE WriteReply
    BY <1>1, <1>2, <2>3, WriteReplyFacts
  <2>4. CASE Clears(Sender, "outbox", "badreply")
    <3>1. /\ "outbox" \in Slots /\ "badreply" \in Slots \ {"outbox"}
          /\ <<"inbox", t>> \notin {"outbox", "badreply"} \X Tasks
          /\ <<"badtask", t>> \notin {"outbox", "badreply"} \X Tasks
      BY Places
    <3>2. \A n \in Nodes, path \in Paths :
             path \notin {"outbox", "badreply"} \X Tasks => work'[n][path] = work[n][path]
      BY <1>1, <2>4, <3>1, Places, ClearsFacts
    <3> QED
      BY <1>1, <1>2, <3>1, <3>2
  <2>5. CASE Clears(Receiver, "inbox", "badtask")
    <3>1. "inbox" \in Slots /\ "badtask" \in Slots \ {"inbox"}
      BY Places
    <3>2. \A n \in Nodes :
             /\ work'[n][<<"inbox", t>>] \in {work[n][<<"inbox", t>>], Absent}
             /\ work'[n][<<"badtask", t>>] \in
                   {work[n][<<"badtask", t>>], work[n][<<"inbox", t>>]}
      BY <1>1, <2>5, <3>1, Places, ClearsFacts
    <3> QED
      BY <1>2, <3>2
  <2> QED
    BY <2>1, <2>2, <2>3, <2>4, <2>5, CliFiles, WorkerFiles
<1>4. CopiesAmong(<<"inbox", t>>, S)' /\ CopiesAmong(<<"badtask", t>>, S)'
  BY <1>1, <1>2, <1>3, OwnCopies
<1> QED
  BY <1>4 DEF TaskFiles

LEMMA OutboxKept ==
    ASSUME TypesInv, CliOwn \/ WorkerOwn, NEW t \in Tasks, NEW S, Absent \in S,
           CopiesAmong(<<"outbox", t>>, S),
           WriteReply /\ worker.task = t => worker.reply \in S
    PROVE  CopiesAmong(<<"outbox", t>>, S)'
<1>1. <<"outbox", t>> \in Paths /\ GitInv /\ work \in [Nodes -> Trees]
  BY Places, PathOf DEF TypesInv, GitInv, TypeOK
<1>2. \A n \in Nodes : work[n][<<"outbox", t>>] \in S
  BY DEF CopiesAmong
<1>3. \A n \in Nodes : work'[n][<<"outbox", t>>] \in S
  <2>1. CASE work' = work
    BY <1>2, <2>1
  <2>2. CASE WriteTask
    BY <1>1, <1>2, <2>2, WriteTaskFacts
  <2>3. CASE WriteReply
    <3>1. \A n \in Nodes : work'[n][<<"outbox", t>>] =
             IF n = Receiver /\ <<"outbox", t>> = <<"outbox", worker.task>>
             THEN worker.reply ELSE work[n][<<"outbox", t>>]
      BY <1>1, <2>3, WriteReplyFacts
    <3> QED
      BY <1>2, <2>3, <3>1
  <2>4. CASE Clears(Sender, "outbox", "badreply")
    <3>1. "outbox" \in Slots /\ "badreply" \in Slots \ {"outbox"}
      BY Places
    <3>2. \A n \in Nodes :
             work'[n][<<"outbox", t>>] \in {work[n][<<"outbox", t>>], Absent}
      BY <1>1, <2>4, <3>1, Places, ClearsFacts
    <3> QED
      BY <1>2, <3>2
  <2>5. CASE Clears(Receiver, "inbox", "badtask")
    <3>1. /\ "inbox" \in Slots /\ "badtask" \in Slots \ {"inbox"}
          /\ <<"outbox", t>> \notin {"inbox", "badtask"} \X Tasks
      BY Places
    <3>2. \A n \in Nodes, path \in Paths :
             path \notin {"inbox", "badtask"} \X Tasks => work'[n][path] = work[n][path]
      BY <1>1, <2>5, <3>1, Places, ClearsFacts
    <3> QED
      BY <1>1, <1>2, <3>1, <3>2
  <2> QED
    BY <2>1, <2>2, <2>3, <2>4, <2>5, CliFiles, WorkerFiles
<1> QED
  BY <1>1, <1>3, OwnCopies

-----------------------------------------------------------------------------
\* Types.

LEMMA IdleCliTyped ==
    /\ IdleCli \in CliStates /\ IdleCli.at = "idle" /\ IdleCli.accepted = {}
    /\ IdleCli.batch = NoBatch /\ IdleCli.task = NoTask
BY EmptyBatch DEF IdleCli, CliStates

LEMMA CliTypes ==
    ASSUME TypesInv, CliOwn
    PROVE  CliTyped'
<1>1. cli \in CliStates /\ cli.batch \in Batches /\ cli.accepted \subseteq Replies
      /\ CliTyped
  BY DEF TypesInv, CliTyped, CliStates
<1>2. IdleCli \in CliStates /\ IdleCli.at = "idle"
  BY IdleCliTyped
<1>3. \A t \in DOMAIN cli.batch : t \in Tasks /\ cli.batch[t] \in Envelopes
  BY <1>1, BatchFacts
<1>4. CASE cli' = IdleCli
  BY <1>2, <1>4 DEF CliTyped, Sending
<1>5. ASSUME NEW t \in Tasks, StartSend(t) PROVE CliTyped'
  BY <1>2, <1>5 DEF StartSend, CliTyped, CliStates, Sending
<1>6. CASE StartTake
  BY <1>2, <1>6 DEF StartTake, CliTyped, CliStates, Sending
<1>7. CASE WriteTask
  BY <1>1, <1>7 DEF WriteTask, CliTyped, CliStates, Sending
<1>8. CASE (\E answer \in {"ok", "failed"} : ReportSend(answer)) \/ TakeFails \/ TakeDone
           \/ CliCrash
  BY <1>4, <1>8 DEF ReportSend, TakeFails, TakeDone, CliCrash
<1>9. CASE ReadOutbox
  <2>1. ReadSlot(Sender, "outbox") \in Batches
    BY Places, ReadSlotFacts DEF TypesInv
  <2> QED
    BY <1>1, <1>9, <2>1 DEF ReadOutbox, CliTyped, CliStates, Sending
<1>10. ASSUME NEW t \in Tasks, VerifyReply(t) PROVE CliTyped'
  <2>1. Drop(cli.batch, t) \in Batches
    BY <1>1, DropFacts
  <2>2. t \in DOMAIN cli.batch /\ cli.at = "reply"
        /\ \/ cli' = [cli EXCEPT !.at = "seen", !.task = t]
           \/ cli' = [cli EXCEPT !.batch = Drop(cli.batch, t), !.dirty = TRUE]
    BY <1>10 DEF VerifyReply
  <2> QED
    BY <1>1, <2>1, <2>2 DEF CliTyped, CliStates, Sending
<1>11. CASE CheckSeen
  <2> DEFINE reply == [task |-> cli.task, envelope |-> cli.batch[cli.task]]
  <2>1. Drop(cli.batch, cli.task) \in Batches
    BY <1>1, DropFacts
  <2>2. cli.task \in DOMAIN cli.batch
    BY <1>1, <1>11 DEF CheckSeen, CliTyped
  <2>3. reply \in Replies
    BY <1>3, <2>2 DEF Replies
  <2>4. \/ cli' = [cli EXCEPT !.at = "reply", !.batch = Drop(cli.batch, cli.task),
                              !.dirty = TRUE]
        \/ cli' = [cli EXCEPT !.at = "reply", !.batch = Drop(cli.batch, cli.task),
                              !.accepted = cli.accepted \cup {reply}]
    BY <1>11 DEF CheckSeen
  <2> HIDE DEF reply
  <2>5. cli.accepted \cup {reply} \in SUBSET Replies
    BY <1>1, <2>3
  <2>6. cli' \in CliStates
    BY <1>1, <2>1, <2>4, <2>5 DEF CliStates
  <2>7. cli'.at = "reply"
    BY <1>1, <2>4 DEF CliStates
  <2> QED
    BY <2>6, <2>7 DEF CliTyped, Sending
<1>12. CASE Cleanup \/ PublishAcks
  BY <1>1, <1>12 DEF Cleanup, PublishAcks, CliTyped, CliStates, Sending
<1>13. CASE Display
  <2>1. cli' = IdleCli \/ cli' = [cli EXCEPT !.at = "ack"]
    BY <1>13 DEF Display
  <2>2. CASE cli' = [cli EXCEPT !.at = "ack"]
    BY <1>1, <2>2 DEF CliTyped, CliStates, Sending
  <2> QED
    BY <1>4, <2>1, <2>2
<1>14. ASSUME NEW reply \in cli.accepted, Ack(reply) PROVE CliTyped'
  <2>1. cli' = [cli EXCEPT !.accepted = @ \ {reply}] /\ cli.at = "ack"
    BY <1>14 DEF Ack
  <2> QED
    BY <1>1, <2>1 DEF CliTyped, CliStates, Sending
<1> QED
  BY <1>5, <1>6, <1>7, <1>8, <1>9, <1>10, <1>11, <1>12, <1>13, <1>14 DEF CliOwn, CliStep

LEMMA IdleWorkerTyped ==
    IdleWorker \in WorkerStates /\ IdleWorker.at = "idle" /\ IdleWorker.batch = NoBatch
BY EmptyBatch DEF IdleWorker, WorkerStates, Blobs

LEMMA TableFacts ==
    ASSUME NEW table \in Tables
    PROVE  /\ DOMAIN table \subseteq Tasks
           /\ \A t \in DOMAIN table : table[t] \in OutcomeRows
BY DEF Tables

\* The rows that are not expired, and with another one put in.
LEMMA RestrictFacts ==
    ASSUME NEW table \in Tables, NEW D \in SUBSET (DOMAIN table)
    PROVE  /\ Restrict(table, D) \in Tables
           /\ DOMAIN Restrict(table, D) = D
           /\ \A t \in D : Restrict(table, D)[t] = table[t]
<1>1. DOMAIN Restrict(table, D) = D /\ \A t \in D : Restrict(table, D)[t] = table[t]
  BY DEF Restrict
<1>2. Restrict(table, D) \in [D -> OutcomeRows]
  BY TableFacts DEF Restrict
<1>3. D \in SUBSET Tasks
  BY TableFacts
<1> QED
  BY <1>1, <1>2, <1>3 DEF Tables

LEMMA LiveFacts ==
    ASSUME outcomes \in Tables, NEW now
    PROVE  /\ LiveRows(now) \in Tables
           /\ DOMAIN LiveRows(now) = {t \in DOMAIN outcomes : outcomes[t].expires > now}
           /\ \A t \in DOMAIN LiveRows(now) : LiveRows(now)[t] = outcomes[t]
<1> DEFINE D == {t \in DOMAIN outcomes : outcomes[t].expires > now}
<1>1. D \in SUBSET (DOMAIN outcomes) /\ LiveRows(now) = Restrict(outcomes, D)
  BY DEF LiveRows
<1> HIDE DEF D
<1>2. /\ Restrict(outcomes, D) \in Tables
      /\ DOMAIN Restrict(outcomes, D) = D
      /\ \A t \in D : Restrict(outcomes, D)[t] = outcomes[t]
  BY <1>1, RestrictFacts
<1> QED
  BY <1>1, <1>2 DEF D

LEMMA WithRowFacts ==
    ASSUME NEW table \in Tables, NEW t \in Tasks, NEW row \in OutcomeRows
    PROVE  /\ WithRow(table, t, row) \in Tables
           /\ DOMAIN WithRow(table, t, row) = DOMAIN table \cup {t}
           /\ WithRow(table, t, row)[t] = row
           /\ \A s \in DOMAIN table \ {t} : WithRow(table, t, row)[s] = table[s]
<1>1. /\ DOMAIN WithRow(table, t, row) = DOMAIN table \cup {t}
      /\ WithRow(table, t, row)[t] = row
      /\ \A s \in DOMAIN table \ {t} : WithRow(table, t, row)[s] = table[s]
  BY DEF WithRow
<1>2. WithRow(table, t, row) \in [DOMAIN table \cup {t} -> OutcomeRows]
  BY TableFacts DEF WithRow
<1>3. DOMAIN table \cup {t} \in SUBSET Tasks
  BY TableFacts
<1> QED
  BY <1>1, <1>2, <1>3 DEF Tables

\* The row of the task in hand, as claim and complete write it.
LEMMA RowFacts ==
    ASSUME WorkerTyped, worker.at \in Working, NEW state \in {"processing", "completed"},
           NEW reply \in Blobs
    PROVE  /\ Row(state, reply) \in OutcomeRows
           /\ Row(state, reply).state = state /\ Row(state, reply).reply = reply
           /\ Row(state, reply).expires = worker.batch[worker.task].expires
           /\ worker.task \in Tasks
<1>1. worker.task \in DOMAIN worker.batch /\ worker.batch \in Batches
  BY DEF WorkerTyped, WorkerStates
<1>2. worker.task \in Tasks /\ worker.batch[worker.task] \in Envelopes
  BY <1>1, BatchFacts
<1>3. worker.batch[worker.task].expires \in Expiries
  BY <1>2 DEF Envelopes, Expiries
<1> QED
  BY <1>2, <1>3 DEF Row, OutcomeRows

\* What the worker signs at this moment.
LEMMA SignedNow ==
    ASSUME OthersTyped, NEW kind \in {"task", "answer", "notice"}
    PROVE  [kind |-> kind, expires |-> clock + Ttl] \in Blobs
<1>1. clock + Ttl \in 0 .. MaxClock + Ttl
  <2>1. Ttl \in Nat /\ MaxClock \in Nat /\ clock \in 0 .. MaxClock
    BY RelayConstants DEF OthersTyped
  <2> QED
    BY <2>1
<1>2. [kind |-> kind, expires |-> clock + Ttl] \in Envelopes
  BY <1>1 DEF Envelopes
<1> QED
  BY <1>2, RelayConstants DEF Blobs

LEMMA WorkerTypes ==
    ASSUME TypesInv, WorkerOwn
    PROVE  WorkerTyped'
<1>1. worker \in WorkerStates /\ worker.batch \in Batches /\ worker.reply \in Blobs
      /\ WorkerTyped /\ OthersTyped /\ outcomes \in Tables
  BY DEF TypesInv, WorkerTyped, WorkerStates, OthersTyped
<1>2. IdleWorker \in WorkerStates /\ IdleWorker.at = "idle"
  BY IdleWorkerTyped
<1>3. CASE worker' = IdleWorker
  BY <1>2, <1>3 DEF WorkerTyped, Working
<1>4. CASE StartDrain
  BY <1>2, <1>4 DEF StartDrain, WorkerTyped, WorkerStates, Working
<1>5. CASE ReadInbox
  <2>1. ReadSlot(Receiver, "inbox") \in Batches
    BY Places, ReadSlotFacts DEF TypesInv
  <2> QED
    BY <1>1, <1>5, <2>1 DEF ReadInbox, WorkerTyped, WorkerStates, Working
<1>6. ASSUME NEW t \in Tasks, VerifyTask(t) PROVE WorkerTyped'
  <2>1. Drop(worker.batch, t) \in Batches
    BY <1>1, DropFacts
  <2>2. worker.at = "next" /\ t \in DOMAIN worker.batch
        /\ \/ t \in Genuine /\ worker' = [worker EXCEPT !.at = "claim", !.task = t]
           \/ worker' = [worker EXCEPT !.batch = Drop(worker.batch, t), !.dirty = TRUE]
    BY <1>6 DEF VerifyTask
  <2> QED
    BY <1>1, <2>1, <2>2 DEF WorkerTyped, WorkerStates, Working
\* The steps that keep the task in hand and its batch.
<1>7. ASSUME worker.at \in Working, NEW at \in Working, NEW reply \in Blobs,
             worker' = [worker EXCEPT !.at = at, !.reply = reply]
      PROVE  WorkerTyped'
  <2>1. worker' \in WorkerStates
    BY <1>1, <1>7 DEF WorkerStates, Working
  <2>2. worker'.task = worker.task /\ worker'.batch = worker.batch
    BY <1>1, <1>7 DEF WorkerStates
  <2> QED
    BY <1>1, <1>7, <2>1, <2>2 DEF WorkerTyped
<1>8. ASSUME worker.at \in Working, NEW at \in Working, worker' = [worker EXCEPT !.at = at]
      PROVE  WorkerTyped'
  <2>1. [worker EXCEPT !.at = at] = [worker EXCEPT !.at = at, !.reply = worker.reply]
    BY <1>1 DEF WorkerStates
  <2> QED
    BY <1>1, <1>7, <1>8, <2>1
<1>9. CASE ClaimInterrupted
  <2>1. [kind |-> "notice", expires |-> clock + Ttl] \in Blobs
    BY <1>1, SignedNow
  <2>2. {"claim", "complete"} \subseteq Working
    BY DEF Working
  <2> QED
    BY <1>7, <1>9, <2>1, <2>2 DEF ClaimInterrupted
<1>10. CASE ClaimCompleted
  <2>1. worker.task \in DOMAIN LiveRows(clock)
        /\ worker' = [worker EXCEPT !.at = "write", !.reply = LiveRows(clock)[worker.task].reply]
        /\ worker.at = "claim"
    BY <1>10 DEF ClaimCompleted
  <2>2. LiveRows(clock)[worker.task] \in OutcomeRows
    BY <1>1, <2>1, LiveFacts, TableFacts
  <2>3. LiveRows(clock)[worker.task].reply \in Blobs /\ {"claim", "write"} \subseteq Working
    BY <2>2 DEF OutcomeRows, Working
  <2> QED
    BY <1>7, <2>1, <2>3
<1>11. CASE ClaimNew \/ Complete \/ WriteReply
  <2>1. {"claim", "run", "complete", "write", "unlink"} \subseteq Working
    BY DEF Working
  <2> QED
    BY <1>8, <1>11, <2>1 DEF ClaimNew, Complete, WriteReply
<1>12. CASE RunBrain
  <2>1. [kind |-> "answer", expires |-> clock + Ttl] \in Blobs
    BY <1>1, SignedNow
  <2>2. {"run", "complete"} \subseteq Working
    BY DEF Working
  <2> QED
    BY <1>7, <1>12, <2>1, <2>2 DEF RunBrain
<1>13. CASE RemoveTask
  <2>1. Drop(worker.batch, worker.task) \in Batches
    BY <1>1, DropFacts
  <2> QED
    BY <1>2, <1>13, <2>1 DEF RemoveTask, WorkerTyped, WorkerStates, Working
<1>14. CASE Flush
  <2>1. worker' = IdleWorker \/ worker' = [worker EXCEPT !.at = "flush"]
    BY <1>14 DEF Flush
  <2>2. CASE worker' = [worker EXCEPT !.at = "flush"]
    BY <1>1, <2>2 DEF WorkerTyped, WorkerStates, Working
  <2> QED
    BY <1>3, <2>1, <2>2
<1>15. CASE ClaimRefused \/ DrainEnds \/ WorkerCrash
  BY <1>3, <1>15 DEF ClaimRefused, DrainEnds, WorkerCrash
<1> QED
  BY <1>4, <1>5, <1>6, <1>9, <1>10, <1>11, <1>12, <1>13, <1>14, <1>15
     DEF WorkerOwn, WorkerStep

\* The rows after complete dropped the expired ones but for the one claimed.
CompleteRows == Restrict(outcomes, DOMAIN LiveRows(clock) \cup ({worker.task} \cap DOMAIN outcomes))

\* What the worker's steps do to the outcome table.
LEMMA TableSteps ==
    ASSUME TypesInv, WorkerOwn
    PROVE  /\ outcomes' \in Tables
           /\ \/ outcomes' = outcomes
              \/ outcomes' = LiveRows(clock)
              \/ ClaimNew
              \/ Complete
<1>1. outcomes \in Tables /\ WorkerTyped
  BY DEF TypesInv, OthersTyped
<1>2. LiveRows(clock) \in Tables /\ DOMAIN LiveRows(clock) \subseteq DOMAIN outcomes
  BY <1>1, LiveFacts
<1>3. CASE ClaimNew
  <2>1. worker.at \in Working /\ Absent \in Blobs
    BY <1>3 DEF ClaimNew, Working, Blobs
  <2>2. Row("processing", Absent) \in OutcomeRows /\ worker.task \in Tasks
    BY <1>1, <2>1, RowFacts
  <2>3. outcomes' = WithRow(LiveRows(clock), worker.task, Row("processing", Absent))
    BY <1>3 DEF ClaimNew
  <2> QED
    BY <1>2, <1>3, <2>2, <2>3, WithRowFacts
<1>4. CASE Complete
  <2>1. worker.at \in Working /\ worker.reply \in Blobs
    BY <1>1, <1>4 DEF Complete, Working, WorkerTyped, WorkerStates
  <2>2. Row("completed", worker.reply) \in OutcomeRows /\ worker.task \in Tasks
    BY <1>1, <2>1, RowFacts
  <2>3. outcomes' = WithRow(CompleteRows, worker.task, Row("completed", worker.reply))
    BY <1>4 DEF Complete, CompleteRows
  <2>4. DOMAIN LiveRows(clock) \cup ({worker.task} \cap DOMAIN outcomes)
           \in SUBSET (DOMAIN outcomes)
    BY <1>2
  <2>5. CompleteRows \in Tables
    BY <1>1, <2>4, RestrictFacts DEF CompleteRows
  <2> QED
    BY <1>4, <2>2, <2>3, <2>5, WithRowFacts
<1>5. CASE outcomes' = outcomes \/ outcomes' = LiveRows(clock)
  BY <1>1, <1>2, <1>5
<1>6. outcomes' = outcomes \/ outcomes' = LiveRows(clock) \/ ClaimNew \/ Complete
  BY DEF WorkerOwn, WorkerStep, WorkerCrash, StartDrain, ReadInbox, VerifyTask,
     ClaimInterrupted, ClaimCompleted, ClaimRefused, RunBrain, WriteReply, RemoveTask, Flush,
     DrainEnds
<1> QED
  BY <1>3, <1>4, <1>5, <1>6

\* The command leaves the worker's variables alone, the worker the command's.
LEMMA CliFrame ==
    ASSUME CliOwn
    PROVE  UNCHANGED <<clock, worker, outcomes, invoked, timely>>
BY DEF CliOwn, CliStep, StartSend, StartTake, WriteTask, ReportSend, TakeFails, ReadOutbox,
   VerifyReply, CheckSeen, Cleanup, Display, Ack, PublishAcks, TakeDone, CliCrash

LEMMA WorkerFrame ==
    ASSUME WorkerOwn
    PROVE  UNCHANGED <<clock, cli, acked, report, shown>>
BY DEF WorkerOwn, WorkerStep, StartDrain, ReadInbox, VerifyTask, ClaimInterrupted,
   ClaimCompleted, ClaimNew, ClaimRefused, RunBrain, Complete, WriteReply, RemoveTask,
   Flush, DrainEnds, WorkerCrash

\* The counters of the worker: a run, and a claim of a task that is valid.
LEMMA CounterSteps ==
    ASSUME TypesInv, WorkerOwn
    PROVE  /\ \/ invoked' = invoked
              \/ RunBrain /\ invoked' = [invoked EXCEPT ![worker.task] = @ + 1]
           /\ \/ timely' = timely
              \/ /\ ClaimNew /\ clock < worker.batch[worker.task].expires
                 /\ timely' = [timely EXCEPT ![worker.task] = @ + 1]
           /\ invoked' \in [Tasks -> Nat] /\ timely' \in [Tasks -> Nat]
<1>1. invoked \in [Tasks -> Nat] /\ timely \in [Tasks -> Nat]
  BY DEF TypesInv, OthersTyped
<1>2. invoked' = invoked \/ (RunBrain /\ invoked' = [invoked EXCEPT ![worker.task] = @ + 1])
  BY DEF WorkerOwn, WorkerStep, StartDrain, ReadInbox, VerifyTask, ClaimInterrupted,
     ClaimCompleted, ClaimNew, ClaimRefused, RunBrain, Complete, WriteReply, RemoveTask,
     Flush, DrainEnds, WorkerCrash
<1>3. \/ timely' = timely
      \/ /\ ClaimNew /\ clock < worker.batch[worker.task].expires
         /\ timely' = [timely EXCEPT ![worker.task] = @ + 1]
  BY DEF WorkerOwn, WorkerStep, StartDrain, ReadInbox, VerifyTask, ClaimInterrupted,
     ClaimCompleted, ClaimNew, ClaimRefused, RunBrain, Complete, WriteReply, RemoveTask,
     Flush, DrainEnds, WorkerCrash
<1> QED
  BY <1>1, <1>2, <1>3

\* What the command remembers and what the user reads.
LEMMA CliTables ==
    ASSUME TypesInv, CliOwn
    PROVE  /\ acked' \subseteq Replies /\ shown' \subseteq Replies
           /\ report' \in [Tasks -> {"none", "sending", "queued", "not queued"}]
           /\ acked' = acked \/ (\E reply \in cli.accepted : Ack(reply))
           /\ shown' = shown \/ shown' = shown \cup cli.accepted
           /\ \/ report' = report
              \/ \E t \in Tasks : StartSend(t)
              \/ \E answer \in {"ok", "failed"} : ReportSend(answer)
<1>1. /\ acked \subseteq Replies /\ shown \subseteq Replies /\ cli.accepted \subseteq Replies
      /\ report \in [Tasks -> {"none", "sending", "queued", "not queued"}]
  BY DEF TypesInv, OthersTyped, CliTyped, CliStates
<1>2. acked' = acked \/ \E reply \in cli.accepted : Ack(reply)
  BY DEF CliOwn, CliStep, StartSend, StartTake, WriteTask, ReportSend, TakeFails, ReadOutbox,
     VerifyReply, CheckSeen, Cleanup, Display, PublishAcks, TakeDone, CliCrash
<1>3. acked' \subseteq Replies
  BY <1>1, <1>2 DEF Ack
<1>4. shown' = shown \/ shown' = shown \cup cli.accepted
  BY DEF CliOwn, CliStep, StartSend, StartTake, WriteTask, ReportSend, TakeFails, ReadOutbox,
     VerifyReply, CheckSeen, Cleanup, Display, Ack, PublishAcks, TakeDone, CliCrash
<1>5. \/ report' = report
      \/ \E t \in Tasks : StartSend(t)
      \/ \E answer \in {"ok", "failed"} : ReportSend(answer)
  BY DEF CliOwn, CliStep, StartTake, WriteTask, TakeFails, ReadOutbox,
     VerifyReply, CheckSeen, Cleanup, Display, Ack, PublishAcks, TakeDone, CliCrash
<1>6. report' \in [Tasks -> {"none", "sending", "queued", "not queued"}]
  <2>1. \/ report' = report
        \/ \E t, answer : /\ answer \in {"sending", "queued", "not queued"}
                          /\ report' = [report EXCEPT ![t] = answer]
    BY <1>5 DEF StartSend, ReportSend
  <2> QED
    BY <1>1, <2>1
<1> QED
  BY <1>1, <1>2, <1>3, <1>4, <1>5, <1>6

LEMMA TypesKept ==
    ASSUME TypesInv, [RelayNext]_vars
    PROVE  TypesInv'
<1>1. CASE GitMoves /\ UNCHANGED relayVars
  <2>1. GitInv'
    <3>1. GitInv /\ [Next]_gitVars
      BY <1>1 DEF TypesInv, GitMoves, Next
    <3> QED
      BY <3>1, GitNextKeeps
  <2>2. OneAtATime'
    BY <1>1, LockKeeps DEF TypesInv
  <2>3. CliTyped' /\ WorkerTyped' /\ OthersTyped'
    BY <1>1 DEF TypesInv, relayVars, CliTyped, WorkerTyped, OthersTyped
  <2> QED
    BY <2>1, <2>2, <2>3 DEF TypesInv
<1>2. CASE CliOwn
  <2>1. GitInv' /\ OneAtATime' /\ CliTyped'
    BY <1>2, OwnGit, CliTypes
  <2>2. UNCHANGED <<clock, worker, outcomes, invoked, timely>>
    BY <1>2, CliFrame
  <2>3. /\ acked' \subseteq Replies /\ shown' \subseteq Replies
        /\ report' \in [Tasks -> {"none", "sending", "queued", "not queued"}]
    BY <1>2, CliTables
  <2>4. WorkerTyped' /\ OthersTyped'
    BY <2>2, <2>3 DEF TypesInv, WorkerTyped, OthersTyped
  <2> QED
    BY <2>1, <2>4 DEF TypesInv
<1>3. CASE WorkerOwn
  <2>1. GitInv' /\ OneAtATime' /\ WorkerTyped'
    BY <1>3, OwnGit, WorkerTypes
  <2>2. UNCHANGED <<clock, cli, acked, report, shown>>
    BY <1>3, WorkerFrame
  <2>3. outcomes' \in Tables /\ invoked' \in [Tasks -> Nat] /\ timely' \in [Tasks -> Nat]
    BY <1>3, TableSteps, CounterSteps
  <2>4. CliTyped' /\ OthersTyped'
    BY <2>2, <2>3 DEF TypesInv, CliTyped, OthersTyped
  <2> QED
    BY <2>1, <2>4 DEF TypesInv
<1>4. CASE Tick \/ UNCHANGED vars
  <2>1. /\ UNCHANGED gitVars
        /\ UNCHANGED <<cli, worker, outcomes, acked, report, shown, invoked, timely>>
        /\ clock' = clock \/ (clock' = clock + 1 /\ clock < MaxClock)
    BY <1>4 DEF Tick, vars, relayVars
  <2>2. clock' \in 0 .. MaxClock
    <3>1. clock \in 0 .. MaxClock /\ MaxClock \in Nat
      BY RelayConstants DEF TypesInv, OthersTyped
    <3> QED
      BY <2>1, <3>1
  <2>3. GitInv'
    BY <2>1, GitNextKeeps DEF TypesInv
  <2>4. OneAtATime'
    BY <2>1 DEF TypesInv, gitVars, OneAtATime
  <2>5. CliTyped' /\ WorkerTyped' /\ OthersTyped'
    BY <2>1, <2>2 DEF TypesInv, CliTyped, WorkerTyped, OthersTyped
  <2> QED
    BY <2>3, <2>4, <2>5 DEF TypesInv
<1> QED
  BY <1>1, <1>2, <1>3, <1>4, StepKinds

LEMMA TypesStart == Init => TypesInv
<1> SUFFICES ASSUME Init PROVE TypesInv
  OBVIOUS
<1>1. InitGit
  BY DEF Init
<1>2. GitInv
  BY <1>1, GitStarts
<1>3. OneAtATime
  BY <1>1 DEF InitGit, OneAtATime, NoSync, Locked
<1>4. CliTyped
  BY IdleCliTyped DEF Init, CliTyped, Sending
<1>5. WorkerTyped
  BY IdleWorkerTyped DEF Init, WorkerTyped, Working
<1>6. OthersTyped
  <2>1. MaxClock \in Nat /\ <<>> \in Tables
    BY RelayConstants, EmptyBatch
  <2> QED
    BY <2>1 DEF Init, OthersTyped
<1> QED
  BY <1>2, <1>3, <1>4, <1>5, <1>6 DEF TypesInv

LEMMA TypesInvariant == RelaySpec => []TypesInv
BY TypesStart, TypesKept, PTL DEF RelaySpec

\* Every variable of sender and receiver, the rows of the outcome database
\* included, keeps its type.
THEOREM RelayTypes == RelaySpec => []RelayTypeOK
<1>1. ASSUME TypesInv PROVE RelayTypeOK
  <2>1. TypeOK
    BY <1>1 DEF TypesInv, GitInv
  <2>2. CliTyped /\ WorkerTyped /\ OthersTyped
    BY <1>1 DEF TypesInv
  <2>3. DOMAIN outcomes \subseteq Tasks /\ \A t \in DOMAIN outcomes : outcomes[t] \in OutcomeRows
    BY <2>2, TableFacts DEF OthersTyped
  <2> QED
    BY <2>1, <2>2, <2>3 DEF RelayTypeOK, CliTyped, CliStates, WorkerTyped, WorkerStates,
       OthersTyped, OutcomeRows, Expiries
<1> QED
  BY <1>1, TypesInvariant, PTL

-----------------------------------------------------------------------------
\* What the worker's steps do to its batch and to a row.

LEMMA BatchSteps ==
    ASSUME TypesInv, WorkerOwn, NEW t \in DOMAIN worker'.batch
    PROVE  /\ t \in Tasks
           /\ \/ t \in DOMAIN worker.batch /\ worker'.batch[t] = worker.batch[t]
              \/ /\ work[Receiver][<<"inbox", t>>] # Absent
                 /\ worker'.batch[t] = work[Receiver][<<"inbox", t>>]
<1>1. worker \in WorkerStates /\ worker.batch \in Batches /\ GitInv
      /\ DOMAIN worker.batch \subseteq Tasks
  BY BatchFacts DEF TypesInv, WorkerTyped, WorkerStates
<1>2. CASE worker'.batch = worker.batch
  BY <1>1, <1>2
<1>3. CASE worker'.batch = NoBatch
  BY <1>3, EmptyBatch
<1>4. ASSUME NEW s, worker'.batch = Drop(worker.batch, s)
      PROVE  t \in DOMAIN worker.batch /\ worker'.batch[t] = worker.batch[t]
  <2>1. /\ DOMAIN Drop(worker.batch, s) = DOMAIN worker.batch \ {s}
        /\ \A r \in DOMAIN worker.batch \ {s} : Drop(worker.batch, s)[r] = worker.batch[r]
    BY <1>1, DropFacts, Zenon
  <2>2. t \in DOMAIN Drop(worker.batch, s)
    BY <1>4
  <2> QED
    BY <1>4, <2>1, <2>2
<1>5. CASE ReadInbox
  <2>1. worker'.batch = ReadSlot(Receiver, "inbox")
    BY <1>1, <1>5 DEF ReadInbox, WorkerStates
  <2>2. t \in Tasks /\ work[Receiver][<<"inbox", t>>] # Absent
        /\ ReadSlot(Receiver, "inbox")[t] = work[Receiver][<<"inbox", t>>]
    BY <1>1, <2>1, Places, ReadSlotFacts
  <2> QED
    BY <2>1, <2>2
<1>6. CASE \E s \in Tasks : VerifyTask(s)
  <2>1. worker'.batch = worker.batch \/ \E s : worker'.batch = Drop(worker.batch, s)
    BY <1>1, <1>6 DEF VerifyTask, WorkerStates
  <2> QED
    BY <1>1, <1>2, <1>4, <2>1
<1>7. CASE RemoveTask
  <2>1. worker'.batch = Drop(worker.batch, worker.task)
    BY <1>7, IdleWorkerTyped DEF RemoveTask, WorkerStates
  <2> QED
    BY <1>1, <1>4, <2>1
<1>8. CASE StartDrain \/ ClaimRefused \/ DrainEnds \/ WorkerCrash
  BY <1>3, <1>8, IdleWorkerTyped DEF StartDrain, ClaimRefused, DrainEnds, WorkerCrash, WorkerStates
<1>9. CASE Flush
  BY <1>1, <1>2, <1>3, <1>9, IdleWorkerTyped DEF Flush, WorkerStates
<1>10. CASE ClaimInterrupted \/ ClaimCompleted \/ ClaimNew \/ RunBrain \/ Complete \/ WriteReply
  BY <1>1, <1>2, <1>10 DEF ClaimInterrupted, ClaimCompleted, ClaimNew, RunBrain, Complete,
     WriteReply, WorkerStates
<1> QED
  BY <1>5, <1>6, <1>7, <1>8, <1>9, <1>10 DEF WorkerOwn, WorkerStep

\* The task in hand and the table that claim writes.
LEMMA NewClaim ==
    ASSUME TypesInv, ClaimNew
    PROVE  /\ worker.task \in Tasks /\ worker.task \in DOMAIN worker.batch
           /\ DOMAIN outcomes' = DOMAIN LiveRows(clock) \cup {worker.task}
           /\ outcomes'[worker.task].state = "processing"
           /\ outcomes'[worker.task].expires = worker.batch[worker.task].expires
           /\ worker.task \notin DOMAIN LiveRows(clock)
           /\ \A t \in DOMAIN LiveRows(clock) : outcomes'[t] = outcomes[t]
<1>1. outcomes \in Tables /\ WorkerTyped /\ worker.at \in Working /\ Absent \in Blobs
  BY DEF TypesInv, OthersTyped, ClaimNew, Working, Blobs
<1>2. /\ Row("processing", Absent) \in OutcomeRows /\ worker.task \in Tasks
      /\ Row("processing", Absent).state = "processing"
      /\ Row("processing", Absent).expires = worker.batch[worker.task].expires
  BY <1>1, RowFacts
<1>3. /\ LiveRows(clock) \in Tables
      /\ \A t \in DOMAIN LiveRows(clock) : LiveRows(clock)[t] = outcomes[t]
  BY <1>1, LiveFacts
<1>4. /\ outcomes' = WithRow(LiveRows(clock), worker.task, Row("processing", Absent))
      /\ worker.task \notin DOMAIN LiveRows(clock)
  BY DEF ClaimNew
<1>5. /\ DOMAIN outcomes' = DOMAIN LiveRows(clock) \cup {worker.task}
      /\ outcomes'[worker.task] = Row("processing", Absent)
      /\ \A t \in DOMAIN LiveRows(clock) \ {worker.task} :
            outcomes'[t] = LiveRows(clock)[t]
  <2> DEFINE rows == LiveRows(clock)
             row == Row("processing", Absent)
  <2>1. rows \in Tables /\ row \in OutcomeRows /\ worker.task \in Tasks
    BY <1>2, <1>3
  <2>2. outcomes' = WithRow(rows, worker.task, row)
    BY <1>4
  <2> HIDE DEF rows, row
  <2>3. /\ DOMAIN WithRow(rows, worker.task, row) = DOMAIN rows \cup {worker.task}
        /\ WithRow(rows, worker.task, row)[worker.task] = row
        /\ \A t \in DOMAIN rows \ {worker.task} :
              WithRow(rows, worker.task, row)[t] = rows[t]
    BY <2>1, WithRowFacts
  <2> QED
    BY <2>2, <2>3 DEF rows, row
<1> QED
  BY <1>1, <1>2, <1>3, <1>4, <1>5 DEF WorkerTyped

\* And the one that complete writes.
LEMMA Completion ==
    ASSUME TypesInv, Complete
    PROVE  /\ worker.task \in Tasks /\ worker.task \in DOMAIN worker.batch
           /\ worker.task \in DOMAIN outcomes
           /\ DOMAIN outcomes' = DOMAIN LiveRows(clock) \cup {worker.task}
           /\ outcomes'[worker.task].state = "completed"
           /\ outcomes'[worker.task].reply = worker.reply
           /\ outcomes'[worker.task].expires = worker.batch[worker.task].expires
           /\ \A t \in DOMAIN LiveRows(clock) \ {worker.task} : outcomes'[t] = outcomes[t]
<1> DEFINE D == DOMAIN LiveRows(clock) \cup ({worker.task} \cap DOMAIN outcomes)
<1>1. /\ outcomes \in Tables /\ WorkerTyped /\ worker.at \in Working
      /\ worker.reply \in Blobs
  BY DEF TypesInv, OthersTyped, Complete, Working, WorkerTyped, WorkerStates
<1>2. /\ Row("completed", worker.reply) \in OutcomeRows /\ worker.task \in Tasks
      /\ Row("completed", worker.reply).state = "completed"
      /\ Row("completed", worker.reply).reply = worker.reply
      /\ Row("completed", worker.reply).expires = worker.batch[worker.task].expires
  BY <1>1, RowFacts
<1>3. DOMAIN LiveRows(clock) \subseteq DOMAIN outcomes
  BY <1>1, LiveFacts
<1>4. D \in SUBSET (DOMAIN outcomes)
  BY <1>3
<1>5. /\ worker.task \in DOMAIN Restrict(outcomes, D)
      /\ outcomes' = WithRow(Restrict(outcomes, D), worker.task, Row("completed", worker.reply))
  BY DEF Complete
<1>6. D = DOMAIN LiveRows(clock) \cup ({worker.task} \cap DOMAIN outcomes)
  OBVIOUS
<1> HIDE DEF D
<1>7. /\ Restrict(outcomes, D) \in Tables
      /\ DOMAIN Restrict(outcomes, D) = D
      /\ \A t \in D : Restrict(outcomes, D)[t] = outcomes[t]
  BY <1>1, <1>4, RestrictFacts
<1>8. /\ DOMAIN outcomes' = D \cup {worker.task}
      /\ outcomes'[worker.task] = Row("completed", worker.reply)
      /\ \A t \in D \ {worker.task} : outcomes'[t] = Restrict(outcomes, D)[t]
  BY <1>2, <1>5, <1>7, WithRowFacts
<1>9. worker.task \in DOMAIN outcomes /\ worker.task \in DOMAIN worker.batch
  BY <1>1, <1>4, <1>5, <1>7 DEF WorkerTyped
<1> QED
  BY <1>2, <1>6, <1>7, <1>8, <1>9

\* A row is what it was, or the one written now; what goes had expired.
LEMMA RowSteps ==
    ASSUME TypesInv, WorkerOwn
    PROVE  /\ \A t \in DOMAIN outcomes' :
                 \/ t \in DOMAIN outcomes /\ outcomes'[t] = outcomes[t]
                 \/ /\ ClaimNew \/ Complete
                    /\ t = worker.task /\ t \in DOMAIN worker.batch
                    /\ outcomes'[t].expires = worker.batch[t].expires
           /\ \A t \in DOMAIN outcomes :
                 t \in DOMAIN outcomes' \/ ~ (outcomes[t].expires > clock)
<1>1. /\ DOMAIN LiveRows(clock) = {t \in DOMAIN outcomes : outcomes[t].expires > clock}
      /\ \A t \in DOMAIN LiveRows(clock) : LiveRows(clock)[t] = outcomes[t]
  BY LiveFacts DEF TypesInv, OthersTyped
<1>2. CASE outcomes' = outcomes
  BY <1>2
<1>3. CASE outcomes' = LiveRows(clock)
  BY <1>1, <1>3
<1>4. CASE ClaimNew
  BY <1>1, <1>4, NewClaim
<1>5. CASE Complete
  BY <1>1, <1>5, Completion
<1> QED
  BY <1>2, <1>3, <1>4, <1>5, TableSteps

-----------------------------------------------------------------------------
\* Once while valid.

LEMMA CopiesWiden ==
    ASSUME NEW path, NEW S, NEW T, S \subseteq T, CopiesAmong(path, S)
    PROVE  CopiesAmong(path, T)
BY DEF CopiesAmong, InBranch

LEMMA TaskPaths ==
    ASSUME NEW t \in Tasks
    PROVE  /\ <<"inbox", t>> \in Paths /\ <<"badtask", t>> \in Paths
           /\ <<"outbox", t>> \in Paths
BY Places, PathOf

\* Where a command stands that sends.
LEMMA SendingSteps ==
    ASSUME TypesInv, CliOwn
    PROVE  /\ cli'.at \in Sending => (\E t \in Tasks : StartSend(t)) \/ WriteTask
           /\ \A t \in Tasks : StartSend(t) =>
                 /\ cli'.at = "recover" /\ cli'.task = t /\ report[t] = "none"
                 /\ report' = [report EXCEPT ![t] = "sending"]
           /\ WriteTask => /\ cli'.at = "publish" /\ cli'.task = cli.task
                           /\ cli.at = "recover" /\ report' = report
           /\ \A t \in Tasks : report'[t] = "none" => report[t] = "none"
<1>1. cli \in CliStates /\ report \in [Tasks -> {"none", "sending", "queued", "not queued"}]
  BY DEF TypesInv, CliTyped, OthersTyped
<1>2. IdleCli \in CliStates /\ IdleCli.at = "idle" /\ "idle" \notin Sending
  BY IdleCliTyped DEF Sending
<1>3. {"collect", "reply", "seen", "cleanup", "ack", "acknowledge"} \cap Sending = {}
  BY DEF Sending
<1>4. ASSUME StartTake \/ ReadOutbox \/ CheckSeen \/ Cleanup \/ PublishAcks
      PROVE  cli'.at \notin Sending
  <2>1. cli'.at \in {"collect", "reply", "cleanup", "acknowledge"}
    BY <1>1, <1>2, <1>4 DEF StartTake, ReadOutbox, CheckSeen, Cleanup, PublishAcks, CliStates
  <2> QED
    BY <1>3, <2>1
<1>5. ASSUME (\E answer \in {"ok", "failed"} : ReportSend(answer)) \/ TakeFails
                \/ TakeDone \/ CliCrash
      PROVE  cli'.at \notin Sending
  BY <1>2, <1>5 DEF ReportSend, TakeFails, TakeDone, CliCrash
<1>6. ASSUME \E t \in Tasks : VerifyReply(t) PROVE cli'.at \notin Sending
  <2>1. /\ cli.at = "reply"
        /\ \/ \E t : cli' = [cli EXCEPT !.at = "seen", !.task = t]
           \/ \E batch : cli' = [cli EXCEPT !.batch = batch, !.dirty = TRUE]
    BY <1>6 DEF VerifyReply
  <2>2. cli'.at \in {"seen", "reply"}
    BY <1>1, <2>1 DEF CliStates
  <2> QED
    BY <1>3, <2>2
<1>7. ASSUME Display PROVE cli'.at \notin Sending
  <2>1. cli' = IdleCli \/ cli' = [cli EXCEPT !.at = "ack"]
    BY <1>7 DEF Display
  <2> QED
    BY <1>1, <1>2, <1>3, <2>1 DEF CliStates
<1>8. ASSUME \E reply \in cli.accepted : Ack(reply) PROVE cli'.at \notin Sending
  BY <1>1, <1>3, <1>8 DEF Ack, CliStates
<1>9. cli'.at \in Sending => (\E t \in Tasks : StartSend(t)) \/ WriteTask
  BY <1>4, <1>5, <1>6, <1>7, <1>8 DEF CliOwn, CliStep
<1>10. \A t \in Tasks : StartSend(t) =>
          /\ cli'.at = "recover" /\ cli'.task = t /\ report[t] = "none"
          /\ report' = [report EXCEPT ![t] = "sending"]
  BY <1>2 DEF StartSend, CliStates
<1>11. WriteTask => /\ cli'.at = "publish" /\ cli'.task = cli.task
                    /\ cli.at = "recover" /\ report' = report
  BY <1>1 DEF WriteTask, CliStates
<1>12. \A t \in Tasks : report'[t] = "none" => report[t] = "none"
  <2>1. \/ report' = report
        \/ \E t, answer : /\ answer # "none"
                          /\ report' = [report EXCEPT ![t] = answer]
    BY CliTables DEF StartSend, ReportSend
  <2> QED
    BY <1>1, <2>1
<1> QED
  BY <1>9, <1>10, <1>11, <1>12

\* A task that is not sent yet was not sent before.
LEMMA UnsentBefore ==
    ASSUME TypesInv, OnceInv, CliOwn, NEW t \in Tasks, Unsent(t)'
    PROVE  Unsent(t) /\ ~ (WriteTask /\ cli.task = t)
<1>1. report'[t] = "none" \/ (cli'.at = "recover" /\ cli'.task = t)
  BY DEF Unsent
<1>2. CASE report'[t] = "none"
  <2>1. report[t] = "none"
    BY <1>2, SendingSteps
  <2>2. WriteTask => report[cli.task] = "sending"
    BY SendingSteps DEF OnceInv, Sending
  <2> QED
    BY <2>1, <2>2 DEF Unsent
<1>3. CASE cli'.at = "recover" /\ cli'.task = t
  <2>1. cli'.at \in Sending /\ cli'.at # "publish"
    BY <1>3 DEF Sending
  <2>2. ~ WriteTask
    BY <2>1, SendingSteps
  <2>3. PICK s \in Tasks : StartSend(s)
    BY <2>1, <2>2, SendingSteps
  <2>4. cli'.task = s /\ report[s] = "none"
    BY <2>3, SendingSteps
  <2> QED
    BY <1>3, <2>2, <2>4 DEF Unsent
<1> QED
  BY <1>1, <1>2, <1>3

\* The first copy of a task says when it expires.
LEMMA SentOnce ==
    ASSUME TypesInv, OnceInv, WriteTask, CliOwn, NEW t \in Tasks, t = cli.task
    PROVE  \E e \in Expiries : OneExpiry(t, e)'
<1>1. PICK e \in Expiries : e = clock + Ttl
  BY WriteTaskFacts
<1> DEFINE S == ExpiringAt(e)
<1>2. PICK file \in Envelopes :
         /\ file.expires = e
         /\ \A n \in Nodes, path \in Paths :
               work'[n][path] = IF n = Sender /\ path = <<"inbox", t>>
                                THEN file ELSE work[n][path]
  BY <1>1, WriteTaskFacts
<1>3. NothingOf(t)
  BY SendingSteps DEF OnceInv, Unsent
<1>4. {Absent} \subseteq S /\ file \in S
  <2>1. Absent \in Blobs /\ file \in Blobs
    BY RelayConstants DEF Blobs
  <2> QED
    BY <1>2, <2>1 DEF ExpiringAt
<1>5. <<"inbox", t>> \in Paths /\ <<"badtask", t>> \in Paths
  BY TaskPaths
<1> HIDE DEF S
<1>6. CopiesAmong(<<"inbox", t>>, S) /\ CopiesAmong(<<"badtask", t>>, S)
  BY <1>3, <1>4, CopiesWiden DEF NothingOf, TaskFiles
<1>7. \A n \in Nodes : work'[n][<<"inbox", t>>] \in S /\ work'[n][<<"badtask", t>>] \in S
  BY <1>2, <1>4, <1>5, <1>6 DEF CopiesAmong
<1>8. CopiesAmong(<<"inbox", t>>, S)' /\ CopiesAmong(<<"badtask", t>>, S)'
  BY <1>5, <1>6, <1>7, OwnCopies
<1>9. TaskFiles(t, S)'
  BY <1>8 DEF TaskFiles
<1>10. UNCHANGED <<clock, worker, outcomes, invoked, timely>>
  BY CliFrame
<1>11. /\ t \notin DOMAIN worker'.batch /\ t \notin DOMAIN outcomes'
       /\ timely'[t] = 0
  BY <1>3, <1>10 DEF NothingOf
<1>12. TaskFiles(t, ExpiringAt(e))'
  BY <1>9 DEF S
<1> QED
  BY <1>11, <1>12 DEF OneExpiry

LEMMA ClockNat ==
    ASSUME TypesInv
    PROVE  clock \in Nat /\ Expiries \subseteq Nat
<1>1. Ttl \in Nat /\ MaxClock \in Nat
  BY RelayConstants
<1>2. clock \in 0 .. MaxClock
  BY DEF TypesInv, OthersTyped
<1> QED
  BY <1>1, <1>2 DEF Expiries

\* What of a task survives a step that does not send it.
LEMMA FilesKept ==
    ASSUME TypesInv, GitMoves \/ CliOwn \/ WorkerOwn, NEW t \in Tasks, NEW S, Absent \in S,
           TaskFiles(t, S), CliOwn => ~ (WriteTask /\ cli.task = t)
    PROVE  TaskFiles(t, S)'
<1>1. CASE GitMoves
  <2>1. <<"inbox", t>> \in Paths /\ <<"badtask", t>> \in Paths /\ GitInv
    BY TaskPaths DEF TypesInv
  <2>2. CopiesAmong(<<"inbox", t>>, S) /\ CopiesAmong(<<"badtask", t>>, S)
    BY DEF TaskFiles
  <2>3. CopiesAmong(<<"inbox", t>>, S)'
    BY <1>1, <2>1, <2>2, FilesOnlyMove
  <2>4. CopiesAmong(<<"badtask", t>>, S)'
    BY <1>1, <2>1, <2>2, FilesOnlyMove
  <2> QED
    BY <2>3, <2>4 DEF TaskFiles
<1>2. CASE CliOwn
  BY <1>2, TaskFilesKept
<1>3. CASE WorkerOwn
  <2>1. ~ WriteTask
    <3>1. cli' = cli /\ cli \in CliStates
      BY <1>3, WorkerFrame DEF TypesInv, CliTyped
    <3> QED
      BY <3>1 DEF WriteTask, CliStates
  <2> QED
    BY <1>3, <2>1, TaskFilesKept
<1> QED
  BY <1>1, <1>2, <1>3

LEMMA NothingKept ==
    ASSUME TypesInv, (GitMoves /\ UNCHANGED relayVars) \/ CliOwn \/ WorkerOwn,
           NEW t \in Tasks, NothingOf(t), CliOwn => ~ (WriteTask /\ cli.task = t)
    PROVE  NothingOf(t)'
<1>1. TaskFiles(t, {Absent})'
  BY FilesKept DEF NothingOf
<1>2. /\ t \notin DOMAIN worker.batch /\ t \notin DOMAIN outcomes /\ timely[t] = 0
      /\ TaskFiles(t, {Absent})
  BY DEF NothingOf
<1>3. CASE UNCHANGED <<worker, outcomes, timely>>
  BY <1>1, <1>2, <1>3 DEF NothingOf
<1>4. CASE WorkerOwn
  <2>1. work[Receiver][<<"inbox", t>>] = Absent
    BY <1>2, Places DEF TaskFiles, CopiesAmong
  <2>2. t \notin DOMAIN worker'.batch
    BY <1>2, <1>4, <2>1, BatchSteps
  <2>3. t \notin DOMAIN outcomes'
    BY <1>2, <1>4, RowSteps
  <2>4. timely'[t] = 0
    <3>1. timely \in [Tasks -> Nat]
      BY DEF TypesInv, OthersTyped
    <3>2. ClaimNew => worker.task # t
      BY <1>2, NewClaim
    <3> QED
      BY <1>2, <1>4, <3>1, <3>2, CounterSteps
  <2> QED
    BY <1>1, <2>2, <2>3, <2>4 DEF NothingOf
<1>5. UNCHANGED <<worker, outcomes, timely>> \/ WorkerOwn
  BY CliFrame DEF relayVars
<1> QED
  BY <1>3, <1>4, <1>5

LEMMA ExpiryKept ==
    ASSUME TypesInv, (GitMoves /\ UNCHANGED relayVars) \/ CliOwn \/ WorkerOwn,
           NEW t \in Tasks, NEW e \in Expiries, OneExpiry(t, e),
           CliOwn => ~ (WriteTask /\ cli.task = t)
    PROVE  OneExpiry(t, e)'
<1>1. TaskFiles(t, ExpiringAt(e))'
  <2>1. Absent \in ExpiringAt(e) /\ TaskFiles(t, ExpiringAt(e))
    BY DEF OneExpiry, ExpiringAt, Blobs
  <2>2. TaskFiles(t, ExpiringAt(e)) /\ (CliOwn => ~ (WriteTask /\ cli.task = t))
    BY <2>1
  <2> DEFINE S == ExpiringAt(e)
  <2>3. Absent \in S /\ TaskFiles(t, S)
    BY <2>1
  <2> HIDE DEF S
  <2>4. TaskFiles(t, S)'
    BY <2>3, FilesKept
  <2> QED
    BY <2>4 DEF S
<1>2. /\ t \in DOMAIN worker.batch => worker.batch[t].expires = e
      /\ t \in DOMAIN outcomes => outcomes[t].expires = e
      /\ timely[t] > 0 => clock >= e \/ t \in DOMAIN outcomes
      /\ timely[t] <= 1
      /\ TaskFiles(t, ExpiringAt(e))
  BY DEF OneExpiry
<1>3. CASE UNCHANGED <<clock, worker, outcomes, timely>>
  BY <1>1, <1>2, <1>3 DEF OneExpiry
<1>4. CASE WorkerOwn
  <2>1. clock' = clock /\ clock \in Nat /\ e \in Nat
        /\ timely \in [Tasks -> Nat] /\ outcomes \in Tables
    BY <1>4, ClockNat, WorkerFrame DEF TypesInv, OthersTyped
  <2>2. t \in DOMAIN worker'.batch => worker'.batch[t].expires = e
    <3> SUFFICES ASSUME t \in DOMAIN worker'.batch PROVE worker'.batch[t].expires = e
      OBVIOUS
    <3>1. work[Receiver][<<"inbox", t>>] \in ExpiringAt(e)
      BY <1>2, Places DEF TaskFiles, CopiesAmong
    <3>2. work[Receiver][<<"inbox", t>>] = Absent
          \/ work[Receiver][<<"inbox", t>>].expires = e
      BY <3>1 DEF ExpiringAt
    <3> QED
      BY <1>2, <1>4, <3>2, BatchSteps
  <2>3. t \in DOMAIN outcomes' => outcomes'[t].expires = e
    BY <1>2, <1>4, RowSteps
  <2>4. t \in DOMAIN outcomes => t \in DOMAIN outcomes' \/ clock >= e
    BY <1>2, <1>4, <2>1, RowSteps
  <2>5. CASE timely'[t] = timely[t]
    BY <1>1, <1>2, <2>1, <2>2, <2>3, <2>4, <2>5 DEF OneExpiry
  <2>6. CASE /\ ClaimNew /\ worker.task = t
             /\ clock < worker.batch[t].expires
             /\ timely'[t] = timely[t] + 1
    <3>1. /\ t \in DOMAIN worker.batch /\ t \in DOMAIN outcomes'
          /\ t \notin DOMAIN LiveRows(clock)
      BY <2>6, NewClaim
    <3>2. clock < e
      BY <1>2, <2>6, <3>1
    <3>3. t \notin DOMAIN outcomes
      BY <1>2, <2>1, <3>1, <3>2, LiveFacts
    <3>4. timely[t] \in Nat
      BY <2>1
    <3>5. timely'[t] <= 1
      BY <1>2, <2>1, <2>6, <3>2, <3>3, <3>4
    <3> QED
      BY <1>1, <2>2, <2>3, <3>1, <3>5 DEF OneExpiry
  <2>7. \/ timely'[t] = timely[t]
        \/ /\ ClaimNew /\ worker.task = t
           /\ clock < worker.batch[t].expires
           /\ timely'[t] = timely[t] + 1
    <3>1. \/ timely' = timely
          \/ /\ ClaimNew /\ clock < worker.batch[worker.task].expires
             /\ timely' = [timely EXCEPT ![worker.task] = @ + 1]
      BY <1>4, CounterSteps
    <3> QED
      BY <2>1, <3>1
  <2> QED
    BY <2>5, <2>6, <2>7
<1>5. UNCHANGED <<clock, worker, outcomes, timely>> \/ WorkerOwn
  BY CliFrame DEF relayVars
<1> QED
  BY <1>3, <1>4, <1>5

LEMMA SendingKept ==
    ASSUME TypesInv, OnceInv, CliOwn, cli'.at \in Sending
    PROVE  report'[cli'.task] = "sending"
<1>1. report \in [Tasks -> {"none", "sending", "queued", "not queued"}]
  BY DEF TypesInv, OthersTyped
<1>2. CASE WriteTask
  BY <1>2, SendingSteps DEF OnceInv, Sending
<1>3. ASSUME NEW t \in Tasks, StartSend(t) PROVE report'[cli'.task] = "sending"
  BY <1>1, <1>3, SendingSteps
<1> QED
  BY <1>2, <1>3, SendingSteps

LEMMA OnceKept ==
    ASSUME TypesInv, OnceInv, [RelayNext]_vars
    PROVE  OnceInv'
<1>1. /\ cli.at \in Sending => report[cli.task] = "sending"
      /\ \A t \in Tasks : Unsent(t) => NothingOf(t)
      /\ \A t \in Tasks : \E e \in Expiries : OneExpiry(t, e)
  BY DEF OnceInv
<1>2. CASE CliOwn
  <2>1. cli'.at \in Sending => report'[cli'.task] = "sending"
    BY <1>2, SendingKept
  <2>2. ASSUME NEW t \in Tasks, Unsent(t)' PROVE NothingOf(t)'
    BY <1>1, <1>2, <2>2, UnsentBefore, NothingKept
  <2>3. ASSUME NEW t \in Tasks PROVE (\E e \in Expiries : OneExpiry(t, e))'
    <3>1. CASE WriteTask /\ cli.task = t
      BY <1>2, <3>1, SentOnce
    <3>2. CASE ~ (WriteTask /\ cli.task = t)
      BY <1>1, <1>2, <3>2, ExpiryKept
    <3> QED
      BY <3>1, <3>2
  <2> QED
    BY <2>1, <2>2, <2>3 DEF OnceInv
<1>3. CASE (GitMoves /\ UNCHANGED relayVars) \/ WorkerOwn
  <2>1. cli' = cli /\ report' = report
    BY <1>3, WorkerFrame DEF relayVars
  <2>2. ~ CliOwn \/ (UNCHANGED cli /\ cli \in CliStates)
    BY <2>1 DEF TypesInv, CliTyped
  <2>3. ~ WriteTask
    BY <2>1, <2>2 DEF WriteTask, CliStates, TypesInv, CliTyped
  <2>4. ASSUME NEW t \in Tasks, Unsent(t)' PROVE NothingOf(t)'
    <3>1. Unsent(t)
      BY <2>1, <2>4 DEF Unsent
    <3> QED
      BY <1>1, <1>3, <2>3, <3>1, NothingKept
  <2>5. ASSUME NEW t \in Tasks PROVE (\E e \in Expiries : OneExpiry(t, e))'
    BY <1>1, <1>3, <2>3, ExpiryKept
  <2> QED
    BY <1>1, <2>1, <2>4, <2>5 DEF OnceInv
<1>4. CASE Tick \/ UNCHANGED vars
  <2>1. /\ UNCHANGED gitVars
        /\ UNCHANGED <<cli, worker, outcomes, acked, report, shown, invoked, timely>>
        /\ clock' = clock \/ clock' = clock + 1
    BY <1>4 DEF Tick, vars, relayVars
  <2>2. UNCHANGED <<remote, head, work, sync>>
    BY <2>1 DEF gitVars
  <2>3. \A t \in Tasks : \A S : TaskFiles(t, S) => TaskFiles(t, S)'
    BY <2>2 DEF TaskFiles, CopiesAmong
  <2>4. ASSUME NEW t \in Tasks PROVE (Unsent(t) => NothingOf(t))'
    BY <1>1, <2>1, <2>3 DEF Unsent, NothingOf
  <2>5. ASSUME NEW t \in Tasks PROVE (\E e \in Expiries : OneExpiry(t, e))'
    <3>1. PICK e \in Expiries : OneExpiry(t, e)
      BY <1>1
    <3>2. TaskFiles(t, ExpiringAt(e))'
      BY <2>3, <3>1 DEF OneExpiry
    <3>3. clock \in Nat /\ e \in Nat
      BY ClockNat
    <3>4. clock >= e => clock' >= e
      BY <2>1, <3>3
    <3> QED
      BY <2>1, <3>1, <3>2, <3>4 DEF OneExpiry
  <2> QED
    BY <1>1, <2>1, <2>4, <2>5 DEF OnceInv
<1> QED
  BY <1>2, <1>3, <1>4, StepKinds

LEMMA OnceStarts == Init => OnceInv
<1> SUFFICES ASSUME Init PROVE OnceInv
  OBVIOUS
<1>1. cli.at = "idle" /\ worker.batch = NoBatch /\ outcomes = <<>>
      /\ timely = [t \in Tasks |-> 0]
  BY IdleCliTyped, IdleWorkerTyped DEF Init
<1>2. cli.at \notin Sending
  BY <1>1 DEF Sending
<1>3. ASSUME NEW t \in Tasks, NEW S, Absent \in S PROVE TaskFiles(t, S)
  <2>1. <<"inbox", t>> \in Paths /\ <<"badtask", t>> \in Paths
    BY TaskPaths
  <2>2. \A path : InBranch(<<>>, path, S)
    BY EmptyIn
  <2>3. /\ remote = <<>> /\ head = [n \in Nodes |-> <<>>]
        /\ work = [n \in Nodes |-> EmptyTree] /\ sync = [p \in Procs |-> NoSync]
    BY DEF Init, InitGit
  <2> QED
    BY <1>3, <2>1, <2>2, <2>3 DEF TaskFiles, CopiesAmong, EmptyTree, NoSync
<1>4. ASSUME NEW t \in Tasks PROVE NothingOf(t)
  BY <1>1, <1>3, EmptyBatch DEF NothingOf
<1>5. ASSUME NEW t \in Tasks PROVE \E e \in Expiries : OneExpiry(t, e)
  <2>1. 0 \in Expiries
    BY RelayConstants DEF Expiries
  <2>2. Absent \in ExpiringAt(0)
    BY DEF ExpiringAt, Blobs
  <2>3. OneExpiry(t, 0)
    BY <1>1, <1>3, <2>2, EmptyBatch DEF OneExpiry
  <2> QED
    BY <2>1, <2>3
<1> QED
  BY <1>2, <1>4, <1>5 DEF OnceInv

\* However many crashes, failed syncs and stale copies of a task there are, its
\* claim is durable before the brain runs: while it is valid it is claimed as new
\* at most once, because the row of the first claim lives as long as every copy.
THEOREM ClaimedOnceWhileValid == RelaySpec => []OnceWhileValid
<1>1. OnceInv => OnceWhileValid
  BY DEF OnceInv, OneExpiry, OnceWhileValid
<1>2. RelaySpec => []OnceInv
  BY OnceStarts, OnceKept, TypesInvariant, PTL DEF RelaySpec
<1> QED
  BY <1>1, <1>2, PTL

-----------------------------------------------------------------------------
\* Outcomes and acknowledgements are final.

\* The task in hand is claimed while its brain runs.
ClaimedInHand == worker.at \in {"run", "complete"} =>
    worker.task \in DOMAIN outcomes /\ outcomes[worker.task].state = "processing"

\* What is being collected was not acknowledged while it is valid.
NotAckedBefore == cli.at \in {"collect", "reply", "seen", "cleanup"} =>
    \A reply \in cli.accepted : reply \in acked => reply.envelope.expires <= clock

LEMMA ClaimKept ==
    ASSUME TypesInv, ClaimedInHand, WorkerOwn
    PROVE  ClaimedInHand'
<1>1. worker \in WorkerStates /\ outcomes \in Tables
  BY DEF TypesInv, WorkerTyped, OthersTyped
<1>2. IdleWorker.at = "idle" /\ IdleWorker \in WorkerStates
  BY IdleWorkerTyped
<1>3. ASSUME worker'.at \notin {"run", "complete"} PROVE ClaimedInHand'
  BY <1>3 DEF ClaimedInHand
<1>4. CASE ClaimInterrupted
  <2>1. /\ outcomes' = LiveRows(clock) /\ worker.task \in DOMAIN LiveRows(clock)
        /\ LiveRows(clock)[worker.task].state = "processing"
        /\ \E reply : worker' = [worker EXCEPT !.at = "complete", !.reply = reply]
    BY <1>4 DEF ClaimInterrupted
  <2>2. worker'.task = worker.task
    BY <1>1, <2>1 DEF WorkerStates
  <2> QED
    BY <2>1, <2>2 DEF ClaimedInHand
<1>5. CASE ClaimNew
  <2>1. worker.task \in DOMAIN outcomes' /\ outcomes'[worker.task].state = "processing"
    BY <1>5, NewClaim
  <2>2. worker'.task = worker.task
    BY <1>1, <1>5 DEF ClaimNew, WorkerStates
  <2> QED
    BY <2>1, <2>2 DEF ClaimedInHand
<1>6. CASE RunBrain
  <2>1. worker.at = "run" /\ outcomes' = outcomes
    BY <1>6 DEF RunBrain
  <2>2. worker'.task = worker.task
    BY <1>1, <1>6 DEF RunBrain, WorkerStates
  <2> QED
    BY <2>1, <2>2 DEF ClaimedInHand
<1>7. ASSUME \E t \in Tasks : VerifyTask(t) PROVE worker'.at \notin {"run", "complete"}
  <2>1. /\ worker.at = "next"
        /\ \/ \E t : worker' = [worker EXCEPT !.at = "claim", !.task = t]
           \/ \E batch : worker' = [worker EXCEPT !.batch = batch, !.dirty = TRUE]
    BY <1>7 DEF VerifyTask
  <2>2. worker'.at \in {"claim", "next"}
    BY <1>1, <2>1 DEF WorkerStates
  <2> QED
    BY <2>2
<1>8. ASSUME StartDrain \/ ReadInbox \/ ClaimCompleted \/ Complete \/ WriteReply \/ RemoveTask
      PROVE  worker'.at \notin {"run", "complete"}
  <2>1. worker'.at \in {"recover", "next", "write", "unlink"}
    BY <1>1, <1>2, <1>8 DEF StartDrain, ReadInbox, ClaimCompleted, Complete, WriteReply,
       RemoveTask, WorkerStates
  <2> QED
    BY <2>1
<1>9. ASSUME ClaimRefused \/ Flush \/ DrainEnds \/ WorkerCrash
      PROVE  worker'.at \notin {"run", "complete"}
  <2>1. worker' = IdleWorker \/ worker' = [worker EXCEPT !.at = "flush"]
    BY <1>9 DEF ClaimRefused, Flush, DrainEnds, WorkerCrash
  <2>2. worker'.at \in {"idle", "flush"}
    BY <1>1, <1>2, <2>1 DEF WorkerStates
  <2> QED
    BY <2>2
<1> QED
  BY <1>3, <1>4, <1>5, <1>6, <1>7, <1>8, <1>9 DEF WorkerOwn, WorkerStep

LEMMA CollectKept ==
    ASSUME TypesInv, NotAckedBefore, CliOwn
    PROVE  NotAckedBefore'
<1>1. /\ cli \in CliStates /\ cli.accepted \subseteq Replies /\ clock' = clock
      /\ clock \in Nat
  BY ClockNat, CliFrame DEF TypesInv, CliTyped, CliStates
<1> DEFINE Collecting == {"collect", "reply", "seen", "cleanup"}
<1>2. ASSUME cli'.at \notin Collecting PROVE NotAckedBefore'
  BY <1>2 DEF NotAckedBefore
<1>3. ASSUME cli.at \in Collecting, cli'.accepted = cli.accepted, acked' = acked
      PROVE  NotAckedBefore'
  BY <1>1, <1>3 DEF NotAckedBefore
<1>4. IdleCli \in CliStates /\ IdleCli.at = "idle" /\ IdleCli.accepted = {}
  BY IdleCliTyped
<1>5. CASE StartTake
  <2>1. cli'.accepted = {}
    BY <1>4, <1>5 DEF StartTake, CliStates
  <2> QED
    BY <2>1 DEF NotAckedBefore
<1>6. CASE ReadOutbox \/ Cleanup
  <2>1. cli'.accepted = cli.accepted /\ cli.at \in Collecting /\ acked' = acked
    BY <1>1, <1>6 DEF ReadOutbox, Cleanup, CliStates
  <2> QED
    BY <1>3, <2>1
<1>7. ASSUME NEW t \in Tasks, VerifyReply(t) PROVE NotAckedBefore'
  <2>1. cli'.accepted = cli.accepted /\ cli.at \in Collecting /\ acked' = acked
    BY <1>1, <1>7 DEF VerifyReply, CliStates
  <2> QED
    BY <1>3, <2>1
<1>8. CASE CheckSeen
  <2> DEFINE fresh == [task |-> cli.task, envelope |-> cli.batch[cli.task]]
  <2>1. /\ cli.at \in Collecting /\ acked' = acked
        /\ \/ cli'.accepted = cli.accepted
           \/ cli'.accepted = cli.accepted \cup {fresh} /\ ~ Seen(fresh, clock)
    BY <1>1, <1>8 DEF CheckSeen, CliStates
  <2>2. cli.task \in DOMAIN cli.batch /\ cli.batch \in Batches
    BY <1>8 DEF CheckSeen, TypesInv, CliTyped, CliStates
  <2>3. fresh.envelope \in Envelopes
    BY <2>2, BatchFacts
  <2>4. fresh.envelope.expires \in Nat
    BY <2>3, ClockNat DEF Envelopes, Expiries
  <2> HIDE DEF fresh
  <2>5. ASSUME ~ Seen(fresh, clock), fresh \in acked PROVE fresh.envelope.expires <= clock
    BY <1>1, <2>4, <2>5 DEF Seen
  <2> QED
    BY <1>1, <2>1, <2>5 DEF NotAckedBefore
<1>9. ASSUME StartTake \/ (\E t \in Tasks : StartSend(t)) \/ WriteTask \/ PublishAcks
      PROVE  cli'.at \in {"collect", "recover", "publish", "acknowledge"}
  BY <1>1, <1>4, <1>9 DEF StartTake, StartSend, WriteTask, PublishAcks, CliStates
<1>10. ASSUME (\E answer \in {"ok", "failed"} : ReportSend(answer)) \/ TakeFails
              \/ TakeDone \/ CliCrash
       PROVE  cli'.at = "idle"
  BY <1>4, <1>10 DEF ReportSend, TakeFails, TakeDone, CliCrash
<1>11. ASSUME Display PROVE cli'.at \in {"idle", "ack"}
  <2>1. cli' = IdleCli \/ cli' = [cli EXCEPT !.at = "ack"]
    BY <1>11 DEF Display
  <2> QED
    BY <1>1, <1>4, <2>1 DEF CliStates
<1>12. ASSUME \E reply \in cli.accepted : Ack(reply) PROVE cli'.at = "ack"
  BY <1>1, <1>12 DEF Ack, CliStates
<1>13. {"recover", "publish", "acknowledge", "idle", "ack"} \cap Collecting = {}
  OBVIOUS
<1> HIDE DEF Collecting
<1>14. CASE (\E t \in Tasks : StartSend(t)) \/ WriteTask \/ PublishAcks
  <2>1. cli'.at # "collect"
    BY <1>1, <1>4, <1>14 DEF StartSend, WriteTask, PublishAcks, CliStates
  <2> QED
    BY <1>2, <1>9, <1>13, <1>14, <2>1
<1> QED
  BY <1>2, <1>5, <1>6, <1>7, <1>8, <1>10, <1>11, <1>12, <1>13, <1>14 DEF CliOwn, CliStep

LEMMA FinalKept ==
    ASSUME TypesInv, FinalInv, [RelayNext]_vars
    PROVE  FinalInv'
<1>1. ClaimedInHand /\ NotAckedBefore
  BY DEF FinalInv, ClaimedInHand, NotAckedBefore
<1>2. ClaimedInHand'
  <2>1. CASE WorkerOwn
    BY <1>1, <2>1, ClaimKept
  <2>2. CASE UNCHANGED <<worker, outcomes>>
    BY <1>1, <2>2 DEF ClaimedInHand
  <2> QED
    BY <2>1, <2>2, StepKinds, CliFrame DEF relayVars, vars, Tick
<1>3. NotAckedBefore'
  <2>1. CASE CliOwn
    BY <1>1, <2>1, CollectKept
  <2>2. CASE UNCHANGED <<cli, acked>> /\ (clock' = clock \/ clock' = clock + 1)
    <3>1. clock \in Nat /\ \A reply \in cli.accepted : reply.envelope.expires \in Nat
      <4>1. \A reply \in cli.accepted : reply.envelope \in Envelopes
        BY DEF TypesInv, CliTyped, CliStates, Replies
      <4> QED
        BY <4>1, ClockNat DEF Envelopes, Expiries
    <3> QED
      BY <1>1, <2>2, <3>1 DEF NotAckedBefore
  <2> QED
    BY <2>1, <2>2, StepKinds, WorkerFrame DEF relayVars, vars, Tick
<1> QED
  BY <1>2, <1>3 DEF FinalInv, ClaimedInHand, NotAckedBefore

LEMMA FinalStarts == Init => FinalInv
BY IdleCliTyped, IdleWorkerTyped DEF Init, FinalInv

\* An outcome that is stored is what the task's outcome stays while it is valid,
\* whatever else the worker drops, claims and completes; and an answer that was
\* acknowledged is not shown again while it is valid.
THEOREM FinalOnceDecided == RelaySpec => AnswersAreFinal
<1> DEFINE Kept == \A t \in DOMAIN outcomes :
              outcomes[t].state = "completed" /\ outcomes[t].expires > clock =>
                 t \in DOMAIN outcomes' /\ outcomes'[t] = outcomes[t]
           Unseen == cli.at \in {"reply", "cleanup"} /\ cli'.at = "ack" =>
              \A reply \in cli.accepted : reply \in acked => reply.envelope.expires <= clock
<1>1. RelaySpec => []FinalInv
  BY FinalStarts, FinalKept, TypesInvariant, PTL DEF RelaySpec
<1>2. ASSUME TypesInv, FinalInv, [RelayNext]_vars PROVE Kept
  <2>1. CASE WorkerOwn
    <3> SUFFICES ASSUME NEW t \in DOMAIN outcomes, outcomes[t].state = "completed",
                        outcomes[t].expires > clock
                 PROVE  t \in DOMAIN outcomes' /\ outcomes'[t] = outcomes[t]
      OBVIOUS
    <3>1. t \in DOMAIN outcomes'
      BY <1>2, <2>1, RowSteps
    <3>2. outcomes'[t] = outcomes[t] \/ ((ClaimNew \/ Complete) /\ t = worker.task)
      BY <1>2, <2>1, <3>1, RowSteps
    <3>3. ~ (ClaimNew /\ t = worker.task)
      BY <1>2, NewClaim, LiveFacts DEF TypesInv, OthersTyped
    <3>4. ~ (Complete /\ t = worker.task)
      BY <1>2 DEF Complete, FinalInv
    <3> QED
      BY <3>1, <3>2, <3>3, <3>4
  <2>2. CASE outcomes' = outcomes
    BY <2>2
  <2> QED
    BY <1>2, <2>1, <2>2, StepKinds, CliFrame DEF relayVars, vars, Tick
<1>3. ASSUME FinalInv PROVE Unseen
  BY <1>3 DEF FinalInv
<1>4. TypesInv /\ FinalInv /\ [RelayNext]_vars => [Kept]_vars /\ [Unseen]_vars
  BY <1>2, <1>3
<1>5. RelaySpec => [][Kept]_vars /\ [][Unseen]_vars
  BY <1>1, <1>4, TypesInvariant, PTL DEF RelaySpec
<1> QED
  BY <1>5 DEF AnswersAreFinal, OutcomeIsFinal, AckedNotShownAgain


-----------------------------------------------------------------------------
\* Every answer is the answer of a run.

\* Where the reply of a worker that has one comes from.
LEMMA ReplySteps ==
    ASSUME TypesInv, WorkerOwn, worker'.at \in {"complete", "write"}
    PROVE  /\ worker'.task = worker.task
           /\ \/ RunBrain
              \/ ClaimInterrupted /\ worker'.reply.kind = "notice"
              \/ Complete /\ worker'.reply = worker.reply
              \/ /\ worker.task \in DOMAIN outcomes
                 /\ outcomes[worker.task].state = "completed"
                 /\ worker'.reply = outcomes[worker.task].reply
<1>1. worker \in WorkerStates /\ outcomes \in Tables
  BY DEF TypesInv, WorkerTyped, OthersTyped
<1>2. IdleWorker.at = "idle" /\ IdleWorker \in WorkerStates
  BY IdleWorkerTyped
<1>3. CASE ClaimInterrupted
  BY <1>1, <1>3 DEF ClaimInterrupted, WorkerStates
<1>4. CASE ClaimCompleted
  <2>1. /\ worker.task \in DOMAIN LiveRows(clock)
        /\ LiveRows(clock)[worker.task].state = "completed"
        /\ worker' = [worker EXCEPT !.at = "write", !.reply = LiveRows(clock)[worker.task].reply]
    BY <1>4 DEF ClaimCompleted
  <2>2. /\ worker.task \in DOMAIN outcomes
        /\ LiveRows(clock)[worker.task] = outcomes[worker.task]
    BY <1>1, <2>1, LiveFacts
  <2> QED
    BY <1>1, <2>1, <2>2 DEF WorkerStates
<1>5. CASE RunBrain
  BY <1>1, <1>5 DEF RunBrain, WorkerStates
<1>6. CASE Complete
  BY <1>1, <1>6 DEF Complete, WorkerStates
<1>7. ASSUME \E t \in Tasks : VerifyTask(t) PROVE FALSE
  <2>1. /\ worker.at = "next"
        /\ \/ \E t : worker' = [worker EXCEPT !.at = "claim", !.task = t]
           \/ \E batch : worker' = [worker EXCEPT !.batch = batch, !.dirty = TRUE]
    BY <1>7 DEF VerifyTask
  <2>2. worker'.at \in {"claim", "next"}
    BY <1>1, <2>1 DEF WorkerStates
  <2> QED
    BY <2>2
<1>8. ASSUME StartDrain \/ ReadInbox \/ ClaimNew \/ WriteReply \/ RemoveTask PROVE FALSE
  <2>1. worker'.at \in {"recover", "next", "run", "unlink"}
    BY <1>1, <1>2, <1>8 DEF StartDrain, ReadInbox, ClaimNew, WriteReply, RemoveTask,
       WorkerStates
  <2> QED
    BY <2>1
<1>9. ASSUME ClaimRefused \/ Flush \/ DrainEnds \/ WorkerCrash PROVE FALSE
  <2>1. worker' = IdleWorker \/ worker' = [worker EXCEPT !.at = "flush"]
    BY <1>9 DEF ClaimRefused, Flush, DrainEnds, WorkerCrash
  <2>2. worker'.at \in {"idle", "flush"}
    BY <1>1, <1>2, <2>1 DEF WorkerStates
  <2> QED
    BY <2>2
<1> QED
  BY <1>3, <1>4, <1>5, <1>6, <1>7, <1>8, <1>9 DEF WorkerOwn, WorkerStep

\* What the sender holds of an answer comes from its outbox.
LEMMA CliBatchSteps ==
    ASSUME TypesInv, CliOwn, NEW t \in DOMAIN cli'.batch
    PROVE  \/ t \in DOMAIN cli.batch /\ cli'.batch[t] = cli.batch[t]
           \/ /\ work[Sender][<<"outbox", t>>] # Absent
              /\ cli'.batch[t] = work[Sender][<<"outbox", t>>]
<1>1. cli \in CliStates /\ cli.batch \in Batches
  BY DEF TypesInv, CliTyped, CliStates
<1>2. IdleCli \in CliStates /\ IdleCli.batch = NoBatch /\ DOMAIN NoBatch = {}
  BY IdleCliTyped, EmptyBatch
<1>3. ASSUME cli'.batch = NoBatch PROVE FALSE
  BY <1>2, <1>3
<1>4. ASSUME NEW s, cli'.batch = Drop(cli.batch, s)
      PROVE  t \in DOMAIN cli.batch /\ cli'.batch[t] = cli.batch[t]
  <2>1. /\ DOMAIN Drop(cli.batch, s) = DOMAIN cli.batch \ {s}
        /\ \A r \in DOMAIN cli.batch \ {s} : Drop(cli.batch, s)[r] = cli.batch[r]
    BY <1>1, DropFacts
  <2> QED
    BY <1>4, <2>1
<1>5. ASSUME (\E s \in Tasks : StartSend(s)) \/ StartTake
             \/ (\E answer \in {"ok", "failed"} : ReportSend(answer)) \/ TakeFails
             \/ TakeDone \/ CliCrash
      PROVE  cli'.batch = NoBatch
  BY <1>2, <1>5 DEF StartSend, StartTake, ReportSend, TakeFails, TakeDone, CliCrash,
     CliStates
<1>6. CASE ReadOutbox
  <2>1. cli'.batch = ReadSlot(Sender, "outbox")
    BY <1>1, <1>6 DEF ReadOutbox, CliStates
  <2>2. Sender \in Nodes /\ "outbox" \in Slots /\ GitInv
    BY Places DEF TypesInv
  <2> QED
    BY <2>1, <2>2, ReadSlotFacts
<1>7. ASSUME NEW s \in Tasks, VerifyReply(s)
      PROVE  cli'.batch = cli.batch \/ cli'.batch = Drop(cli.batch, s)
  BY <1>1, <1>7 DEF VerifyReply, CliStates
<1>8. ASSUME CheckSeen
      PROVE  cli'.batch = Drop(cli.batch, cli.task)
  BY <1>1, <1>8 DEF CheckSeen, CliStates
<1>9. ASSUME WriteTask \/ Cleanup \/ PublishAcks \/ \E reply \in cli.accepted : Ack(reply)
      PROVE  cli'.batch = cli.batch
  BY <1>1, <1>9 DEF WriteTask, Cleanup, PublishAcks, Ack, CliStates
<1>10. ASSUME Display PROVE cli'.batch = cli.batch \/ cli'.batch = NoBatch
  <2>1. cli' = IdleCli \/ cli' = [cli EXCEPT !.at = "ack"]
    BY <1>10 DEF Display
  <2> QED
    BY <1>1, <1>2, <2>1 DEF CliStates
<1> QED
  BY <1>3, <1>4, <1>5, <1>6, <1>7, <1>8, <1>9, <1>10 DEF CliOwn, CliStep

\* A reply is accepted from the batch, and shown or acknowledged once accepted.
LEMMA ReplyTravels ==
    ASSUME TypesInv, CliOwn
    PROVE  /\ \A reply \in cli'.accepted :
                 \/ reply \in cli.accepted
                 \/ /\ reply.task \in DOMAIN cli.batch
                    /\ reply.envelope = cli.batch[reply.task]
           /\ shown' \subseteq shown \cup cli.accepted
           /\ acked' \subseteq acked \cup cli.accepted
<1>1. cli \in CliStates /\ cli.batch \in Batches
  BY DEF TypesInv, CliTyped, CliStates
<1>2. IdleCli \in CliStates /\ IdleCli.accepted = {}
  BY IdleCliTyped
<1>3. shown' \subseteq shown \cup cli.accepted
  BY CliTables
<1>4. acked' \subseteq acked \cup cli.accepted
  <2>1. ASSUME NEW reply \in cli.accepted, Ack(reply) PROVE acked' \subseteq acked \cup cli.accepted
    BY <2>1 DEF Ack
  <2> QED
    BY <2>1, CliTables
<1>5. CASE CheckSeen
  <2> DEFINE fresh == [task |-> cli.task, envelope |-> cli.batch[cli.task]]
  <2>1. cli'.accepted \subseteq cli.accepted \cup {fresh}
    BY <1>1, <1>5 DEF CheckSeen, CliStates
  <2>2. cli.task \in DOMAIN cli.batch
    BY <1>5 DEF CheckSeen, TypesInv, CliTyped
  <2> QED
    BY <1>3, <1>4, <2>1, <2>2
<1>6. ASSUME (\E s \in Tasks : StartSend(s)) \/ StartTake
             \/ (\E answer \in {"ok", "failed"} : ReportSend(answer)) \/ TakeFails
             \/ TakeDone \/ CliCrash
      PROVE  cli'.accepted = {}
  BY <1>2, <1>6 DEF StartSend, StartTake, ReportSend, TakeFails, TakeDone, CliCrash,
     CliStates
<1>7. ASSUME WriteTask \/ Cleanup \/ PublishAcks \/ ReadOutbox
      PROVE  cli'.accepted = cli.accepted
  <2>1. \/ \E at : cli' = [cli EXCEPT !.at = at]
        \/ \E at, batch : cli' = [cli EXCEPT !.at = at, !.batch = batch]
    BY <1>7 DEF WriteTask, Cleanup, PublishAcks, ReadOutbox
  <2> QED
    BY <1>1, <2>1 DEF CliStates
<1>8. ASSUME NEW s \in Tasks, VerifyReply(s)
      PROVE  cli'.accepted = cli.accepted
  BY <1>1, <1>8 DEF VerifyReply, CliStates
<1>9. ASSUME \E reply \in cli.accepted : Ack(reply)
      PROVE  cli'.accepted \subseteq cli.accepted
  BY <1>1, <1>9 DEF Ack, CliStates
<1>10. ASSUME Display PROVE cli'.accepted = cli.accepted \/ cli'.accepted = {}
  <2>1. cli' = IdleCli \/ cli' = [cli EXCEPT !.at = "ack"]
    BY <1>10 DEF Display
  <2> QED
    BY <1>1, <1>2, <2>1 DEF CliStates
<1> QED
  BY <1>3, <1>4, <1>5, <1>6, <1>7, <1>8, <1>9, <1>10 DEF CliOwn, CliStep

\* Whoever writes to the outbox, the files there stay what they are among.
LEMMA WrittenReply ==
    ASSUME TypesInv, NEW t \in Tasks, NoAnswerTo(t), CliOwn \/ WorkerOwn
    PROVE  CopiesAmong(<<"outbox", t>>, NotAnswers)'
<1> DEFINE S == NotAnswers
<1>1. Absent \in S /\ CopiesAmong(<<"outbox", t>>, S)
  BY DEF NoAnswerTo, NotAnswers, Blobs
<1>2. WriteReply /\ worker.task = t => worker.reply \in S
  BY DEF WriteReply, NoAnswerTo, NotAnswers, TypesInv, WorkerTyped, WorkerStates
<1> HIDE DEF S
<1>3. CopiesAmong(<<"outbox", t>>, S)'
  BY <1>1, <1>2, OutboxKept
<1> QED
  BY <1>3 DEF S

LEMMA WorkerReal ==
    ASSUME TypesInv, WorkerOwn, NEW t \in Tasks, NoAnswerTo(t)
    PROVE  Answered(t)' \/ NoAnswerTo(t)'
<1>1. CopiesAmong(<<"outbox", t>>, NotAnswers)'
  BY WrittenReply
<1>2. UNCHANGED <<cli, shown, acked>>
  BY WorkerFrame
<1>3. CASE RunBrain /\ worker.task = t
  <2>1. t \in Genuine /\ invoked \in [Tasks -> Nat]
        /\ invoked' = [invoked EXCEPT ![t] = @ + 1]
    BY <1>3 DEF RunBrain, TypesInv, WorkerTyped, OthersTyped, Working
  <2>2. invoked[t] \in Nat /\ invoked'[t] = invoked[t] + 1
    BY <2>1
  <2>3. invoked'[t] >= 1
    BY <2>2
  <2> QED
    BY <2>1, <2>3 DEF Answered
<1>4. CASE ~ (RunBrain /\ worker.task = t)
  <2>1. ASSUME t \in DOMAIN outcomes', outcomes'[t].state = "completed"
        PROVE  outcomes'[t].reply.kind # "answer"
    <3>1. CASE t \in DOMAIN outcomes /\ outcomes'[t] = outcomes[t]
      BY <2>1, <3>1 DEF NoAnswerTo
    <3>2. CASE ClaimNew /\ t = worker.task
      BY <2>1, <3>2, NewClaim
    <3>3. CASE Complete /\ t = worker.task
      BY <3>3, Completion DEF NoAnswerTo, Complete
    <3> QED
      BY <2>1, <3>1, <3>2, <3>3, RowSteps
  <2>2. ASSUME worker'.at \in {"complete", "write"}, worker'.task = t
        PROVE  worker'.reply.kind # "answer"
    BY <1>4, <2>2, ReplySteps DEF NoAnswerTo, Complete
  <2> QED
    BY <1>1, <1>2, <2>1, <2>2 DEF NoAnswerTo
<1> QED
  BY <1>3, <1>4

LEMMA CliReal ==
    ASSUME TypesInv, CliOwn, NEW t \in Tasks, NoAnswerTo(t)
    PROVE  NoAnswerTo(t)'
<1>1. CopiesAmong(<<"outbox", t>>, NotAnswers)'
  BY WrittenReply
<1>2. UNCHANGED <<worker, outcomes>>
  BY CliFrame
<1>3. work[Sender][<<"outbox", t>>] \in NotAnswers
  BY Places DEF NoAnswerTo, CopiesAmong
<1>4. t \in DOMAIN cli'.batch => cli'.batch[t].kind # "answer"
  BY <1>3, CliBatchSteps DEF NoAnswerTo, NotAnswers
<1>5. \A reply \in cli'.accepted \cup shown' \cup acked' :
         reply.task = t => reply.envelope.kind # "answer"
  BY ReplyTravels DEF NoAnswerTo
<1> QED
  BY <1>1, <1>2, <1>4, <1>5 DEF NoAnswerTo

LEMMA RealKept ==
    ASSUME TypesInv, RealInv, [RelayNext]_vars
    PROVE  RealInv'
<1> SUFFICES ASSUME NEW t \in Tasks PROVE Answered(t)' \/ NoAnswerTo(t)'
  BY DEF RealInv
<1>1. Answered(t) \/ NoAnswerTo(t)
  BY DEF RealInv
<1>2. invoked[t] \in Nat /\ invoked'[t] \in Nat /\ invoked'[t] >= invoked[t]
  <2>1. invoked \in [Tasks -> Nat]
    BY DEF TypesInv, OthersTyped
  <2>2. invoked' = invoked \/ invoked' = [invoked EXCEPT ![worker.task] = @ + 1]
    BY StepKinds, CliFrame, CounterSteps DEF relayVars, vars, Tick
  <2> QED
    BY <2>1, <2>2
<1>3. CASE Answered(t)
  BY <1>2, <1>3 DEF Answered
<1>4. CASE NoAnswerTo(t) /\ CliOwn
  BY <1>4, CliReal
<1>5. CASE NoAnswerTo(t) /\ WorkerOwn
  BY <1>5, WorkerReal
<1>6. CASE NoAnswerTo(t) /\ GitMoves /\ UNCHANGED relayVars
  <2> DEFINE S == NotAnswers
  <2>1. /\ Absent \in S /\ CopiesAmong(<<"outbox", t>>, S)
        /\ <<"outbox", t>> \in Paths /\ GitInv
    BY <1>6, TaskPaths DEF NoAnswerTo, NotAnswers, Blobs, TypesInv
  <2> HIDE DEF S
  <2>2. CopiesAmong(<<"outbox", t>>, S)'
    BY <1>6, <2>1, FilesOnlyMove
  <2>3. CopiesAmong(<<"outbox", t>>, NotAnswers)'
    BY <2>2 DEF S
  <2> QED
    BY <1>6, <2>3 DEF NoAnswerTo, relayVars
<1>7. CASE NoAnswerTo(t) /\ (Tick \/ UNCHANGED vars)
  <2>1. UNCHANGED gitVars /\ UNCHANGED <<cli, worker, outcomes, acked, shown>>
    BY <1>7 DEF Tick, vars, relayVars
  <2>2. UNCHANGED <<remote, head, work, sync>>
    BY <2>1 DEF gitVars
  <2> QED
    BY <1>7, <2>1, <2>2 DEF NoAnswerTo, CopiesAmong
<1> QED
  BY <1>1, <1>3, <1>4, <1>5, <1>6, <1>7, StepKinds

LEMMA RealStarts == Init => RealInv
<1> SUFFICES ASSUME Init, NEW t \in Tasks PROVE NoAnswerTo(t)
  BY DEF RealInv
<1>1. /\ cli.accepted = {} /\ DOMAIN cli.batch = {} /\ worker.at = "idle"
      /\ DOMAIN outcomes = {} /\ shown = {} /\ acked = {}
  BY IdleCliTyped, IdleWorkerTyped, EmptyBatch DEF Init
<1>2. CopiesAmong(<<"outbox", t>>, NotAnswers)
  <2>1. \A path : InBranch(<<>>, path, NotAnswers)
    BY EmptyIn
  <2>2. /\ remote = <<>> /\ head = [n \in Nodes |-> <<>>]
        /\ work = [n \in Nodes |-> EmptyTree] /\ sync = [p \in Procs |-> NoSync]
    BY DEF Init, InitGit
  <2>3. Absent \in NotAnswers /\ <<"outbox", t>> \in Paths
    BY TaskPaths DEF NotAnswers, Blobs
  <2> QED
    BY <2>1, <2>2, <2>3 DEF CopiesAmong, EmptyTree, NoSync
<1> QED
  BY <1>1, <1>2 DEF NoAnswerTo


-----------------------------------------------------------------------------
\* What was reported as queued is on the remote branch.

\* Only a command that heard of a sync that succeeded after it wrote the task
\* reports it as queued; between the two, only git steps touch its file.
LEMMA PublishSteps ==
    ASSUME TypesInv, CliOwn
    PROVE  /\ cli'.at = "publish" => WriteTask
           /\ WriteTask => /\ cli'.task = cli.task /\ cli.task \in Tasks
                           /\ sync' = [sync EXCEPT ![Cli] = Asked]
                           /\ remote' = remote
           /\ \A t \in Tasks : report'[t] = "queued" =>
                 \/ report[t] = "queued"
                 \/ cli.at = "publish" /\ cli.task = t /\ sync[Cli].at = "ok"
<1>1. /\ cli \in CliStates /\ report \in [Tasks -> {"none", "sending", "queued", "not queued"}]
      /\ cli.at \in Sending => cli.task \in Tasks
  BY DEF TypesInv, CliTyped, OthersTyped
<1>2. cli'.at = "publish" => WriteTask
  <2>1. \A t \in Tasks : StartSend(t) => cli'.at = "recover"
    BY SendingSteps
  <2> QED
    BY <2>1, SendingSteps DEF Sending
<1>3. WriteTask => /\ cli'.task = cli.task /\ cli.task \in Tasks
                   /\ sync' = [sync EXCEPT ![Cli] = Asked] /\ remote' = remote
  BY <1>1 DEF WriteTask, Asks, CliStates, Sending
<1>4. ASSUME NEW t \in Tasks, report'[t] = "queued", report[t] # "queued"
      PROVE  cli.at = "publish" /\ cli.task = t /\ sync[Cli].at = "ok"
  <2>1. ASSUME NEW s \in Tasks, StartSend(s) PROVE FALSE
    BY <1>1, <1>4, <2>1 DEF StartSend
  <2>2. PICK answer \in {"ok", "failed"} : ReportSend(answer)
    BY <1>4, <2>1, CliTables
  <2> QED
    BY <1>1, <1>4, <2>2 DEF ReportSend, Hears
<1> QED
  BY <1>2, <1>3, <1>4

LEMMA QueuedKept ==
    ASSUME TypesInv, QueuedInv, [RelayNext]_vars
    PROVE  QueuedInv'
<1>1. /\ GitInv /\ OneAtATime /\ sync \in [Procs -> [at : Stages, upstream : Histories]]
      /\ remote \in Histories /\ cli \in CliStates
      /\ cli.at = "publish" => cli.task \in Tasks
  BY DEF TypesInv, GitInv, TypeOK, CliTyped, Sending
<1>2. \A t \in Tasks : <<"inbox", t>> \in Paths
  BY TaskPaths
\* A command that publishes keeps what its sync carries.
<1>3. ASSUME NEW t \in Tasks, cli.at = "publish", cli.task = t, UNCHANGED cli
      PROVE  Carried(Cli, <<"inbox", t>>)'
  <2> DEFINE path == <<"inbox", t>>
  <2>1. Carried(Cli, path) /\ path \in Paths
    BY <1>2, <1>3 DEF QueuedInv
  <2>2. CASE GitMoves
    <3> HIDE DEF path
    <3>1. Carried(Cli, path)'
      BY <1>1, <2>1, <2>2, Places, CarriedOn
    <3> QED
      BY <3>1 DEF path
  <2>3. CASE WorkerOwn
    <3>1. /\ remote' = remote /\ head' = head /\ sync'[Cli] = sync[Cli]
          /\ work'[Sender] [path] = work[Sender][path]
      <4>1. /\ remote' = remote /\ head' = head /\ SyncOf(Worker)
            /\ \/ work' = work
               \/ WriteReply
               \/ Clears(Receiver, "inbox", "badtask")
        BY <2>3, WorkerFiles
      <4>2. sync'[Cli] = sync[Cli]
        BY <1>1, <4>1, Places, SyncOfFacts
      <4>3. WriteReply => work'[Sender][path] = work[Sender][path]
        BY <1>1, <2>1, Places, WriteReplyFacts DEF TypesInv
      <4>4. Clears(Receiver, "inbox", "badtask") => work'[Sender][path] = work[Sender][path]
        <5>1. "inbox" \in Slots /\ "badtask" \in Slots \ {"inbox"}
          BY Places
        <5> QED
          BY <1>1, <2>1, <5>1, Places, ClearsFacts
      <4> QED
        BY <4>1, <4>2, <4>3, <4>4
    <3> QED
      BY <2>1, <3>1, Places DEF Carried, RemoteHas, InBranch
  <2>4. CASE Tick \/ UNCHANGED vars
    <3>1. UNCHANGED gitVars
      BY <2>4 DEF Tick, vars
    <3>2. UNCHANGED <<remote, head, work, sync>>
      BY <3>1 DEF gitVars
    <3> QED
      BY <2>1, <3>2 DEF Carried, RemoteHas, InBranch
  <2>5. CASE CliOwn
    <3>1. WriteTask
      BY <1>3, <2>5, PublishSteps
    <3> QED
      BY <1>3, <3>1 DEF WriteTask
  <2> QED
    BY <2>2, <2>3, <2>4, <2>5, StepKinds
<1>4. ASSUME NEW path \in Paths, RemoteHas(path) PROVE RemoteHas(path)'
  <2>1. CASE GitMoves
    <3>1. remote' \in Histories /\ IsPrefix(remote, remote')
      BY <1>1, <2>1, RemoteGrows
    <3> QED
      BY <1>1, <1>4, <3>1, LongerHas DEF RemoteHas, InBranch
  <2>2. CASE remote' = remote
    BY <1>4, <2>2 DEF RemoteHas, InBranch
  <2>3. Tick \/ UNCHANGED vars => remote' = remote
    BY DEF Tick, vars, gitVars
  <2>4. CliOwn \/ WorkerOwn => remote' = remote
    BY CliFiles, WorkerFiles
  <2> QED
    BY <2>1, <2>2, <2>3, <2>4, StepKinds
<1>5. ASSUME NEW t \in Tasks, report'[t] = "queued" PROVE RemoteHas(<<"inbox", t>>)'
  <2>1. report[t] = "queued" \/ (cli.at = "publish" /\ cli.task = t /\ sync[Cli].at = "ok")
    <3>1. CASE CliOwn
      BY <1>5, <3>1, PublishSteps
    <3>2. CASE report' = report
      BY <1>5, <3>2
    <3> QED
      BY <3>1, <3>2, StepKinds, WorkerFrame DEF relayVars, vars, Tick
  <2>2. RemoteHas(<<"inbox", t>>)
    BY <2>1 DEF QueuedInv, Carried
  <2> QED
    BY <1>2, <1>4, <2>2
<1>6. ASSUME cli'.at = "publish" PROVE \E t \in Tasks : t = cli'.task /\ Carried(Cli, <<"inbox", t>>)'
  <2>1. CASE WriteTask /\ CliOwn
    <3>1. PICK t \in Tasks : t = cli.task
      BY <2>1, PublishSteps
    <3>2. /\ cli'.task = t /\ sync'[Cli].at = "wait"
      BY <1>1, <2>1, <3>1, PublishSteps, Places DEF Asked
    <3>3. work'[Sender][<<"inbox", t>>] # Absent
      <4>1. \E file \in Envelopes : work'[Sender][<<"inbox", t>>] = file
        BY <1>2, <2>1, <3>1, Places, WriteTaskFacts
      <4> QED
        BY <4>1, GitConstants, RelayConstants
    <3> QED
      BY <3>2, <3>3, Places DEF Carried
  <2>2. CASE UNCHANGED cli
    <3>1. PICK t \in Tasks : t = cli.task
      BY <1>1, <1>6, <2>2
    <3>2. Carried(Cli, <<"inbox", t>>)'
      BY <1>3, <1>6, <2>2, <3>1
    <3> QED
      BY <2>2, <3>1, <3>2
  <2>3. CliOwn => WriteTask
    BY <1>6, PublishSteps
  <2> QED
    BY <2>1, <2>2, <2>3, StepKinds, WorkerFrame DEF relayVars, vars, Tick
<1>7. cli'.at = "publish" => Carried(Cli, <<"inbox", cli.task>>)'
  <2> SUFFICES ASSUME cli'.at = "publish" PROVE Carried(Cli, <<"inbox", cli.task>>)'
    OBVIOUS
  <2>1. PICK t \in Tasks : t = cli'.task /\ Carried(Cli, <<"inbox", t>>)'
    BY <1>6
  <2> QED
    BY <2>1 DEF Carried, RemoteHas, InBranch
<1> QED
  BY <1>5, <1>7 DEF QueuedInv

LEMMA QueuedStarts == Init => QueuedInv
<1> SUFFICES ASSUME Init PROVE QueuedInv
  OBVIOUS
<1>1. cli.at = "idle" /\ report = [t \in Tasks |-> "none"]
  BY IdleCliTyped DEF Init
<1> QED
  BY <1>1 DEF QueuedInv

\* "queued" is said of a task only when the remote branch has received it, and an
\* answer, wherever it is, is of a run of a task that passed verification.
THEOREM ReportsStayTrue == RelaySpec => []ReportsAreTrue
<1>1. RealInv => AnswersAreReal
  <2> SUFFICES ASSUME RealInv, NEW t \in Tasks, NoAnswerTo(t)
               PROVE  ~ (\/ \E reply \in shown \cup acked :
                               reply.task = t /\ reply.envelope.kind = "answer"
                         \/ \E n \in Nodes : /\ work[n][<<"outbox", t>>] # Absent
                                             /\ work[n][<<"outbox", t>>].kind = "answer"
                         \/ t \in DOMAIN outcomes /\ outcomes[t].state = "completed"
                            /\ outcomes[t].reply.kind = "answer")
    BY DEF RealInv, Answered, AnswersAreReal
  <2>1. \A n \in Nodes : work[n][<<"outbox", t>>] \in NotAnswers
    BY DEF NoAnswerTo, CopiesAmong
  <2> QED
    BY <2>1 DEF NoAnswerTo, NotAnswers
<1>2. TypesInv /\ QueuedInv => QueuedIsPublished
  <2> SUFFICES ASSUME TypesInv, QueuedInv, NEW t \in Tasks, report[t] = "queued"
               PROVE  \E i \in DOMAIN remote : remote[i].tree[<<"inbox", t>>] # Absent
    BY DEF QueuedIsPublished
  <2>1. remote \in Histories
    BY DEF TypesInv, GitInv, TypeOK
  <2>2. DOMAIN remote = 1 .. Len(remote)
    BY <2>1, LenProperties DEF Histories
  <2> QED
    BY <2>2 DEF QueuedInv, RemoteHas, InBranch
<1>3. RelaySpec => []RealInv
  BY RealStarts, RealKept, TypesInvariant, PTL DEF RelaySpec
<1>4. RelaySpec => []QueuedInv
  BY QueuedStarts, QueuedKept, TypesInvariant, PTL DEF RelaySpec
<1>5. TypesInv /\ RealInv /\ QueuedInv => ReportsAreTrue
  BY <1>1, <1>2 DEF ReportsAreTrue
<1> QED
  BY <1>3, <1>4, <1>5, TypesInvariant, PTL


-----------------------------------------------------------------------------
\* A task never just disappears.

\* A task moves one way: from the inbox to the outbox or to the evidence, from
\* the outbox to the evidence, until its answer is shown.  A tree follows another
\* when it is as far with the task, or further.
Has(tree, slot, t) == tree[<<slot, t>>] # Absent
Evidence(tree, t)  == Has(tree, "badtask", t) \/ Has(tree, "badreply", t)

Follows(t, s, u) ==
    /\ Has(s, "badtask", t) => Has(u, "badtask", t)
    /\ Has(s, "badreply", t) => Has(u, "badreply", t)
    /\ Has(s, "outbox", t) => Has(u, "outbox", t) \/ Evidence(u, t)
    /\ Has(s, "inbox", t) => Has(u, "inbox", t) \/ Has(u, "outbox", t) \/ Evidence(u, t)

InOrder(t, branch) ==
    \A i, j \in 1 .. Len(branch) : i <= j => Follows(t, branch[i].tree, branch[j].tree)

\* Every branch goes that way, and every worktree after its branch; a worker that
\* is about to remove a task has left its answer, or finds it refused.
Kept(t) ==
    /\ InOrder(t, remote)
    /\ \A n \in Nodes : InOrder(t, head[n]) /\ Follows(t, TreeOf(head[n]), work[n])
    /\ worker.at = "unlink" /\ worker.task = t =>
          Has(work[Receiver], "outbox", t) \/ Evidence(work[Receiver], t)

Shown(t) == \E reply \in shown : reply.task = t

\* What is acknowledged was shown, and what is written is an answer.
ShownFirst ==
    /\ acked \subseteq shown
    /\ cli.at = "ack" => cli.accepted \subseteq shown
ReplyInHand ==
    /\ worker.at \in {"complete", "write"} => worker.reply # Absent
    /\ \A t \in DOMAIN outcomes : outcomes[t].state = "completed" => outcomes[t].reply # Absent

KeptInv == ShownFirst /\ ReplyInHand /\ \A t \in Tasks : Shown(t) \/ Kept(t)

LEMMA FollowsOn ==
    ASSUME NEW t, NEW s, NEW u, NEW v, Follows(t, s, u), Follows(t, u, v)
    PROVE  Follows(t, s, v)
BY DEF Follows, Evidence

\* A person's replay of m's changes since the base b on top of r follows both.
LEMMA MergeFollows ==
    ASSUME NEW t, NEW b, NEW m, NEW r, NEW c,
           Follows(t, b, m), Follows(t, b, r),
           \A slot \in Slots :
              /\ m[<<slot, t>>] # b[<<slot, t>>] => c[<<slot, t>>] = m[<<slot, t>>]
              /\ m[<<slot, t>>] = b[<<slot, t>>] => c[<<slot, t>>] = r[<<slot, t>>]
    PROVE  Follows(t, m, c) /\ Follows(t, r, c)
<1>1. \A slot \in {"inbox", "outbox", "badtask", "badreply"} :
         /\ m[<<slot, t>>] # b[<<slot, t>>] => c[<<slot, t>>] = m[<<slot, t>>]
         /\ m[<<slot, t>>] = b[<<slot, t>>] => c[<<slot, t>>] = r[<<slot, t>>]
  BY Places
<1>2. Evidence(m, t) \/ Evidence(r, t) => Evidence(c, t)
  BY <1>1 DEF Follows, Evidence, Has
<1> QED
  BY <1>1, <1>2 DEF Follows, Evidence, Has

\* A fast-forward from h to u that overwrites nothing: the checkout v follows the
\* worktree w as it was and the branch it took over.
LEMMA CheckoutFollows ==
    ASSUME NEW t, NEW h, NEW w, NEW u, NEW v,
           Follows(t, h, w), Follows(t, h, u),
           \A slot \in Slots :
              /\ w[<<slot, t>>] \notin {h[<<slot, t>>], Absent} =>
                    v[<<slot, t>>] = w[<<slot, t>>]
              /\ h[<<slot, t>>] # u[<<slot, t>>] => v[<<slot, t>>] = u[<<slot, t>>]
              /\ h[<<slot, t>>] = u[<<slot, t>>] => v[<<slot, t>>] = w[<<slot, t>>]
    PROVE  Follows(t, w, v) /\ Follows(t, u, v)
<1>1. \A slot \in {"inbox", "outbox", "badtask", "badreply"} :
         /\ w[<<slot, t>>] \notin {h[<<slot, t>>], Absent} =>
               v[<<slot, t>>] = w[<<slot, t>>]
         /\ h[<<slot, t>>] # u[<<slot, t>>] => v[<<slot, t>>] = u[<<slot, t>>]
         /\ h[<<slot, t>>] = u[<<slot, t>>] => v[<<slot, t>>] = w[<<slot, t>>]
  BY Places
<1>2. /\ Has(w, "badtask", t) \/ Has(u, "badtask", t) => Has(v, "badtask", t)
      /\ Has(w, "badreply", t) \/ Has(u, "badreply", t) => Has(v, "badreply", t)
  BY <1>1 DEF Follows, Has
<1>3. Evidence(w, t) \/ Evidence(u, t) => Evidence(v, t)
  BY <1>2 DEF Evidence
<1>4. Has(w, "outbox", t) \/ Has(u, "outbox", t) => Has(v, "outbox", t) \/ Evidence(v, t)
  BY <1>1, <1>3 DEF Follows, Has
<1>5. Has(w, "inbox", t) \/ Has(u, "inbox", t) =>
         Has(v, "inbox", t) \/ Has(v, "outbox", t) \/ Evidence(v, t)
  BY <1>1, <1>3, <1>4 DEF Follows, Has
<1> QED
  BY <1>2, <1>4, <1>5 DEF Follows

LEMMA NoFileFollowed ==
    ASSUME NEW t \in Tasks, NEW u
    PROVE  Follows(t, EmptyTree, u)
BY PathOf, Places DEF EmptyTree, Follows, Has

\* The latest tree of a branch follows all of it, and that of a longer branch too.
LEMMA OrderPrefix ==
    ASSUME NEW t \in Tasks, NEW s \in Histories, NEW u \in Histories, IsPrefix(s, u),
           InOrder(t, u)
    PROVE  InOrder(t, s) /\ Follows(t, TreeOf(s), TreeOf(u))
<1>1. /\ Len(s) <= Len(u) /\ s = SubSeq(u, 1, Len(s)) /\ Len(s) \in Nat /\ Len(u) \in Nat
  BY PrefixMeaning, LenProperties DEF Histories
<1>2. \A i \in 1 .. Len(s) : i \in 1 .. Len(u) /\ s[i] = u[i]
  BY <1>1 DEF Histories
<1>3. InOrder(t, s)
  <2>1. ASSUME NEW i \in 1 .. Len(s), NEW j \in 1 .. Len(s), i <= j
        PROVE  Follows(t, s[i].tree, s[j].tree)
    <3>1. i \in 1 .. Len(u) /\ j \in 1 .. Len(u) /\ s[i] = u[i] /\ s[j] = u[j]
      BY <1>2
    <3>2. Follows(t, u[i].tree, u[j].tree)
      BY <2>1, <3>1 DEF InOrder
    <3> QED
      BY <3>1, <3>2
  <2> QED
    BY <2>1 DEF InOrder
<1>4. CASE s = <<>>
  <2>1. TreeOf(s) = EmptyTree
    BY <1>4 DEF TreeOf
  <2> QED
    BY <1>3, <2>1, NoFileFollowed
<1>5. CASE s # <<>>
  <2>1. Len(s) > 0 /\ u # <<>>
    BY <1>1, <1>5, EmptySeq DEF Histories
  <2>2. TreeOf(s) = s[Len(s)].tree /\ TreeOf(u) = u[Len(u)].tree
    BY <1>5, <2>1 DEF TreeOf, Last
  <2>3. Len(s) \in 1 .. Len(u) /\ Len(u) \in 1 .. Len(u) /\ s[Len(s)] = u[Len(s)]
    BY <1>1, <1>2, <2>1
  <2> QED
    BY <1>1, <2>2, <2>3 DEF InOrder
<1> QED
  BY <1>3, <1>4, <1>5

LEMMA OrderAppend ==
    ASSUME NEW t \in Tasks, NEW branch \in Histories, NEW c \in Commits,
           InOrder(t, branch), Follows(t, TreeOf(branch), c.tree)
    PROVE  InOrder(t, Append(branch, c)) /\ TreeOf(Append(branch, c)) = c.tree
<1> DEFINE longer == Append(branch, c)
<1>1. /\ Len(branch) \in Nat /\ Len(longer) = Len(branch) + 1 /\ longer # <<>>
      /\ longer[Len(branch) + 1] = c
      /\ \A i \in 1 .. Len(branch) : longer[i] = branch[i]
  BY LenProperties, AppendProperties DEF Histories
<1>2. \A i \in 1 .. Len(branch) : Follows(t, branch[i].tree, TreeOf(branch))
  <2> SUFFICES ASSUME NEW i \in 1 .. Len(branch)
               PROVE  Follows(t, branch[i].tree, TreeOf(branch))
    OBVIOUS
  <2>1. branch # <<>> /\ Len(branch) \in 1 .. Len(branch) /\ i <= Len(branch)
    BY <1>1
  <2>2. TreeOf(branch) = branch[Len(branch)].tree
    BY <2>1 DEF TreeOf, Last
  <2> QED
    BY <2>1, <2>2 DEF InOrder
<1>3. \A i \in 1 .. Len(branch) : Follows(t, branch[i].tree, c.tree)
  BY <1>2, FollowsOn
<1>4. Follows(t, c.tree, c.tree)
  BY DEF Follows
<1>5. TreeOf(longer) = c.tree
  BY <1>1 DEF TreeOf, Last
<1> HIDE DEF longer
<1>6. ASSUME NEW i \in 1 .. Len(longer), NEW j \in 1 .. Len(longer), i <= j
      PROVE  Follows(t, longer[i].tree, longer[j].tree)
  <2>1. CASE j \in 1 .. Len(branch)
    BY <1>1, <1>6, <2>1 DEF InOrder
  <2>2. CASE j = Len(branch) + 1 /\ i \in 1 .. Len(branch)
    BY <1>1, <1>3, <2>2
  <2>3. CASE j = Len(branch) + 1 /\ i = j
    BY <1>1, <1>4, <2>3
  <2> QED
    BY <1>1, <1>6, <2>1, <2>2, <2>3
<1> QED
  BY <1>5, <1>6 DEF InOrder, longer


\* A step of the repositories that leaves the shown answers alone.
LEMMA GitKeepsOrder ==
    ASSUME TypesInv, NEW t \in Tasks, Kept(t), GitMoves
    PROVE  /\ InOrder(t, remote')
           /\ \A n \in Nodes : /\ InOrder(t, head'[n])
                               /\ Follows(t, TreeOf(head'[n]), work'[n])
                               /\ Follows(t, work[n], work'[n])
<1>1. /\ GitInv /\ remote \in Histories /\ head \in [Nodes -> Histories]
      /\ work \in [Nodes -> Trees]
      /\ \A slot \in Slots : <<slot, t>> \in Paths
  BY PathOf DEF TypesInv, GitInv, TypeOK
<1>2. /\ InOrder(t, remote)
      /\ \A n \in Nodes : InOrder(t, head[n]) /\ Follows(t, TreeOf(head[n]), work[n])
  BY DEF Kept
<1>3. \A s : Follows(t, s, s)
  BY DEF Follows
<1>4. CASE UNCHANGED <<remote, head, work>>
  BY <1>2, <1>3, <1>4
<1>5. ASSUME NEW p \in Procs, Send(p) \/ NetworkFails(p)
      PROVE  InOrder(t, remote') /\ UNCHANGED <<head, work>>
  <2>1. UNCHANGED <<head, work>>
    BY <1>5 DEF Send, NetworkFails
  <2>2. Home[p] \in Nodes /\ (remote' = remote \/ remote' = head[Home[p]])
    BY <1>1, <1>5, PushFacts
  <2> QED
    BY <1>2, <2>1, <2>2
<1>6. ASSUME NEW p \in Procs, Commit(p)
      PROVE  /\ UNCHANGED <<remote, work>>
             /\ \A n \in Nodes : InOrder(t, head'[n]) /\ Follows(t, TreeOf(head'[n]), work[n])
  <2>1. /\ UNCHANGED <<remote, work>> /\ Home[p] \in Nodes
        /\ \/ head' = head
           \/ \E c \in Commits : /\ c.tree = work[Home[p]]
                                 /\ head' = [head EXCEPT ![Home[p]] = Append(@, c)]
    BY <1>1, <1>6, CommitFacts DEF Commit
  <2>2. CASE head' = head
    BY <1>2, <2>1, <2>2
  <2>3. CASE head' # head
    <3>1. PICK c \in Commits : /\ c.tree = work[Home[p]]
                               /\ head' = [head EXCEPT ![Home[p]] = Append(@, c)]
      BY <2>1, <2>3
    <3> DEFINE longer == Append(head[Home[p]], c)
    <3>2. InOrder(t, longer) /\ TreeOf(longer) = work[Home[p]]
      BY <1>1, <1>2, <2>1, <3>1, OrderAppend
    <3>3. head'[Home[p]] = longer /\ \A n \in Nodes \ {Home[p]} : head'[n] = head[n]
      BY <1>1, <2>1, <3>1
    <3> HIDE DEF longer
    <3> QED
      BY <1>2, <1>3, <2>1, <3>2, <3>3
  <2> QED
    BY <2>2, <2>3
<1>7. ASSUME NEW p \in Procs, FastForward(p)
      PROVE  /\ remote' = remote
             /\ \A n \in Nodes : /\ InOrder(t, head'[n])
                                 /\ Follows(t, TreeOf(head'[n]), work'[n])
                                 /\ Follows(t, work[n], work'[n])
  <2> DEFINE m == Home[p]
             u == sync[p].upstream
  <2>1. /\ remote' = remote /\ m \in Nodes /\ u \in Histories /\ head[m] \in Histories
        /\ IsPrefix(head[m], u) /\ IsPrefix(u, remote)
        /\ head' = [head EXCEPT ![m] = u]
        /\ \A n \in Nodes \ {m} : work'[n] = work[n]
        /\ \A slot \in Slots :
              /\ TreeOf(head[m])[<<slot, t>>] # TreeOf(u)[<<slot, t>>] =>
                    work'[m][<<slot, t>>] = TreeOf(u)[<<slot, t>>]
              /\ TreeOf(head[m])[<<slot, t>>] = TreeOf(u)[<<slot, t>>] =>
                    work'[m][<<slot, t>>] = work[m][<<slot, t>>]
              /\ work[m][<<slot, t>>] \notin {TreeOf(head[m])[<<slot, t>>], Absent} =>
                    work'[m][<<slot, t>>] = work[m][<<slot, t>>]
    BY <1>1, <1>7, FastForwardFacts DEF FastForward, GitInv, TypeOK
  <2> HIDE DEF m, u
  <2>2. InOrder(t, u)
    BY <1>1, <1>2, <2>1, OrderPrefix
  <2>3. Follows(t, TreeOf(head[m]), TreeOf(u)) /\ Follows(t, TreeOf(head[m]), work[m])
    BY <1>1, <1>2, <2>1, <2>2, OrderPrefix
  <2> DEFINE h == TreeOf(head[m])
             w == work[m]
             v == work'[m]
             taken == TreeOf(u)
  <2>4. Follows(t, w, v) /\ Follows(t, taken, v)
    <3>1. /\ Follows(t, h, w) /\ Follows(t, h, taken)
          /\ \A slot \in Slots :
                /\ w[<<slot, t>>] \notin {h[<<slot, t>>], Absent} =>
                      v[<<slot, t>>] = w[<<slot, t>>]
                /\ h[<<slot, t>>] # taken[<<slot, t>>] => v[<<slot, t>>] = taken[<<slot, t>>]
                /\ h[<<slot, t>>] = taken[<<slot, t>>] => v[<<slot, t>>] = w[<<slot, t>>]
      BY <2>1, <2>3
    <3> HIDE DEF h, w, v, taken
    <3> QED
      BY <3>1, CheckoutFollows
  <2>5. head'[m] = u /\ \A n \in Nodes \ {m} : head'[n] = head[n]
    BY <1>1, <2>1
  <2> QED
    BY <1>2, <1>3, <2>1, <2>2, <2>4, <2>5
<1>8. ASSUME NEW m \in Nodes, Reconcile(m)
      PROVE  /\ remote' = remote
             /\ \A n \in Nodes : /\ InOrder(t, head'[n])
                                 /\ Follows(t, TreeOf(head'[n]), work'[n])
                                 /\ Follows(t, work[n], work'[n])
  <2> DEFINE base == LongestCommonPrefix({head[m], remote})
  <2>1. PICK c \in Commits :
           /\ head' = [head EXCEPT ![m] = Append(remote, c)]
           /\ work' = [work EXCEPT ![m] = c.tree]
           /\ \A path \in Paths :
                 /\ c.tree[path] \in {TreeOf(head[m])[path], TreeOf(remote)[path]}
                 /\ TreeOf(head[m])[path] # TreeOf(base)[path] =>
                       c.tree[path] = TreeOf(head[m])[path]
                 /\ TreeOf(head[m])[path] = TreeOf(base)[path] =>
                       c.tree[path] = TreeOf(remote)[path]
    BY <1>1, <1>8, ReconcileFacts
  <2>2. remote' = remote /\ work[m] = TreeOf(head[m])
    BY <1>8 DEF Reconcile
  <2>3. base \in Histories /\ IsPrefix(base, remote) /\ IsPrefix(base, head[m])
    <3>1. head[m] \in Histories /\ {remote, head[m]} = {head[m], remote}
      BY <1>1
    <3>2. /\ LongestCommonPrefix({head[m], remote}) \in Histories
          /\ IsPrefix(LongestCommonPrefix({head[m], remote}), remote)
      BY <1>1, <3>1, BaseIsShared
    <3>3. IsPrefix(LongestCommonPrefix({remote, head[m]}), head[m])
      BY <1>1, <3>1, BaseIsShared
    <3> QED
      BY <3>1, <3>2, <3>3
  <2> HIDE DEF base
  <2>4. /\ Follows(t, TreeOf(base), TreeOf(head[m]))
        /\ Follows(t, TreeOf(base), TreeOf(remote))
    BY <1>1, <1>2, <2>3, OrderPrefix
  <2>5. Follows(t, TreeOf(head[m]), c.tree) /\ Follows(t, TreeOf(remote), c.tree)
    <3> DEFINE b == TreeOf(base)
               mine == TreeOf(head[m])
               theirs == TreeOf(remote)
               tree == c.tree
    <3>1. /\ Follows(t, b, mine) /\ Follows(t, b, theirs)
          /\ \A slot \in Slots :
                /\ mine[<<slot, t>>] # b[<<slot, t>>] => tree[<<slot, t>>] = mine[<<slot, t>>]
                /\ mine[<<slot, t>>] = b[<<slot, t>>] => tree[<<slot, t>>] = theirs[<<slot, t>>]
      BY <1>1, <2>1, <2>4
    <3> HIDE DEF b, mine, theirs, tree
    <3>2. Follows(t, mine, tree) /\ Follows(t, theirs, tree)
      BY <3>1, MergeFollows
    <3> QED
      BY <3>2 DEF mine, theirs, tree
  <2> DEFINE longer == Append(remote, c)
  <2>6. InOrder(t, longer) /\ TreeOf(longer) = c.tree
    BY <1>1, <1>2, <2>5, OrderAppend
  <2>7. /\ head'[m] = longer /\ work'[m] = c.tree
        /\ \A n \in Nodes \ {m} : head'[n] = head[n] /\ work'[n] = work[n]
    BY <1>1, <2>1
  <2> HIDE DEF longer
  <2> QED
    BY <1>2, <1>3, <2>2, <2>5, <2>6, <2>7
<1>9. \/ UNCHANGED <<remote, head, work>>
      \/ \E p \in Procs : Send(p) \/ NetworkFails(p) \/ Commit(p) \/ FastForward(p)
      \/ \E n \in Nodes : Reconcile(n)
  BY DEF GitMoves, SyncStep, Call, Return, Enter, LockTimeout, Fetch, UpToDate,
     PullRefused, Compare, SendRejected
<1> QED
  BY <1>2, <1>3, <1>4, <1>5, <1>6, <1>7, <1>8, <1>9


\* What becomes of a slot: a file that is quarantined is evidence afterwards, and
\* one that is removed was answered or is another task's.
LEMMA QuarantineFollows ==
    ASSUME NEW tree \in Trees, NEW s \in Tasks, NEW t \in Tasks,
           NEW slot \in {"inbox", "outbox"}, NEW evidence \in {"badtask", "badreply"}
    PROVE  Follows(t, tree, Quarantined(tree, slot, s, evidence))
<1>1. /\ slot \in Slots /\ evidence \in Slots \ {slot}
      /\ \A any \in Slots : <<any, t>> \in Paths
      /\ <<slot, s>> \in Paths
  BY Places, PathOf
<1>2. CASE tree[<<slot, s>>] = Absent
  BY <1>2 DEF Quarantined, Follows
<1>3. CASE tree[<<slot, s>>] # Absent
  <2> DEFINE blob == tree[<<slot, s>>]
             rest == Unlinked(tree, slot, s)
             new  == Quarantined(tree, slot, s, evidence)
  <2>1. blob \in Blobs /\ blob # Absent
    BY <1>1, <1>3 DEF Trees
  <2>2. rest \in Trees /\ \A path \in Paths :
           rest[path] = IF path = <<slot, s>> THEN Absent ELSE tree[path]
    BY <1>1, UnlinkedFacts
  <2>3. new = Written(rest, evidence, s, blob)
    BY <1>3 DEF Quarantined
  <2> HIDE DEF rest, blob, new
  <2>4. \A path \in Paths : new[path] = IF path = <<evidence, s>> THEN blob ELSE rest[path]
    BY <1>1, <2>1, <2>2, <2>3, WrittenFacts
  <2>5. \A any \in {"inbox", "outbox", "badtask", "badreply"} :
           new[<<any, t>>] = IF any = evidence /\ s = t THEN blob
                             ELSE IF any = slot /\ s = t THEN Absent
                             ELSE tree[<<any, t>>]
    BY <1>1, <2>2, <2>4, Places
  <2>6. Follows(t, tree, new)
    BY <2>1, <2>5 DEF Follows, Evidence, Has
  <2> QED
    BY <2>6 DEF new
<1> QED
  BY <1>2, <1>3

LEMMA UnlinkFollows ==
    ASSUME NEW tree \in Trees, NEW s \in Tasks, NEW t \in Tasks,
           NEW slot \in {"inbox", "outbox"},
           s = t => slot = "inbox" /\ (Has(tree, "outbox", t) \/ Evidence(tree, t))
    PROVE  Follows(t, tree, Unlinked(tree, slot, s))
<1> DEFINE new == Unlinked(tree, slot, s)
<1>1. slot \in Slots /\ \A any \in Slots : <<any, t>> \in Paths
  BY Places, PathOf
<1>2. \A path \in Paths : new[path] = IF path = <<slot, s>> THEN Absent ELSE tree[path]
  BY <1>1, UnlinkedFacts
<1> HIDE DEF new
<1>3. \A any \in {"inbox", "outbox", "badtask", "badreply"} :
         new[<<any, t>>] = IF any = slot /\ s = t THEN Absent ELSE tree[<<any, t>>]
  BY <1>1, <1>2, Places
<1>4. Follows(t, tree, new)
  BY <1>3 DEF Follows, Evidence, Has
<1> QED
  BY <1>4 DEF new

LEMMA WriteFollows ==
    ASSUME NEW tree \in Trees, NEW s \in Tasks, NEW t \in Tasks, NEW slot \in Slots,
           NEW blob \in Blobs \ {Absent}
    PROVE  Follows(t, tree, Written(tree, slot, s, blob))
<1> DEFINE new == Written(tree, slot, s, blob)
<1>1. \A any \in Slots : <<any, t>> \in Paths
  BY PathOf
<1>2. \A path \in Paths : new[path] = IF path = <<slot, s>> THEN blob ELSE tree[path]
  BY WrittenFacts
<1> HIDE DEF new
<1>3. \A any \in {"inbox", "outbox", "badtask", "badreply"} :
         new[<<any, t>>] \in {blob, tree[<<any, t>>]}
  BY <1>1, <1>2, Places
<1>4. Follows(t, tree, new)
  BY <1>3 DEF Follows, Evidence, Has
<1> QED
  BY <1>4 DEF new

\* One worktree changes.
LEMMA OneTree ==
    ASSUME TypesInv, NEW t, NEW m \in Nodes, NEW tree, Follows(t, work[m], tree),
           work' = [work EXCEPT ![m] = tree]
    PROVE  \A n \in Nodes : Follows(t, work[n], work'[n])
<1>1. work \in [Nodes -> Trees]
  BY DEF TypesInv, GitInv, TypeOK
<1>2. \A n \in Nodes : work'[n] = IF n = m THEN tree ELSE work[n]
  BY <1>1
<1>3. \A n \in Nodes : Follows(t, work[n], work[n])
  BY DEF Follows
<1> QED
  BY <1>2, <1>3

\* The command removes an answer only once it was shown, or keeps it as evidence.
LEMMA CliKeepsFiles ==
    ASSUME TypesInv, ShownFirst, CliOwn, NEW t \in Tasks, ~ Shown(t)
    PROVE  \A n \in Nodes : Follows(t, work[n], work'[n])
<1>1. /\ Sender \in Nodes /\ work[Sender] \in Trees /\ "outbox" \in {"inbox", "outbox"}
      /\ "badreply" \in {"badtask", "badreply"} /\ "inbox" \in Slots
      /\ cli \in CliStates /\ cli.batch \in Batches
  BY Places DEF TypesInv, GitInv, TypeOK, CliTyped, CliStates
<1>2. ASSUME work' = work PROVE \A n \in Nodes : Follows(t, work[n], work'[n])
  BY <1>2 DEF Follows
<1>3. CASE WriteTask
  <2>1. PICK file \in Blobs \ {Absent} :
           work' = [work EXCEPT ![Sender] = Written(work[Sender], "inbox", cli.task, file)]
    <3> DEFINE file == [kind |-> "task", expires |-> clock + Ttl]
    <3>1. file \in Envelopes
      <4>1. clock + Ttl \in 0 .. MaxClock + Ttl
        BY <1>3, WriteTaskFacts DEF Expiries
      <4> QED
        BY <4>1 DEF Envelopes
    <3>2. file \in Blobs \ {Absent}
      BY <3>1, GitConstants, RelayConstants DEF Blobs
    <3>3. work' = [work EXCEPT ![Sender] = Written(work[Sender], "inbox", cli.task, file)]
      BY <1>3 DEF WriteTask
    <3> HIDE DEF file
    <3> QED
      BY <3>2, <3>3
  <2>2. cli.task \in Tasks
    BY <1>3 DEF WriteTask, TypesInv, CliTyped, Sending
  <2>3. Follows(t, work[Sender], Written(work[Sender], "inbox", cli.task, file))
    BY <1>1, <2>1, <2>2, WriteFollows
  <2> QED
    BY <1>1, <2>1, <2>3, OneTree
<1>4. ASSUME NEW s \in Tasks, VerifyReply(s)
      PROVE  \A n \in Nodes : Follows(t, work[n], work'[n])
  <2>1. \/ work' = work
        \/ work' = [work EXCEPT ![Sender] =
                      Quarantined(work[Sender], "outbox", s, "badreply")]
    BY <1>4 DEF VerifyReply
  <2>2. Follows(t, work[Sender], Quarantined(work[Sender], "outbox", s, "badreply"))
    BY <1>1, QuarantineFollows
  <2> QED
    BY <1>1, <1>2, <2>1, <2>2, OneTree
<1>5. ASSUME NEW reply \in shown, reply.task \in Tasks,
             work' = [work EXCEPT ![Sender] = Unlinked(@, "outbox", reply.task)]
      PROVE  \A n \in Nodes : Follows(t, work[n], work'[n])
  <2>1. reply.task # t
    BY <1>5 DEF Shown
  <2>2. Follows(t, work[Sender], Unlinked(work[Sender], "outbox", reply.task))
    BY <1>1, <1>5, <2>1, UnlinkFollows
  <2> QED
    BY <1>1, <1>5, <2>2, OneTree
<1>6. CASE CheckSeen
  <2> DEFINE reply == [task |-> cli.task, envelope |-> cli.batch[cli.task]]
  <2>1. \/ work' = work
        \/ /\ Seen(reply, clock)
           /\ work' = [work EXCEPT ![Sender] = Unlinked(@, "outbox", reply.task)]
    BY <1>6 DEF CheckSeen
  <2>2. Seen(reply, clock) => reply \in shown
    BY DEF Seen, ShownFirst
  <2>3. reply.task \in Tasks
    BY <1>1, <1>6, BatchFacts DEF CheckSeen, TypesInv, CliTyped
  <2> HIDE DEF reply
  <2> QED
    BY <1>2, <1>5, <2>1, <2>2, <2>3
<1>7. ASSUME NEW reply \in cli.accepted, Ack(reply)
      PROVE  \A n \in Nodes : Follows(t, work[n], work'[n])
  <2>1. /\ reply \in shown /\ reply.task \in Tasks
        /\ work' = [work EXCEPT ![Sender] = Unlinked(@, "outbox", reply.task)]
    BY <1>1, <1>7 DEF Ack, ShownFirst, CliStates, Replies
  <2> QED
    BY <1>5, <2>1
<1>8. \/ WriteTask \/ CheckSeen \/ (\E s \in Tasks : VerifyReply(s))
      \/ (\E reply \in cli.accepted : Ack(reply)) \/ work' = work
  <2>1. CliOwn => \/ WriteTask \/ CheckSeen \/ (\E s \in Tasks : VerifyReply(s))
                  \/ (\E reply \in cli.accepted : Ack(reply))
                  \/ (\E s \in Tasks : StartSend(s)) \/ StartTake \/ TakeFails
                  \/ ReadOutbox \/ Cleanup \/ Display \/ PublishAcks \/ TakeDone \/ CliCrash
                  \/ \E answer \in {"ok", "failed"} : ReportSend(answer)
    BY DEF CliOwn, CliStep
  <2> QED
    BY <2>1 DEF StartSend, StartTake, TakeFails, ReadOutbox, Cleanup, Display, PublishAcks,
       TakeDone, CliCrash, ReportSend
<1> QED
  BY <1>2, <1>3, <1>4, <1>6, <1>7, <1>8

\* The worker removes a task only once its answer is written or it is refused.
LEMMA WorkerKeepsFiles ==
    ASSUME TypesInv, ReplyInHand, WorkerOwn, NEW t \in Tasks, Kept(t)
    PROVE  \A n \in Nodes : Follows(t, work[n], work'[n])
<1>1. /\ Receiver \in Nodes /\ work[Receiver] \in Trees /\ "inbox" \in {"inbox", "outbox"}
      /\ "badtask" \in {"badtask", "badreply"} /\ "outbox" \in Slots
      /\ worker \in WorkerStates /\ worker.batch \in Batches
      /\ worker.at \in {"write", "unlink"} => worker.task \in Tasks
  <2>1. worker.batch \in Batches
    BY DEF TypesInv, WorkerTyped, WorkerStates
  <2> QED
    BY <2>1, BatchFacts, Places DEF TypesInv, GitInv, TypeOK, WorkerTyped, Working
<1>2. CASE work' = work
  BY <1>2 DEF Follows
<1>3. CASE WriteReply
  <2>1. /\ work' = [work EXCEPT ![Receiver] =
                      Written(work[Receiver], "outbox", worker.task, worker.reply)]
        /\ worker.task \in Tasks /\ worker.reply \in Blobs \ {Absent}
    BY <1>1, <1>3 DEF WriteReply, ReplyInHand, WorkerStates
  <2>2. Follows(t, work[Receiver],
                Written(work[Receiver], "outbox", worker.task, worker.reply))
    BY <1>1, <2>1, WriteFollows
  <2> QED
    BY <1>1, <2>1, <2>2, OneTree
<1>4. ASSUME NEW s \in Tasks, VerifyTask(s)
      PROVE  \A n \in Nodes : Follows(t, work[n], work'[n])
  <2>1. \/ work' = work
        \/ work' = [work EXCEPT ![Receiver] =
                      Quarantined(work[Receiver], "inbox", s, "badtask")]
    BY <1>4 DEF VerifyTask
  <2>2. Follows(t, work[Receiver], Quarantined(work[Receiver], "inbox", s, "badtask"))
    BY <1>1, QuarantineFollows
  <2> QED
    BY <1>1, <1>2, <2>1, <2>2, OneTree
<1>5. CASE RemoveTask
  <2>1. /\ work' = [work EXCEPT ![Receiver] =
                      Unlinked(work[Receiver], "inbox", worker.task)]
        /\ worker.task \in Tasks /\ worker.at = "unlink"
    BY <1>1, <1>5 DEF RemoveTask
  <2>2. worker.task = t => Has(work[Receiver], "outbox", t) \/ Evidence(work[Receiver], t)
    BY <2>1 DEF Kept
  <2>3. Follows(t, work[Receiver], Unlinked(work[Receiver], "inbox", worker.task))
    BY <1>1, <2>1, <2>2, UnlinkFollows
  <2> QED
    BY <1>1, <2>1, <2>3, OneTree
<1>6. WriteReply \/ RemoveTask \/ (\E s \in Tasks : VerifyTask(s)) \/ work' = work
  <2>1. WorkerOwn => \/ WriteReply \/ RemoveTask \/ (\E s \in Tasks : VerifyTask(s))
                     \/ StartDrain \/ ReadInbox \/ Flush \/ DrainEnds \/ WorkerCrash
                     \/ ClaimInterrupted \/ ClaimCompleted \/ ClaimNew \/ ClaimRefused
                     \/ RunBrain \/ Complete
    BY DEF WorkerOwn, WorkerStep
  <2> QED
    BY <2>1 DEF StartDrain, ReadInbox, Flush, DrainEnds, WorkerCrash, ClaimInterrupted,
       ClaimCompleted, ClaimNew, ClaimRefused, RunBrain, Complete, gitVars
<1> QED
  BY <1>2, <1>3, <1>4, <1>5, <1>6


LEMMA ShownFirstKept ==
    ASSUME TypesInv, ShownFirst, CliOwn
    PROVE  ShownFirst'
<1>1. cli \in CliStates /\ acked \subseteq shown /\ (cli.at = "ack" => cli.accepted \subseteq shown)
  BY DEF TypesInv, CliTyped, ShownFirst
<1>2. IdleCli \in CliStates /\ IdleCli.at = "idle"
  BY IdleCliTyped
<1>3. shown \subseteq shown'
  BY CliTables
<1>4. acked' \subseteq shown'
  <2>1. ASSUME NEW reply \in cli.accepted, Ack(reply) PROVE acked' \subseteq shown
    BY <1>1, <2>1 DEF Ack
  <2> QED
    BY <1>1, <1>3, <2>1, CliTables
<1>5. ASSUME cli'.at = "ack" PROVE Display \/ \E reply \in cli.accepted : Ack(reply)
  <2>1. ASSUME (\E s \in Tasks : StartSend(s)) \/ StartTake PROVE FALSE
    BY <1>2, <1>5, <2>1 DEF StartSend, StartTake, CliStates
  <2>2. ASSUME WriteTask \/ ReadOutbox \/ Cleanup \/ PublishAcks PROVE FALSE
    <3>1. \/ \E at \in {"publish", "cleanup", "acknowledge"} : cli' = [cli EXCEPT !.at = at]
          \/ \E batch : cli' = [cli EXCEPT !.at = "reply", !.batch = batch]
      BY <2>2 DEF WriteTask, ReadOutbox, Cleanup, PublishAcks
    <3> QED
      BY <1>1, <1>5, <3>1 DEF CliStates
  <2>3. ASSUME NEW s \in Tasks, VerifyReply(s) PROVE FALSE
    BY <1>1, <1>5, <2>3 DEF VerifyReply, CliStates
  <2>4. ASSUME CheckSeen PROVE FALSE
    BY <1>1, <1>5, <2>4 DEF CheckSeen, CliStates
  <2>5. ASSUME TakeFails \/ TakeDone \/ CliCrash
               \/ \E answer \in {"ok", "failed"} : ReportSend(answer)
        PROVE  FALSE
    BY <1>2, <1>5, <2>5 DEF TakeFails, TakeDone, CliCrash, ReportSend
  <2> QED
    BY <2>1, <2>2, <2>3, <2>4, <2>5 DEF CliOwn, CliStep
<1>6. ASSUME cli'.at = "ack", Display PROVE cli'.accepted \subseteq shown'
  <2>1. cli' = [cli EXCEPT !.at = "ack"] /\ shown' = shown \cup cli.accepted
    BY <1>2, <1>6 DEF Display
  <2> QED
    BY <1>1, <2>1 DEF CliStates
<1>7. ASSUME NEW reply \in cli.accepted, Ack(reply) PROVE cli'.accepted \subseteq shown'
  <2>1. /\ cli.at = "ack" /\ shown' = shown
        /\ cli' = [cli EXCEPT !.accepted = cli.accepted \ {reply}]
    BY <1>7 DEF Ack
  <2> QED
    BY <1>1, <2>1 DEF CliStates
<1> QED
  BY <1>4, <1>5, <1>6, <1>7 DEF ShownFirst

LEMMA ReplyKept ==
    ASSUME TypesInv, ReplyInHand, WorkerOwn
    PROVE  ReplyInHand'
<1>1. worker \in WorkerStates /\ Absent \notin Envelopes
  BY GitConstants, RelayConstants DEF TypesInv, WorkerTyped
<1>2. ASSUME worker'.at \in {"complete", "write"} PROVE worker'.reply # Absent
  <2>1. CASE RunBrain \/ ClaimInterrupted
    <3>1. PICK kind \in {"answer", "notice"} : worker' =
             [worker EXCEPT !.at = "complete",
                            !.reply = [kind |-> kind, expires |-> clock + Ttl]]
      BY <2>1 DEF RunBrain, ClaimInterrupted
    <3>2. [kind |-> kind, expires |-> clock + Ttl] \in Envelopes
      <4>1. clock \in 0 .. MaxClock
        BY DEF TypesInv, OthersTyped
      <4>2. clock + Ttl \in 0 .. MaxClock + Ttl
        BY <4>1, RelayConstants
      <4> QED
        BY <4>2 DEF Envelopes
    <3> QED
      BY <1>1, <3>1, <3>2 DEF WorkerStates
  <2>2. CASE Complete /\ worker'.reply = worker.reply
    BY <2>2 DEF Complete, ReplyInHand
  <2>3. CASE /\ worker.task \in DOMAIN outcomes /\ outcomes[worker.task].state = "completed"
             /\ worker'.reply = outcomes[worker.task].reply
    BY <2>3 DEF ReplyInHand
  <2> QED
    BY <1>2, <2>1, <2>2, <2>3, ReplySteps
<1>3. ASSUME NEW t \in DOMAIN outcomes', outcomes'[t].state = "completed"
      PROVE  outcomes'[t].reply # Absent
  <2>1. CASE t \in DOMAIN outcomes /\ outcomes'[t] = outcomes[t]
    BY <1>3, <2>1 DEF ReplyInHand
  <2>2. CASE ClaimNew /\ t = worker.task
    BY <1>3, <2>2, NewClaim
  <2>3. CASE Complete /\ t = worker.task
    BY <2>3, Completion DEF ReplyInHand, Complete
  <2> QED
    BY <1>3, <2>1, <2>2, <2>3, RowSteps
<1> QED
  BY <1>2, <1>3 DEF ReplyInHand


\* A worker is about to remove a task only when it has written its reply.
LEMMA RemovesAnswered ==
    ASSUME TypesInv, ReplyInHand, WorkerOwn, worker'.at = "unlink"
    PROVE  Has(work'[Receiver], "outbox", worker'.task)
<1>1. worker \in WorkerStates
  BY DEF TypesInv, WorkerTyped
<1>2. IdleWorker.at = "idle" /\ IdleWorker \in WorkerStates
  BY IdleWorkerTyped
<1>3. CASE WriteReply
  <2>1. /\ worker.task \in Tasks /\ Receiver \in Nodes
        /\ \A n \in Nodes, path \in Paths :
              work'[n][path] = IF n = Receiver /\ path = <<"outbox", worker.task>>
                               THEN worker.reply ELSE work[n][path]
    BY <1>3, WriteReplyFacts, Places
  <2>2. <<"outbox", worker.task>> \in Paths
    BY <2>1, TaskPaths
  <2>3. work'[Receiver][<<"outbox", worker.task>>] = worker.reply
    BY <2>1, <2>2
  <2>4. worker.reply # Absent /\ worker'.task = worker.task
    BY <1>1, <1>3 DEF WriteReply, ReplyInHand, WorkerStates
  <2> QED
    BY <2>3, <2>4 DEF Has
<1>4. ASSUME StartDrain \/ ReadInbox \/ ClaimInterrupted \/ ClaimCompleted \/ ClaimNew
             \/ RunBrain \/ Complete \/ RemoveTask
      PROVE  FALSE
  <2>1. \/ \E at \in {"run", "write"} : worker' = [worker EXCEPT !.at = at]
        \/ \E at \in {"complete", "write"} : \E reply :
              worker' = [worker EXCEPT !.at = at, !.reply = reply]
        \/ \E batch : worker' = [worker EXCEPT !.at = "next", !.batch = batch]
        \/ worker' = [IdleWorker EXCEPT !.at = "recover"]
        \/ \E batch : worker' = [IdleWorker EXCEPT !.at = "next", !.dirty = TRUE,
                                                   !.batch = batch]
    BY <1>4 DEF StartDrain, ReadInbox, ClaimInterrupted, ClaimCompleted, ClaimNew, RunBrain,
       Complete, RemoveTask
  <2> QED
    BY <1>1, <1>2, <2>1 DEF WorkerStates
<1>5. ASSUME NEW s \in Tasks, VerifyTask(s) PROVE FALSE
  <2>1. /\ worker.at = "next"
        /\ \/ worker' = [worker EXCEPT !.at = "claim", !.task = s]
           \/ \E batch : worker' = [worker EXCEPT !.batch = batch, !.dirty = TRUE]
    BY <1>5 DEF VerifyTask
  <2> QED
    BY <1>1, <2>1 DEF WorkerStates
<1>6. ASSUME ClaimRefused \/ Flush \/ DrainEnds \/ WorkerCrash PROVE FALSE
  <2>1. worker' = IdleWorker \/ worker' = [worker EXCEPT !.at = "flush"]
    BY <1>6 DEF ClaimRefused, Flush, DrainEnds, WorkerCrash
  <2> QED
    BY <1>1, <1>2, <2>1 DEF WorkerStates
<1> QED
  BY <1>3, <1>4, <1>5, <1>6 DEF WorkerOwn, WorkerStep

\* The worktrees go on, and the branches after them.
LEMMA KeptOn ==
    ASSUME NEW t \in Tasks, Kept(t), InOrder(t, remote'),
           \A n \in Nodes : /\ InOrder(t, head'[n])
                            /\ Follows(t, TreeOf(head'[n]), work'[n])
                            /\ Follows(t, work[n], work'[n]),
           worker'.at = "unlink" /\ worker'.task = t =>
              \/ worker.at = "unlink" /\ worker.task = t
              \/ Has(work'[Receiver], "outbox", t)
    PROVE  Kept(t)'
<1>1. ASSUME worker'.at = "unlink", worker'.task = t
      PROVE  Has(work'[Receiver], "outbox", t) \/ Evidence(work'[Receiver], t)
  <2>1. CASE worker.at = "unlink" /\ worker.task = t
    <3>1. Has(work[Receiver], "outbox", t) \/ Evidence(work[Receiver], t)
      BY <2>1 DEF Kept
    <3>2. Follows(t, work[Receiver], work'[Receiver])
      BY Places
    <3> QED
      BY <3>1, <3>2 DEF Follows, Evidence
  <2> QED
    BY <1>1, <2>1
<1> QED
  BY <1>1 DEF Kept, InOrder, Follows, Evidence, Has, TreeOf

LEMMA KeptStill ==
    ASSUME TypesInv, KeptInv, [RelayNext]_vars, NEW t \in Tasks
    PROVE  Shown(t)' \/ Kept(t)'
<1>1. ShownFirst /\ ReplyInHand /\ (Shown(t) \/ Kept(t))
  BY DEF KeptInv
<1>2. CASE Shown(t)
  <2>1. shown \subseteq shown'
    BY StepKinds, CliTables, WorkerFrame DEF relayVars, vars, Tick
  <2> QED
    BY <1>2, <2>1 DEF Shown
<1>3. CASE Kept(t) /\ ~ Shown(t)
  <2>1. /\ InOrder(t, remote)
        /\ \A n \in Nodes : InOrder(t, head[n]) /\ Follows(t, TreeOf(head[n]), work[n])
    BY <1>3 DEF Kept
  <2>2. CASE GitMoves /\ UNCHANGED relayVars
    <3>1. worker' = worker
      BY <2>2 DEF relayVars
    <3> QED
      BY <1>3, <2>2, <3>1, GitKeepsOrder, KeptOn
  <2>3. CASE CliOwn \/ WorkerOwn
    <3>1. \A n \in Nodes : Follows(t, work[n], work'[n])
      BY <1>1, <1>3, <2>3, CliKeepsFiles, WorkerKeepsFiles
    <3>2. remote' = remote /\ head' = head
      BY <2>3, CliFiles, WorkerFiles
    <3>3. \A n \in Nodes : Follows(t, TreeOf(head[n]), work'[n])
      BY <2>1, <3>1, FollowsOn
    <3>4. worker'.at = "unlink" /\ worker'.task = t =>
             \/ worker.at = "unlink" /\ worker.task = t
             \/ Has(work'[Receiver], "outbox", t)
      BY <1>1, <2>3, CliFrame, RemovesAnswered
    <3> QED
      BY <1>3, <2>1, <3>1, <3>2, <3>3, <3>4, KeptOn
  <2>4. CASE Tick \/ UNCHANGED vars
    <3>1. UNCHANGED gitVars /\ worker' = worker
      BY <2>4 DEF Tick, vars, relayVars
    <3>2. UNCHANGED <<remote, head, work>>
      BY <3>1 DEF gitVars
    <3>3. \A n \in Nodes : Follows(t, work[n], work'[n])
      BY <3>2 DEF Follows
    <3> QED
      BY <1>3, <2>1, <3>1, <3>2, <3>3, KeptOn
  <2> QED
    BY <2>2, <2>3, <2>4, StepKinds
<1> QED
  BY <1>1, <1>2, <1>3

LEMMA KeptKept ==
    ASSUME TypesInv, KeptInv, [RelayNext]_vars
    PROVE  KeptInv'
<1>1. ShownFirst /\ ReplyInHand
  BY DEF KeptInv
<1>2. ShownFirst'
  <2>1. CASE CliOwn
    BY <1>1, <2>1, ShownFirstKept
  <2>2. CASE UNCHANGED <<cli, acked, shown>>
    BY <1>1, <2>2 DEF ShownFirst
  <2> QED
    BY <2>1, <2>2, StepKinds, WorkerFrame DEF relayVars, vars, Tick
<1>3. ReplyInHand'
  <2>1. CASE WorkerOwn
    BY <1>1, <2>1, ReplyKept
  <2>2. CASE UNCHANGED <<worker, outcomes>>
    BY <1>1, <2>2 DEF ReplyInHand
  <2> QED
    BY <2>1, <2>2, StepKinds, CliFrame DEF relayVars, vars, Tick
<1>4. \A t \in Tasks : Shown(t)' \/ Kept(t)'
  BY KeptStill
<1> QED
  BY <1>2, <1>3, <1>4 DEF KeptInv

LEMMA KeptStarts == Init => KeptInv
<1> SUFFICES ASSUME Init PROVE KeptInv
  OBVIOUS
<1>1. /\ cli.at = "idle" /\ worker.at = "idle" /\ acked = {} /\ DOMAIN outcomes = {}
  BY IdleCliTyped, IdleWorkerTyped, EmptyBatch DEF Init
<1>2. ASSUME NEW t \in Tasks PROVE Kept(t)
  <2>1. InOrder(t, <<>>)
    BY EmptySeq DEF InOrder
  <2>2. /\ remote = <<>> /\ head = [n \in Nodes |-> <<>>]
        /\ work = [n \in Nodes |-> EmptyTree]
    BY DEF Init, InitGit
  <2>3. TreeOf(<<>>) = EmptyTree
    BY DEF TreeOf
  <2>4. Follows(t, EmptyTree, EmptyTree)
    BY DEF Follows
  <2> QED
    BY <1>1, <2>1, <2>2, <2>3, <2>4 DEF Kept
<1> QED
  BY <1>1, <1>2 DEF KeptInv, ShownFirst, ReplyInHand

\* Whatever crashes, fails or is replayed by a person, and however the branches
\* fork: a task that the remote branch has had is still there, or its answer, or
\* the evidence why one of them was refused, or its answer was shown.  Every tree
\* that follows another has the task as far or further, merges and fast-forwards
\* included, and only shown answers leave.
THEOREM NothingEverVanishes == RelaySpec => []NothingVanishes
<1>1. ASSUME TypesInv, KeptInv, NEW t \in Tasks,
             \E i \in DOMAIN remote : remote[i].tree[<<"inbox", t>>] # Absent
      PROVE  Accounted(t, TreeOf(remote))
  <2>1. CASE Shown(t)
    BY <2>1 DEF Shown, Accounted
  <2>2. CASE Kept(t)
    <3>1. remote \in Histories
      BY <1>1 DEF TypesInv, GitInv, TypeOK
    <3>2. PICK i \in 1 .. Len(remote) : remote[i].tree[<<"inbox", t>>] # Absent
      BY <1>1, <3>1, LenProperties DEF Histories
    <3>3. Len(remote) \in 1 .. Len(remote) /\ i <= Len(remote) /\ remote # <<>>
      BY <3>1, <3>2, LenProperties DEF Histories
    <3>4. TreeOf(remote) = remote[Len(remote)].tree
      BY <3>3 DEF TreeOf, Last
    <3>5. Follows(t, remote[i].tree, TreeOf(remote))
      BY <2>2, <3>2, <3>3, <3>4 DEF Kept, InOrder
    <3>6. \E slot \in {"inbox", "outbox", "badtask", "badreply"} :
             TreeOf(remote)[<<slot, t>>] # Absent
      BY <3>2, <3>5 DEF Follows, Evidence, Has
    <3> QED
      BY <3>6, Places DEF Accounted
  <2> QED
    BY <1>1, <2>1, <2>2 DEF KeptInv
<1>2. TypesInv /\ KeptInv => NothingVanishes
  BY <1>1 DEF NothingVanishes
<1>3. RelaySpec => []KeptInv
  BY KeptStarts, KeptKept, TypesInvariant, PTL DEF RelaySpec
<1> QED
  BY <1>2, <1>3, TypesInvariant, PTL
=============================================================================
