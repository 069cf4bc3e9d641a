------------------------------ MODULE Delivery ------------------------------
(***************************************************************************)
(* How a task leaves: ask, say and do of rdap.py and send_task of          *)
(* client.py.  ask and say go down a ladder of transports for one teammate *)
(* after the other: a probe, the direct request, the mailbox of the        *)
(* teammate's node, the Git relay.  do sends to all teammates at once and  *)
(* only directly.  Every transport signs a task id of its own, so that the *)
(* receiver cannot tell a second delivery from a second task.  What the    *)
(* user is told decides whether the command is repeated.                   *)
(***************************************************************************)
EXTENDS Naturals, Sequences, SequencesExt

CONSTANTS
    Teammates,   \* teammates that the command is addressed to
    Signatures,  \* signatures of answers
    RetryAfter,  \* reports after which the user repeats the command
    MaxTries     \* bound: repetitions

VARIABLES
    options,     \* the command and its flags
    known,       \* [Teammates -> which endpoints state.json has of it]
    rung,        \* [Teammates -> where on the ladder]
    exited,      \* the command ended by sys.exit
    got,         \* [Teammates -> tasks of this attempt that its node has or will get]
    told,        \* [Teammates -> what the user was told]
    shown,       \* [Teammates -> the answers that were printed]
    earlier,     \* [Teammates -> tasks that its node got from earlier attempts]
    doubts,      \* [Teammates -> earlier attempts not reported as undelivered]
    tries

deliveryVars == <<options, known, rung, exited, got, told, shown, earlier, doubts, tries>>
pastAttempts == <<earlier, doubts>>

Rungs   == {"wait", "probe", "card", "send", "mailbox", "git", "end"}
Reports == {"", "answer", "queued", "notsent", "notqueued", "failed", "refused",
            "timeout", "rejected", "ambiguous"}

\* Whatever was reported, the user may repeat the command; after a timeout the
\* program itself says "retry".
ASSUME RepeatsAfterReports == RetryAfter \subseteq Reports /\ MaxTries \in Nat

\* The reports that say that nothing was delivered.
Undelivered == {"notsent", "failed", "refused"}

\* An answer: genuine if the teammate signed it for this user and this task.
Answers == [signature : Signatures, genuine : BOOLEAN]

DeliveryInit ==
    /\ options \in [kind : {"ask", "say", "do"}, relay : BOOLEAN,
                    gitOnly : BOOLEAN, mailbox : BOOLEAN]
    /\ options.kind # "ask" => ~options.gitOnly
    /\ options.kind = "do" => ~options.relay /\ ~options.mailbox
    /\ known \in [Teammates -> SUBSET {"url", "mailbox"}]
    /\ rung = [m \in Teammates |-> "wait"]
    /\ exited = FALSE
    /\ got = [m \in Teammates |-> 0]
    /\ told = [m \in Teammates |-> ""]
    /\ shown = [m \in Teammates |-> {}]
    /\ earlier = [m \in Teammates |-> 0] /\ doubts = [m \in Teammates |-> 0]
    /\ tries = 0

Climbs(m, r) == rung' = [rung EXCEPT ![m] = r]
Arrives(m)   == got' = [got EXCEPT ![m] = @ + 1]

\* Over for m: success goes on to the next teammate, everything else ends ask
\* and say; do waits for all.
Tells(m, report) ==
    /\ Climbs(m, "end")
    /\ told' = [told EXCEPT ![m] = report]
    /\ exited' = (exited \/ (options.kind # "do" /\ report \notin {"answer", "queued"}))

\* say has one word for every failure of a direct request.
Direct(report) == IF options.kind = "say" THEN "ambiguous" ELSE report

\* Mutant: an ambiguous failure of say goes on to the next transport.
TellsOrFallsBack(m, report) ==
    IF options.kind = "say" /\ report # "answer"
    THEN Climbs(m, "git") /\ UNCHANGED <<told, exited>>
    ELSE Tells(m, report)

TellsDirect(m, report) == Tells(m, Direct(report))

Busy == {m \in Teammates : rung[m] \notin {"wait", "end"}}

AfterDirect(m) ==
    IF options.mailbox /\ ~options.gitOnly /\ "mailbox" \in known[m] THEN "mailbox" ELSE "git"

\* ask and say take one teammate at a time; do needs a url for each.
DeliveryStart(m) ==
    /\ rung[m] = "wait" /\ ~exited
    /\ IF options.kind = "do"
       THEN "url" \in known[m] /\ Climbs(m, "card")
       ELSE /\ Busy = {}
            /\ Climbs(m, IF ~options.relay /\ "url" \in known[m]
                         THEN "probe" ELSE AfterDirect(m))
    /\ UNCHANGED <<options, known, exited, got, told, shown, pastAttempts, tries>>

\* The pinned card and the live identity: there, not there, or not to be asked
\* because a bearer token would travel in the clear.
DeliveryProbe(m) ==
    /\ rung[m] = "probe"
    /\ \/ Climbs(m, "card") /\ UNCHANGED <<told, exited>>
       \/ Climbs(m, AfterDirect(m)) /\ UNCHANGED <<told, exited>>
       \/ Tells(m, "notsent")
    /\ UNCHANGED <<options, known, got, shown, pastAttempts, tries>>

\* A card that is served: signed with the pinned key, advertising the endpoint
\* that was contacted, and with no plain interface for a bearer token.
Cards == [pinned : BOOLEAN, advertises : BOOLEAN, secure : BOOLEAN]

CardVerifies(card)  == card.pinned /\ card.advertises
MayCarryToken(card) == card.secure

\* send_task fetches and verifies the card again before it sends anything.
DeliveryCard(m) ==
    /\ rung[m] = "card"
    /\ \/ \E card \in Cards :
             IF CardVerifies(card) /\ MayCarryToken(card)
             THEN Climbs(m, "send") /\ UNCHANGED <<told, exited>>
             ELSE TellsDirect(m, "rejected")
       \/ \E why \in {"failed", "refused", "timeout"} : TellsDirect(m, why)
    /\ UNCHANGED <<options, known, got, shown, pastAttempts, tries>>

\* The artifacts of the response: each signature once; one that does not verify
\* voids the response, and there must be one that does.
Firsts(arts) ==
    {i \in DOMAIN arts : \A j \in DOMAIN arts : j < i => arts[j].signature # arts[i].signature}

Collect(arts) ==
    LET texts == {arts[i] : i \in Firsts(arts)} IN
    [ok |-> texts # {} /\ (\A a \in texts : a.genuine), texts |-> texts]

\* The request: no connection, refused with 401 or 503, lost on the way or on the
\* way back, or answered by whatever comes back.
DeliverySend(m) ==
    /\ rung[m] = "send"
    /\ \/ /\ \E why \in {"failed", "refused"} : TellsDirect(m, why)
          /\ UNCHANGED <<got, shown>>
       \/ /\ Arrives(m) \/ UNCHANGED got
          /\ TellsDirect(m, "timeout")
          /\ UNCHANGED shown
       \/ \E arts \in SeqOf(Answers, 2) :
             /\ Arrives(m) \/ ((\A i \in DOMAIN arts : ~arts[i].genuine) /\ UNCHANGED got)
             /\ IF Collect(arts).ok
                THEN shown' = [shown EXCEPT ![m] = Collect(arts).texts] /\ Tells(m, "answer")
                ELSE TellsDirect(m, "rejected") /\ UNCHANGED shown
    /\ UNCHANGED <<options, known, pastAttempts, tries>>

\* The node's mailbox takes the task; a failure may have come after that.
DeliveryMailbox(m) ==
    /\ rung[m] = "mailbox"
    /\ \/ Arrives(m) /\ Tells(m, "queued")
       \/ (Arrives(m) \/ UNCHANGED got) /\ Tells(m, "ambiguous")
    /\ UNCHANGED <<options, known, shown, pastAttempts, tries>>

\* The Git relay, which an asking user may decline.  What could not be pushed
\* may be pushed later, as module GitRelay shows.
DeliveryGit(m) ==
    /\ rung[m] = "git"
    /\ \/ Arrives(m) /\ Tells(m, "queued")
       \/ (Arrives(m) \/ UNCHANGED got) /\ Tells(m, "notqueued")
       \/ /\ options.kind = "ask" /\ ~options.relay /\ ~options.gitOnly
          /\ Tells(m, "notsent") /\ UNCHANGED got
    /\ UNCHANGED <<options, known, shown, pastAttempts, tries>>

\* The user repeats the command for a teammate: a new attempt, with new task ids.
DeliveryRetry(m) ==
    /\ rung[m] = "end" /\ told[m] \in RetryAfter /\ Busy = {}
    /\ tries < MaxTries /\ tries' = tries + 1
    /\ Climbs(m, "wait")
    /\ earlier' = [earlier EXCEPT ![m] = @ + got[m]]
    /\ doubts' = [doubts EXCEPT ![m] = @ + (IF told[m] \in Undelivered THEN 0 ELSE 1)]
    /\ got' = [got EXCEPT ![m] = 0]
    /\ told' = [told EXCEPT ![m] = ""]
    /\ shown' = [shown EXCEPT ![m] = {}]
    /\ exited' = FALSE
    /\ UNCHANGED <<options, known>>

DeliveryNext == \E m \in Teammates :
    \/ DeliveryStart(m) \/ DeliveryProbe(m) \/ DeliveryCard(m) \/ DeliverySend(m)
    \/ DeliveryMailbox(m) \/ DeliveryGit(m) \/ DeliveryRetry(m)

DeliverySpec == DeliveryInit /\ [][DeliveryNext]_deliveryVars

-----------------------------------------------------------------------------
\* Properties.

DeliveryTypeOK ==
    /\ rung \in [Teammates -> Rungs] /\ told \in [Teammates -> Reports]
    /\ exited \in BOOLEAN /\ tries \in 0 .. MaxTries
    /\ \A m \in Teammates : shown[m] \subseteq Answers

\* One attempt gives a teammate the task once at most, whichever transports were
\* tried and however they failed (the ladder never goes on after a request that
\* may have arrived); what is called answered or queued was delivered, what is
\* called not sent, failed or refused was not; the text that is shown as an
\* answer is the teammate's, to this task, each once.  A user who repeats the
\* command delivers again only what an earlier report left in doubt or called
\* delivered: after a timeout, where the program says "retry", twice is possible.
DeliveredAsTold == \A m \in Teammates :
    /\ got[m] <= 1
    /\ told[m] \in {"answer", "queued"} => got[m] = 1
    /\ told[m] \in Undelivered => got[m] = 0
    /\ earlier[m] <= doubts[m]
    /\ told[m] = "answer" => shown[m] # {}
    /\ \A a \in shown[m] : a.genuine
    /\ \A a, b \in shown[m] : a.signature = b.signature => a = b
=============================================================================
