---------------------------- MODULE BoardProofs -----------------------------
(***************************************************************************)
(* Proofs about TeamBoard for any clones, agents, calls, tasks, lock files *)
(* and limits: BOARD.md shows what has returned, a file is claimed by one  *)
(* agent of a clone, and a returned post is published.                     *)
(*                                                                         *)
(* The inductive invariant is built in layers, each of which uses those    *)
(* before it.                                                              *)
(*   Typed, Files  deltas are finite, distinct by writer, time and number, *)
(*                 and no clock finds one beyond the skew it allows for    *)
(*   Locking       a call past its lock holds .gitlock                     *)
(*   Synced        a branch that is not ahead has what is published, and   *)
(*                 one that is at the remote version has all of it         *)
(*   Posting       what is posted is on its way to the remote branch       *)
(*   LockFiles, Claims  no pull takes a lock file from its owner           *)
(*   Written       a returned delta is committed wherever it is            *)
(*   Rows          boards show deltas of their tree                        *)
(*   Showing       boards cover what has returned, and no worktree's board *)
(*                 is older than the one its branch has                    *)
(***************************************************************************)
EXTENDS TeamBoard, Sums, FiniteSetTheorems, SequenceTheorems, TLAPS

Steps == {"lock", "delta", "rows", "board", "commit", "pull", "push", "goal", "look", "claim",
          "release"}

BoardDeltas ==
    {d \in [w : Agents \cup {0}, at : Nat, n : Nat,
            kind : {"task", "chat", "fact", "event"}, id : Ids \cup {0}] :
        d.kind = "task" => d.id \in Ids}
TaskDeltas  == {d \in BoardDeltas : d.kind = "task"}
PartialRows == UNION {[S -> TaskDeltas] : S \in SUBSET Ids}
Trees       == [deltas : SUBSET BoardDeltas, board : PartialRows, goal : Nat,
                locks : [Lockable -> Agents \cup {0}]]
Branches    == [base : Nat, ahead : BOOLEAN, tree : Trees]
CallRecords == [op : DOMAIN Plan \cup {"none", "failed"}, todo : Seq(Steps),
                arg : Ids \cup Lockable \cup {0}, delta : SUBSET BoardDeltas, rows : PartialRows]

\* What is left to do of a call is the end of its plan.
OnPlan(c) ==
    IF c.op \in DOMAIN Plan
    THEN /\ Len(c.todo) <= Len(Plan[c.op])
         /\ \A i \in 1 .. Len(c.todo) : c.todo[i] = Plan[c.op][Len(Plan[c.op]) - Len(c.todo) + i]
    ELSE c.todo = <<>>

\* The plans and their lengths.
LEMMA PlanLengths ==
    /\ DOMAIN Plan = {"task", "post", "goal", "sync", "claim", "release", "fact", "event"}
    /\ Plan["task"] \in Seq(Steps) /\ Len(Plan["task"]) = 5
    /\ Plan["post"] \in Seq(Steps) /\ Len(Plan["post"]) = 5
    /\ Plan["goal"] \in Seq(Steps) /\ Len(Plan["goal"]) = 5
    /\ Plan["sync"] \in Seq(Steps) /\ Len(Plan["sync"]) = 4
    /\ Plan["claim"] \in Seq(Steps) /\ Len(Plan["claim"]) = 4
    /\ Plan["release"] \in Seq(Steps) /\ Len(Plan["release"]) = 3
    /\ Plan["fact"] \in Seq(Steps) /\ Len(Plan["fact"]) = 3
    /\ Plan["event"] \in Seq(Steps) /\ Len(Plan["event"]) = 1
<1>1. DOMAIN Plan = {"task", "post", "goal", "sync", "claim", "release", "fact", "event"}
  BY DEF Plan
<1>task. Plan["task"] = <<"lock", "delta", "rows", "board", "commit">>
  BY DEF Plan
<1>task2. Plan["task"] \in Seq(Steps) /\ Len(Plan["task"]) = 5
  BY <1>task DEF Steps
<1>post. Plan["post"] = <<"lock", "pull", "delta", "commit", "push">>
  BY DEF Plan
<1>post2. Plan["post"] \in Seq(Steps) /\ Len(Plan["post"]) = 5
  BY <1>post DEF Steps
<1>goal. Plan["goal"] = <<"lock", "pull", "goal", "commit", "push">>
  BY DEF Plan
<1>goal2. Plan["goal"] \in Seq(Steps) /\ Len(Plan["goal"]) = 5
  BY <1>goal DEF Steps
<1>sync. Plan["sync"] = <<"lock", "pull", "commit", "push">>
  BY DEF Plan
<1>sync2. Plan["sync"] \in Seq(Steps) /\ Len(Plan["sync"]) = 4
  BY <1>sync DEF Steps
<1>claim. Plan["claim"] = <<"lock", "look", "claim", "commit">>
  BY DEF Plan
<1>claim2. Plan["claim"] \in Seq(Steps) /\ Len(Plan["claim"]) = 4
  BY <1>claim DEF Steps
<1>release. Plan["release"] = <<"lock", "release", "commit">>
  BY DEF Plan
<1>release2. Plan["release"] \in Seq(Steps) /\ Len(Plan["release"]) = 3
  BY <1>release DEF Steps
<1>fact. Plan["fact"] = <<"delta", "lock", "commit">>
  BY DEF Plan
<1>fact2. Plan["fact"] \in Seq(Steps) /\ Len(Plan["fact"]) = 3
  BY <1>fact DEF Steps
<1>event. Plan["event"] = <<"delta">>
  BY DEF Plan
<1>event2. Plan["event"] \in Seq(Steps) /\ Len(Plan["event"]) = 1
  BY <1>event DEF Steps
<1> QED
  BY <1>1, <1>task2, <1>post2, <1>goal2, <1>sync2, <1>claim2, <1>release2, <1>fact2, <1>event2

\* The steps of each plan.
LEMMA PlanSteps ==
    /\ Plan["task"][1] = "lock" /\ Plan["task"][2] = "delta" /\ Plan["task"][3] = "rows"
         /\ Plan["task"][4] = "board" /\ Plan["task"][5] = "commit"
    /\ Plan["post"][1] = "lock" /\ Plan["post"][2] = "pull" /\ Plan["post"][3] = "delta"
         /\ Plan["post"][4] = "commit" /\ Plan["post"][5] = "push"
    /\ Plan["goal"][1] = "lock" /\ Plan["goal"][2] = "pull" /\ Plan["goal"][3] = "goal"
         /\ Plan["goal"][4] = "commit" /\ Plan["goal"][5] = "push"
    /\ Plan["sync"][1] = "lock" /\ Plan["sync"][2] = "pull" /\ Plan["sync"][3] = "commit"
         /\ Plan["sync"][4] = "push"
    /\ Plan["claim"][1] = "lock" /\ Plan["claim"][2] = "look" /\ Plan["claim"][3] = "claim"
         /\ Plan["claim"][4] = "commit"
    /\ Plan["release"][1] = "lock" /\ Plan["release"][2] = "release"
         /\ Plan["release"][3] = "commit"
    /\ Plan["fact"][1] = "delta" /\ Plan["fact"][2] = "lock" /\ Plan["fact"][3] = "commit"
    /\ Plan["event"][1] = "delta"
  BY DEF Plan

\* The next step of a call is the one its plan has there.
LEMMA StepOfPlan ==
    ASSUME NEW c \in CallRecords, OnPlan(c), c.todo # <<>>
    PROVE  /\ c.op \in DOMAIN Plan
           /\ Len(c.todo) \in 1 .. Len(Plan[c.op])
           /\ Head(c.todo) = Plan[c.op][Len(Plan[c.op]) - Len(c.todo) + 1]
<1>1. c.todo \in Seq(Steps)
  BY DEF CallRecords
<1>2. Len(c.todo) \in Nat /\ Len(c.todo) > 0 /\ Head(c.todo) = c.todo[1]
  BY <1>1
<1>3. c.op \in DOMAIN Plan
  BY DEF OnPlan
<1>4. PICK n \in Nat : n = Len(Plan[c.op])
  BY <1>3, PlanLengths
<1>7. Len(c.todo) <= n
  BY <1>3, <1>4 DEF OnPlan
<1>5. 1 \in 1 .. Len(c.todo)
  BY <1>2
<1>6. c.todo[1] = Plan[c.op][Len(Plan[c.op]) - Len(c.todo) + 1]
  BY <1>3, <1>5 DEF OnPlan
<1>8. Len(c.todo) \in 1 .. Len(Plan[c.op])
  BY <1>2, <1>4, <1>7
<1> QED
  BY <1>2, <1>3, <1>6, <1>8

\* A step says which call it is of, and how much of the call is left.
LEMMA HeadSays ==
    ASSUME NEW c \in CallRecords, OnPlan(c), c.todo # <<>>
    PROVE  /\ Head(c.todo) = "lock" => <<c.op, Len(c.todo)>> \in
                 {<<"task", 5>>, <<"post", 5>>, <<"goal", 5>>, <<"sync", 4>>, <<"claim", 4>>,
                  <<"release", 3>>, <<"fact", 2>>}
           /\ Head(c.todo) = "delta" => <<c.op, Len(c.todo)>> \in
                 {<<"task", 4>>, <<"post", 3>>, <<"fact", 3>>, <<"event", 1>>}
           /\ Head(c.todo) = "rows" => <<c.op, Len(c.todo)>> = <<"task", 3>>
           /\ Head(c.todo) = "board" => <<c.op, Len(c.todo)>> = <<"task", 2>>
           /\ Head(c.todo) = "goal" => <<c.op, Len(c.todo)>> = <<"goal", 3>>
           /\ Head(c.todo) = "look" => <<c.op, Len(c.todo)>> = <<"claim", 3>>
           /\ Head(c.todo) = "claim" => <<c.op, Len(c.todo)>> = <<"claim", 2>>
           /\ Head(c.todo) = "release" => <<c.op, Len(c.todo)>> = <<"release", 2>>
           /\ Head(c.todo) = "pull" => <<c.op, Len(c.todo)>> \in
                 {<<"post", 4>>, <<"goal", 4>>, <<"sync", 3>>}
           /\ Head(c.todo) = "commit" => <<c.op, Len(c.todo)>> \in
                 {<<"task", 1>>, <<"post", 2>>, <<"goal", 2>>, <<"sync", 2>>, <<"claim", 1>>,
                  <<"release", 1>>, <<"fact", 1>>}
           /\ Head(c.todo) = "push" => <<c.op, Len(c.todo)>> \in
                 {<<"post", 1>>, <<"goal", 1>>, <<"sync", 1>>}
<1>1. /\ c.op \in DOMAIN Plan
      /\ Len(c.todo) \in 1 .. Len(Plan[c.op])
      /\ Head(c.todo) = Plan[c.op][Len(Plan[c.op]) - Len(c.todo) + 1]
  BY StepOfPlan
<1>2. PICK n \in Nat : n = Len(c.todo)
  BY <1>1, PlanLengths
<1>task. CASE c.op = "task"
  <2>1. n \in 1 .. 5 /\ Head(c.todo) = Plan["task"][5 - n + 1]
    BY <1>1, <1>2, <1>task, PlanLengths
  <2>c5. CASE n = 5
    <3>1. Head(c.todo) = "lock"
      BY <2>1, <2>c5, PlanSteps
    <3> QED
      BY <1>2, <1>task, <2>c5, <3>1
  <2>c4. CASE n = 4
    <3>1. Head(c.todo) = "delta"
      BY <2>1, <2>c4, PlanSteps
    <3> QED
      BY <1>2, <1>task, <2>c4, <3>1
  <2>c3. CASE n = 3
    <3>1. Head(c.todo) = "rows"
      BY <2>1, <2>c3, PlanSteps
    <3> QED
      BY <1>2, <1>task, <2>c3, <3>1
  <2>c2. CASE n = 2
    <3>1. Head(c.todo) = "board"
      BY <2>1, <2>c2, PlanSteps
    <3> QED
      BY <1>2, <1>task, <2>c2, <3>1
  <2>c1. CASE n = 1
    <3>1. Head(c.todo) = "commit"
      BY <2>1, <2>c1, PlanSteps
    <3> QED
      BY <1>2, <1>task, <2>c1, <3>1
  <2> QED
    BY <2>1, <2>c5, <2>c4, <2>c3, <2>c2, <2>c1
<1>post. CASE c.op = "post"
  <2>1. n \in 1 .. 5 /\ Head(c.todo) = Plan["post"][5 - n + 1]
    BY <1>1, <1>2, <1>post, PlanLengths
  <2>c5. CASE n = 5
    <3>1. Head(c.todo) = "lock"
      BY <2>1, <2>c5, PlanSteps
    <3> QED
      BY <1>2, <1>post, <2>c5, <3>1
  <2>c4. CASE n = 4
    <3>1. Head(c.todo) = "pull"
      BY <2>1, <2>c4, PlanSteps
    <3> QED
      BY <1>2, <1>post, <2>c4, <3>1
  <2>c3. CASE n = 3
    <3>1. Head(c.todo) = "delta"
      BY <2>1, <2>c3, PlanSteps
    <3> QED
      BY <1>2, <1>post, <2>c3, <3>1
  <2>c2. CASE n = 2
    <3>1. Head(c.todo) = "commit"
      BY <2>1, <2>c2, PlanSteps
    <3> QED
      BY <1>2, <1>post, <2>c2, <3>1
  <2>c1. CASE n = 1
    <3>1. Head(c.todo) = "push"
      BY <2>1, <2>c1, PlanSteps
    <3> QED
      BY <1>2, <1>post, <2>c1, <3>1
  <2> QED
    BY <2>1, <2>c5, <2>c4, <2>c3, <2>c2, <2>c1
<1>goal. CASE c.op = "goal"
  <2>1. n \in 1 .. 5 /\ Head(c.todo) = Plan["goal"][5 - n + 1]
    BY <1>1, <1>2, <1>goal, PlanLengths
  <2>c5. CASE n = 5
    <3>1. Head(c.todo) = "lock"
      BY <2>1, <2>c5, PlanSteps
    <3> QED
      BY <1>2, <1>goal, <2>c5, <3>1
  <2>c4. CASE n = 4
    <3>1. Head(c.todo) = "pull"
      BY <2>1, <2>c4, PlanSteps
    <3> QED
      BY <1>2, <1>goal, <2>c4, <3>1
  <2>c3. CASE n = 3
    <3>1. Head(c.todo) = "goal"
      BY <2>1, <2>c3, PlanSteps
    <3> QED
      BY <1>2, <1>goal, <2>c3, <3>1
  <2>c2. CASE n = 2
    <3>1. Head(c.todo) = "commit"
      BY <2>1, <2>c2, PlanSteps
    <3> QED
      BY <1>2, <1>goal, <2>c2, <3>1
  <2>c1. CASE n = 1
    <3>1. Head(c.todo) = "push"
      BY <2>1, <2>c1, PlanSteps
    <3> QED
      BY <1>2, <1>goal, <2>c1, <3>1
  <2> QED
    BY <2>1, <2>c5, <2>c4, <2>c3, <2>c2, <2>c1
<1>sync. CASE c.op = "sync"
  <2>1. n \in 1 .. 4 /\ Head(c.todo) = Plan["sync"][4 - n + 1]
    BY <1>1, <1>2, <1>sync, PlanLengths
  <2>c4. CASE n = 4
    <3>1. Head(c.todo) = "lock"
      BY <2>1, <2>c4, PlanSteps
    <3> QED
      BY <1>2, <1>sync, <2>c4, <3>1
  <2>c3. CASE n = 3
    <3>1. Head(c.todo) = "pull"
      BY <2>1, <2>c3, PlanSteps
    <3> QED
      BY <1>2, <1>sync, <2>c3, <3>1
  <2>c2. CASE n = 2
    <3>1. Head(c.todo) = "commit"
      BY <2>1, <2>c2, PlanSteps
    <3> QED
      BY <1>2, <1>sync, <2>c2, <3>1
  <2>c1. CASE n = 1
    <3>1. Head(c.todo) = "push"
      BY <2>1, <2>c1, PlanSteps
    <3> QED
      BY <1>2, <1>sync, <2>c1, <3>1
  <2> QED
    BY <2>1, <2>c4, <2>c3, <2>c2, <2>c1
<1>claim. CASE c.op = "claim"
  <2>1. n \in 1 .. 4 /\ Head(c.todo) = Plan["claim"][4 - n + 1]
    BY <1>1, <1>2, <1>claim, PlanLengths
  <2>c4. CASE n = 4
    <3>1. Head(c.todo) = "lock"
      BY <2>1, <2>c4, PlanSteps
    <3> QED
      BY <1>2, <1>claim, <2>c4, <3>1
  <2>c3. CASE n = 3
    <3>1. Head(c.todo) = "look"
      BY <2>1, <2>c3, PlanSteps
    <3> QED
      BY <1>2, <1>claim, <2>c3, <3>1
  <2>c2. CASE n = 2
    <3>1. Head(c.todo) = "claim"
      BY <2>1, <2>c2, PlanSteps
    <3> QED
      BY <1>2, <1>claim, <2>c2, <3>1
  <2>c1. CASE n = 1
    <3>1. Head(c.todo) = "commit"
      BY <2>1, <2>c1, PlanSteps
    <3> QED
      BY <1>2, <1>claim, <2>c1, <3>1
  <2> QED
    BY <2>1, <2>c4, <2>c3, <2>c2, <2>c1
<1>release. CASE c.op = "release"
  <2>1. n \in 1 .. 3 /\ Head(c.todo) = Plan["release"][3 - n + 1]
    BY <1>1, <1>2, <1>release, PlanLengths
  <2>c3. CASE n = 3
    <3>1. Head(c.todo) = "lock"
      BY <2>1, <2>c3, PlanSteps
    <3> QED
      BY <1>2, <1>release, <2>c3, <3>1
  <2>c2. CASE n = 2
    <3>1. Head(c.todo) = "release"
      BY <2>1, <2>c2, PlanSteps
    <3> QED
      BY <1>2, <1>release, <2>c2, <3>1
  <2>c1. CASE n = 1
    <3>1. Head(c.todo) = "commit"
      BY <2>1, <2>c1, PlanSteps
    <3> QED
      BY <1>2, <1>release, <2>c1, <3>1
  <2> QED
    BY <2>1, <2>c3, <2>c2, <2>c1
<1>fact. CASE c.op = "fact"
  <2>1. n \in 1 .. 3 /\ Head(c.todo) = Plan["fact"][3 - n + 1]
    BY <1>1, <1>2, <1>fact, PlanLengths
  <2>c3. CASE n = 3
    <3>1. Head(c.todo) = "delta"
      BY <2>1, <2>c3, PlanSteps
    <3> QED
      BY <1>2, <1>fact, <2>c3, <3>1
  <2>c2. CASE n = 2
    <3>1. Head(c.todo) = "lock"
      BY <2>1, <2>c2, PlanSteps
    <3> QED
      BY <1>2, <1>fact, <2>c2, <3>1
  <2>c1. CASE n = 1
    <3>1. Head(c.todo) = "commit"
      BY <2>1, <2>c1, PlanSteps
    <3> QED
      BY <1>2, <1>fact, <2>c1, <3>1
  <2> QED
    BY <2>1, <2>c3, <2>c2, <2>c1
<1>event. CASE c.op = "event"
  <2>1. n \in 1 .. 1 /\ Head(c.todo) = Plan["event"][1 - n + 1]
    BY <1>1, <1>2, <1>event, PlanLengths
  <2>c1. CASE n = 1
    <3>1. Head(c.todo) = "delta"
      BY <2>1, <2>c1, PlanSteps
    <3> QED
      BY <1>2, <1>event, <2>c1, <3>1
  <2> QED
    BY <2>1, <2>c1
<1> QED
  BY <1>1, <1>task, <1>post, <1>goal, <1>sync, <1>claim, <1>release, <1>fact, <1>event, PlanLengths

\* A call that has taken a step is still on its plan.
LEMMA TailOfPlan ==
    ASSUME NEW c \in CallRecords, OnPlan(c), c.todo # <<>>, NEW d \in CallRecords,
           d.op = c.op, d.todo = Tail(c.todo)
    PROVE  OnPlan(d) /\ Len(d.todo) = Len(c.todo) - 1
<1>1. c.todo \in Seq(Steps)
  BY DEF CallRecords
<1>2. /\ Len(c.todo) \in Nat /\ Len(c.todo) > 0
      /\ Len(d.todo) = Len(c.todo) - 1
      /\ \A i \in 1 .. Len(d.todo) : d.todo[i] = c.todo[i + 1]
  BY <1>1
<1>3. c.op \in DOMAIN Plan
  BY StepOfPlan
<1>a. Plan[c.op] \in Seq(Steps)
  BY <1>3, PlanLengths
<1>7. PICK k \in Nat : k = Len(c.todo)
  BY <1>2
<1>8. PICK m \in Nat : m = Len(d.todo)
  BY DEF CallRecords
<1>6. PICK p \in Nat : p = Len(Plan[c.op])
  BY <1>a
<1>4. Len(d.todo) <= Len(Plan[d.op])
  BY <1>2, <1>3, <1>6 DEF OnPlan
<1>5. ASSUME NEW i \in 1 .. Len(d.todo)
      PROVE  d.todo[i] = Plan[d.op][Len(Plan[d.op]) - Len(d.todo) + i]
  <2>0. i \in Nat
    BY <1>2
  <2>1. i + 1 \in 1 .. Len(c.todo)
    BY <1>2
  <2>2. d.todo[i] = Plan[c.op][Len(Plan[c.op]) - Len(c.todo) + (i + 1)]
    BY <2>1, <1>2, <1>3 DEF OnPlan
  <2>3. m = k - 1
    BY <1>2, <1>7, <1>8
  <2>4. p - k + (i + 1) = p - m + i
    BY <2>0, <2>3
  <2> QED
    BY <1>6, <1>7, <1>8, <2>2, <2>4
<1> QED
  BY <1>2, <1>3, <1>4, <1>5 DEF OnPlan


-----------------------------------------------------------------------------
\* Calls.

\* A call is at some place of its plan, with an argument of its kind.
CallFits(c) ==
    /\ OnPlan(c)
    /\ c.op = "task" => c.arg \in Ids /\ c.delta \subseteq TaskDeltas
    /\ c.op \in {"claim", "release"} => c.arg \in Lockable
    /\ c.op \in {"post", "fact", "event"} => c.arg = 0
    /\ c.op = "post" => \A d \in c.delta : d.kind = "chat"

CallsFit == call \in [Agents -> CallRecords] /\ \A a \in Agents : CallFits(call[a])

\* An empty board is a board.
LEMMA NoRows == <<>> \in PartialRows
<1>1. <<>> \in [{} -> TaskDeltas]
  OBVIOUS
<1> QED
  BY <1>1 DEF PartialRows

\* An agent that calls nothing fits.
LEMMA NoCallFits == NoCall \in CallRecords /\ CallFits(NoCall)
<1>1. NoCall \in CallRecords
  BY NoRows DEF NoCall, CallRecords
<1> QED
  BY <1>1, PlanLengths DEF NoCall, CallFits, OnPlan

\* What an agent's step leaves of the calls, and what becomes of its own.
Becomes(a, e) ==
    /\ call'[a] = e
    /\ \A b \in Agents : b # a => call'[b] = call[b]

\* A step of one agent changes that agent's call.
LEMMA CallBecomes ==
    ASSUME CallsFit, NEW a \in Agents, NEW e \in CallRecords, CallFits(e),
           call' = [call EXCEPT ![a] = e]
    PROVE  CallsFit' /\ Becomes(a, e)
  BY DEF CallsFit, Becomes

Fresh(op, p, arg) == [NoCall EXCEPT !.op = op, !.todo = p, !.arg = arg]

\* The fields of a call that begins.
LEMMA FreshFields ==
    ASSUME NEW op \in DOMAIN Plan, NEW p \in Seq(Steps), NEW arg \in Ids \cup Lockable \cup {0}
    PROVE  /\ Fresh(op, p, arg) \in CallRecords
           /\ Fresh(op, p, arg).op = op /\ Fresh(op, p, arg).todo = p
           /\ Fresh(op, p, arg).arg = arg /\ Fresh(op, p, arg).delta = {}
<1>1. NoCall \in CallRecords /\ NoCall.delta = {}
  BY NoCallFits DEF NoCall
<1> QED
  BY <1>1 DEF CallRecords, Fresh

\* A call begins with its whole plan.
LEMMA BeginFits ==
    ASSUME CallsFit, NEW a \in Agents, NEW op \in Calls[a], NEW arg \in Arguments(op),
           Begin(a, op, arg)
    PROVE  /\ CallsFit'
           /\ Becomes(a, Fresh(op, Plan[op], arg))
<1>1. op \in DOMAIN Plan
  BY BoardConstants
<1>2. PICK p : p = Plan[op]
  OBVIOUS
<1>3. p \in Seq(Steps) /\ p = Plan[op] /\ Len(p) \in Nat
  BY <1>1, <1>2, PlanLengths
<1>4. arg \in Ids \cup Lockable \cup {0}
  BY <1>1 DEF Arguments
<1>5. PICK e : e = Fresh(op, p, arg)
  OBVIOUS
<1>6. e \in CallRecords /\ e.op = op /\ e.todo = p /\ e.arg = arg /\ e.delta = {}
  BY <1>1, <1>3, <1>4, <1>5, FreshFields
<1>7. Len(Plan[op]) - Len(p) = 0
  BY <1>3
<1>8. CallFits(e)
  <2>1. OnPlan(e)
    BY <1>1, <1>3, <1>6, <1>7 DEF OnPlan
  <2> QED
    BY <2>1, <1>6 DEF CallFits, Arguments
<1>9. call' = [call EXCEPT ![a] = e]
  BY <1>2, <1>5 DEF Begin, Fresh
<1> QED
  BY <1>2, <1>5, <1>6, <1>8, <1>9, CallBecomes

\* The three ways in which a step goes on, with the fields it sets.
LEMMA CallProceeds ==
    ASSUME CallsFit, NEW a \in Agents, call[a].todo # <<>>,
           NEW e \in CallRecords, e.op = call[a].op, e.arg = call[a].arg,
           e.todo = Tail(call[a].todo),
           e.op = "task" => e.delta \subseteq TaskDeltas,
           e.op = "post" => \A d \in e.delta : d.kind = "chat",
           call' = [call EXCEPT ![a] = e]
    PROVE  /\ CallsFit' /\ Becomes(a, e)
           /\ Len(e.todo) = Len(call[a].todo) - 1
<1>1. call[a] \in CallRecords /\ CallFits(call[a])
  BY DEF CallsFit
<1>2. OnPlan(e) /\ Len(e.todo) = Len(call[a].todo) - 1
  BY <1>1, TailOfPlan DEF CallFits
<1>3. CallFits(e)
  BY <1>1, <1>2 DEF CallFits
<1> QED
  BY <1>2, <1>3, CallBecomes

\* A step that changes no field of the call but what is left to do.
LEMMA ProceedsDoes ==
    ASSUME CallsFit, NEW a \in Agents, call[a].todo # <<>>, Proceeds(a)
    PROVE  \E e \in CallRecords :
              /\ CallsFit' /\ Becomes(a, e)
              /\ e.op = call[a].op /\ e.arg = call[a].arg /\ e.todo = Tail(call[a].todo)
              /\ Len(e.todo) = Len(call[a].todo) - 1
              /\ e.delta = call[a].delta /\ e.rows = call[a].rows
<1>1. call[a] \in CallRecords /\ CallFits(call[a])
  BY DEF CallsFit
<1>2. PICK c \in CallRecords : c = call[a]
  BY <1>1
<1>3. PICK t : t = Tail(c.todo)
  OBVIOUS
<1>4. t \in Seq(Steps)
  BY <1>2, <1>3 DEF CallRecords
<1>5. PICK e : e = [c EXCEPT !.todo = t]
  OBVIOUS
<1>6. /\ e \in CallRecords
      /\ e.op = c.op /\ e.arg = c.arg /\ e.todo = t /\ e.delta = c.delta /\ e.rows = c.rows
  BY <1>2, <1>4, <1>5 DEF CallRecords
<1>7. call' = [call EXCEPT ![a] = e]
  BY <1>2, <1>3, <1>5 DEF Proceeds
<1>8. CallsFit' /\ Becomes(a, e) /\ Len(e.todo) = Len(call[a].todo) - 1
  BY <1>1, <1>2, <1>3, <1>6, <1>7, CallProceeds DEF CallFits
<1> QED
  BY <1>2, <1>3, <1>6, <1>8

\* A step that ends in an exception.
LEMMA RaisesDoes ==
    ASSUME CallsFit, NEW a \in Agents, Raises(a)
    PROVE  \E e \in CallRecords :
              CallsFit' /\ Becomes(a, e) /\ e.op = "failed" /\ e.todo = <<>>
<1>1. PICK c \in CallRecords : c = call[a]
  BY DEF CallsFit
<1>z. PICK z \in Seq(Steps) : z = <<>>
  BY EmptySeq
<1>2. PICK e : e = [c EXCEPT !.todo = z, !.op = "failed"]
  OBVIOUS
<1>3. e \in CallRecords /\ e.op = "failed" /\ e.todo = <<>>
  BY <1>1, <1>2, <1>z DEF CallRecords
<1>4. CallFits(e)
  BY <1>3, PlanLengths DEF CallFits, OnPlan
<1>5. call' = [call EXCEPT ![a] = e]
  BY <1>1, <1>2, <1>z DEF Raises
<1> QED
  BY <1>3, <1>4, <1>5, CallBecomes

\* A step that skips the rest of the call.
LEMMA SkipsDoes ==
    ASSUME CallsFit, NEW a \in Agents, Skips(a)
    PROVE  \E e \in CallRecords :
              /\ CallsFit' /\ Becomes(a, e)
              /\ e.op = call[a].op /\ e.arg = call[a].arg /\ e.todo = <<>>
<1>1. PICK c \in CallRecords : c = call[a]
  BY DEF CallsFit
<1>z. PICK z \in Seq(Steps) : z = <<>>
  BY EmptySeq
<1>2. PICK e : e = [c EXCEPT !.todo = z]
  OBVIOUS
<1>3. /\ e \in CallRecords /\ e.op = c.op /\ e.arg = c.arg /\ e.todo = <<>>
      /\ e.delta = c.delta
  BY <1>1, <1>2, <1>z DEF CallRecords
<1>4. CallFits(c)
  BY <1>1 DEF CallsFit
<1>5. OnPlan(e)
  BY <1>3, PlanLengths DEF OnPlan
<1>6. CallFits(e)
  BY <1>3, <1>4, <1>5 DEF CallFits
<1>7. call' = [call EXCEPT ![a] = e]
  BY <1>1, <1>2, <1>z DEF Skips
<1> QED
  BY <1>1, <1>3, <1>6, <1>7, CallBecomes

\* The call ends.
LEMMA EndDoes ==
    ASSUME CallsFit, NEW a \in Agents, call' = [call EXCEPT ![a] = NoCall]
    PROVE  CallsFit' /\ Becomes(a, NoCall)
  BY NoCallFits, CallBecomes

\* A file is written, or the rows are read.
LEMMA DeltaWritten ==
    ASSUME CallsFit, NEW a \in Agents, call[a].todo # <<>>, NEW d \in BoardDeltas,
           call[a].op = "task" => d \in TaskDeltas,
           call[a].op = "post" => d.kind = "chat",
           call' = [call EXCEPT ![a].todo = Tail(@), ![a].delta = {d}]
    PROVE  \E e \in CallRecords :
              /\ CallsFit' /\ Becomes(a, e)
              /\ e.op = call[a].op /\ e.arg = call[a].arg /\ e.todo = Tail(call[a].todo)
              /\ Len(e.todo) = Len(call[a].todo) - 1
              /\ e.delta = {d} /\ e.rows = call[a].rows
<1>1. call[a] \in CallRecords /\ CallFits(call[a])
  BY DEF CallsFit
<1>2. PICK c \in CallRecords : c = call[a]
  BY <1>1
<1>3. PICK t : t = Tail(c.todo)
  OBVIOUS
<1>4. t \in Seq(Steps)
  BY <1>2, <1>3 DEF CallRecords
<1>5. PICK e : e = [c EXCEPT !.todo = t, !.delta = {d}]
  OBVIOUS
<1>6. /\ e \in CallRecords
      /\ e.op = c.op /\ e.arg = c.arg /\ e.todo = t /\ e.delta = {d} /\ e.rows = c.rows
  BY <1>2, <1>4, <1>5 DEF CallRecords
<1>7. call' = [call EXCEPT ![a] = e]
  BY <1>2, <1>3, <1>5
<1>8. /\ e.op = call[a].op /\ e.arg = call[a].arg /\ e.todo = Tail(call[a].todo)
      /\ e.op = "task" => e.delta \subseteq TaskDeltas
      /\ e.op = "post" => \A f \in e.delta : f.kind = "chat"
  BY <1>2, <1>3, <1>6
<1>9. CallsFit' /\ Becomes(a, e) /\ Len(e.todo) = Len(call[a].todo) - 1
  BY <1>6, <1>7, <1>8, CallProceeds
<1> QED
  BY <1>2, <1>3, <1>6, <1>9

\* The rows that were read are kept in the call.
LEMMA RowsRead ==
    ASSUME CallsFit, NEW a \in Agents, call[a].todo # <<>>, NEW r \in PartialRows,
           call' = [call EXCEPT ![a].todo = Tail(@), ![a].rows = r]
    PROVE  \E e \in CallRecords :
              /\ CallsFit' /\ Becomes(a, e)
              /\ e.op = call[a].op /\ e.arg = call[a].arg /\ e.todo = Tail(call[a].todo)
              /\ Len(e.todo) = Len(call[a].todo) - 1
              /\ e.delta = call[a].delta /\ e.rows = r
<1>1. call[a] \in CallRecords /\ CallFits(call[a])
  BY DEF CallsFit
<1>2. PICK c \in CallRecords : c = call[a]
  BY <1>1
<1>3. PICK t : t = Tail(c.todo)
  OBVIOUS
<1>4. t \in Seq(Steps)
  BY <1>2, <1>3 DEF CallRecords
<1>5. PICK e : e = [c EXCEPT !.todo = t, !.rows = r]
  OBVIOUS
<1>6. /\ e \in CallRecords
      /\ e.op = c.op /\ e.arg = c.arg /\ e.todo = t /\ e.delta = c.delta /\ e.rows = r
  BY <1>2, <1>4, <1>5 DEF CallRecords
<1>7. call' = [call EXCEPT ![a] = e]
  BY <1>2, <1>3, <1>5
<1>8. CallsFit' /\ Becomes(a, e) /\ Len(e.todo) = Len(call[a].todo) - 1
  BY <1>1, <1>2, <1>3, <1>6, <1>7, CallProceeds DEF CallFits
<1> QED
  BY <1>2, <1>3, <1>6, <1>8

-----------------------------------------------------------------------------
\* The order of deltas, and what is read of them.

\* The constants are numbers, and agents belong to clones.
LEMMA Limits ==
    /\ FutureSkew \in Nat /\ MaxWriters \in Nat /\ MaxEntries \in Nat /\ MaxFiles \in Nat
    /\ MaxCalls \in Nat /\ MaxNow \in Nat
    /\ Agents \cup {0} \subseteq Nat /\ 0 \notin Agents
    /\ \A a \in Agents : CloneOf[a] \in Clones
    /\ \A c \in Clones : Ahead[c] \in Nat
  BY BoardConstants

\* Deltas are ordered by timestamp, writer and file name.
LEMMA EarlierOrder ==
    /\ \A d, e, f \in BoardDeltas : Earlier(d, e) /\ Earlier(e, f) => Earlier(d, f)
    /\ \A d, e, f \in BoardDeltas : ~Earlier(d, e) /\ ~Earlier(e, f) => ~Earlier(d, f)
    /\ \A d \in BoardDeltas : ~Earlier(d, d)
    /\ \A d, e \in BoardDeltas :
          Earlier(d, e) \/ Earlier(e, d) \/ <<d.w, d.at, d.n>> = <<e.w, e.at, e.n>>
<1>1. \A d \in BoardDeltas : d.w \in Nat /\ d.at \in Nat /\ d.n \in Nat
  BY Limits DEF BoardDeltas
<1> QED
  BY <1>1 DEF Earlier

Distinct(files) ==
    \A d, e \in files : <<d.w, d.at, d.n>> = <<e.w, e.at, e.n>> => d = e

\* Among the deltas of a task one is the last.
LEMMA LastDelta ==
    ASSUME NEW files, IsFiniteSet(files), files \subseteq BoardDeltas, Distinct(files),
           NEW i, \E d \in files : d.id = i
    PROVE  \E d \in files : d.id = i /\ \A e \in files \ {d} : e.id = i => Earlier(e, d)
<1> DEFINE S == {d \in files : d.id = i}
           Later(x) == {f \in S : Earlier(x, f)}
           B == {Later(x) : x \in S}
<1>1. IsFiniteSet(S)
  BY FS_Subset
<1>2. \A x \in S : IsFiniteSet(Later(x))
  BY <1>1, FS_Subset
<1>3. PICK x \in S : \A y \in S : Cardinality(Later(x)) <= Cardinality(Later(y))
  <2>1. B # {} /\ \A T \in B : IsFiniteSet(T)
    BY <1>2
  <2>2. PICK T \in B : \A U \in B : Cardinality(T) <= Cardinality(U)
    BY <2>1, SmallestSet
  <2> QED
    BY <2>2
<1>4. Later(x) = {}
  <2> SUFFICES ASSUME NEW f \in Later(x) PROVE FALSE
    OBVIOUS
  <2>1. f \in S /\ Later(f) \subseteq Later(x) /\ f \notin Later(f)
    BY EarlierOrder
  <2>2. /\ Cardinality(Later(f)) <= Cardinality(Later(x))
        /\ Cardinality(Later(f)) = Cardinality(Later(x)) => Later(f) = Later(x)
    BY <1>2, <2>1, FS_Subset
  <2>3. Cardinality(Later(f)) \in Nat /\ Cardinality(Later(x)) \in Nat
    BY <1>2, <2>1, FS_CardinalityType
  <2>4. Cardinality(Later(x)) <= Cardinality(Later(f))
    BY <1>3, <2>1
  <2> QED
    BY <2>1, <2>2, <2>3, <2>4
<1>5. ASSUME NEW e \in files \ {x}, e.id = i PROVE Earlier(e, x)
  <2>1. e \in S /\ ~Earlier(x, e)
    BY <1>4, <1>5
  <2> QED
    BY <2>1, EarlierOrder DEF Distinct
<1> QED
  BY <1>3, <1>5

Covered(rows, d) == d.id \in DOMAIN rows /\ ~Earlier(rows[d.id], d)

\* The projection has a row for each task, which is the last of its deltas.
LEMMA RowsOfBoard ==
    ASSUME NEW files, IsFiniteSet(files), files \subseteq TaskDeltas, Distinct(files)
    PROVE  /\ BoardRows(files) \in PartialRows
           /\ \A i \in DOMAIN BoardRows(files) :
                 BoardRows(files)[i] \in files /\ BoardRows(files)[i].id = i
           /\ \A d \in files : Covered(BoardRows(files), d)
<1>1. files \subseteq BoardDeltas
  BY DEF TaskDeltas
<1> DEFINE dom == {d.id : d \in files}
           last(i) == CHOOSE d \in files : d.id = i /\ \A e \in files \ {d} :
                                              e.id = i => Earlier(e, d)
<1>2. \A i \in dom : /\ last(i) \in files /\ last(i).id = i
                     /\ \A e \in files \ {last(i)} : e.id = i => Earlier(e, last(i))
  BY <1>1, LastDelta
<1>3. BoardRows(files) = [i \in dom |-> last(i)]
  BY DEF BoardRows
<1>4. dom \subseteq Ids
  BY DEF TaskDeltas, BoardDeltas
<1> HIDE DEF last
<1>5. BoardRows(files) \in PartialRows
  <2>1. \A i \in dom : last(i) \in TaskDeltas
    BY <1>2
  <2>2. [i \in dom |-> last(i)] \in [dom -> TaskDeltas]
    BY <2>1
  <2> QED
    BY <1>3, <1>4, <2>2 DEF PartialRows
<1>6. ASSUME NEW d \in files PROVE Covered(BoardRows(files), d)
  <2>1. d.id \in dom /\ BoardRows(files)[d.id] = last(d.id)
    BY <1>3
  <2>2. d = last(d.id) \/ Earlier(d, last(d.id))
    BY <1>2, <2>1
  <2>3. ~Earlier(last(d.id), d)
    BY <1>1, <1>2, <2>1, <2>2, EarlierOrder
  <2> QED
    BY <1>3, <2>1, <2>3 DEF Covered
<1> QED
  BY <1>2, <1>3, <1>5, <1>6

\* The limits of a read.
Fits(files) ==
    /\ Excess(files) = {}
    /\ Cardinality(WriterDirs(files)) <= MaxWriters
    /\ Cardinality({e \in files : e.kind = "task"}) <= MaxFiles

\* Part of a finite set is finite and no larger.
LEMMA CardsGrow ==
    ASSUME NEW T, IsFiniteSet(T), NEW S, S \subseteq T
    PROVE  /\ IsFiniteSet(S) /\ Cardinality(S) \in Nat /\ Cardinality(T) \in Nat
           /\ Cardinality(S) <= Cardinality(T)
  BY FS_Subset, FS_CardinalityType

\* Finitely many files are in finitely many directories.
LEMMA WriterDirsFinite ==
    ASSUME NEW E, IsFiniteSet(E)
    PROVE  IsFiniteSet(WriterDirs(E))
<1> DEFINE f == [d \in E |-> d.w]
<1>1. f \in Surjection(E, WriterDirs(E))
  BY DEF Surjection, WriterDirs
<1> QED
  BY <1>1, FS_Surjection

\* Fewer deltas fit as well.
LEMMA FewerFit ==
    ASSUME NEW E, IsFiniteSet(E), E \subseteq BoardDeltas, NEW D, D \subseteq E, Fits(E)
    PROVE  Fits(D)
<1>1. \A d \in E : d.w \in Nat
  BY Limits DEF BoardDeltas
<1>2. IsFiniteSet(WriterDirs(E)) /\ WriterDirs(D) \subseteq WriterDirs(E)
  BY WriterDirsFinite DEF WriterDirs
<1>3. Cardinality(WriterDirs(D)) <= MaxWriters
  <2>1. Cardinality(WriterDirs(D)) \in Nat /\ Cardinality(WriterDirs(E)) \in Nat
        /\ Cardinality(WriterDirs(D)) <= Cardinality(WriterDirs(E))
    BY <1>2, CardsGrow
  <2> QED
    BY <2>1, Limits DEF Fits
<1>4. Cardinality({e \in D : e.kind = "task"}) <= MaxFiles
  <2>1. /\ IsFiniteSet({e \in E : e.kind = "task"})
        /\ {e \in D : e.kind = "task"} \subseteq {e \in E : e.kind = "task"}
    BY FS_Subset
  <2>2. /\ Cardinality({e \in D : e.kind = "task"}) \in Nat
        /\ Cardinality({e \in E : e.kind = "task"}) \in Nat
        /\ Cardinality({e \in D : e.kind = "task"}) <= Cardinality({e \in E : e.kind = "task"})
    BY <2>1, CardsGrow
  <2> QED
    BY <2>2, Limits DEF Fits
<1>5. ASSUME NEW w \in WriterDirs(D), EntriesAt(D, w) + Cardinality(WrittenBy(D, w)) > MaxEntries
      PROVE  FALSE
  <2> DEFINE dirsD == {x \in WriterDirs(D) : x <= w}
             dirsE == {x \in WriterDirs(E) : x <= w}
             lessD == {d \in D : d.w < w}
             lessE == {d \in E : d.w < w}
  <2>1. /\ Cardinality(dirsD) \in Nat /\ Cardinality(dirsE) \in Nat
        /\ Cardinality(dirsD) <= Cardinality(dirsE)
    <3>1. IsFiniteSet(dirsE)
      BY <1>2, CardsGrow
    <3> QED
      BY <1>2, <3>1, CardsGrow
  <2>2. /\ Cardinality(lessD) \in Nat /\ Cardinality(lessE) \in Nat
        /\ Cardinality(lessD) <= Cardinality(lessE)
    <3>1. IsFiniteSet(lessE)
      BY CardsGrow
    <3> QED
      BY <3>1, CardsGrow
  <2>3. /\ Cardinality(WrittenBy(D, w)) \in Nat /\ Cardinality(WrittenBy(E, w)) \in Nat
        /\ Cardinality(WrittenBy(D, w)) <= Cardinality(WrittenBy(E, w))
    <3>1. IsFiniteSet(WrittenBy(E, w)) /\ WrittenBy(D, w) \subseteq WrittenBy(E, w)
      BY CardsGrow DEF WrittenBy
    <3> QED
      BY <3>1, CardsGrow
  <2>4. /\ EntriesAt(D, w) = Cardinality(dirsD) + Cardinality(lessD)
        /\ EntriesAt(E, w) = Cardinality(dirsE) + Cardinality(lessE)
    BY DEF EntriesAt
  <2> HIDE DEF dirsD, dirsE, lessD, lessE
  <2>5. EntriesAt(E, w) + Cardinality(WrittenBy(E, w)) > MaxEntries
    BY <1>5, <2>1, <2>2, <2>3, <2>4, Limits
  <2> QED
    BY <1>2, <2>5 DEF Fits, Excess
<1>6. Excess(D) = {}
  BY <1>5 DEF Excess
<1> QED
  BY <1>3, <1>4, <1>6 DEF Fits

\* A read of tasks returns tasks, and all of them if they fit.
LEMMA ReadReturns ==
    ASSUME NEW c \in Clones, IsFiniteSet(work[c].deltas)
    PROVE  /\ Read(c, "task") \subseteq {d \in work[c].deltas : d.kind = "task"}
           /\ Fits(work[c].deltas) /\ (\A d \in work[c].deltas : d.at <= Clock(c) + FutureSkew)
                 => Read(c, "task") = {d \in work[c].deltas : d.kind = "task"}
<1>1. Read(c, "task") \subseteq {d \in work[c].deltas : d.kind = "task"}
  BY DEF Read
<1>2. ASSUME Fits(work[c].deltas), \A d \in work[c].deltas : d.at <= Clock(c) + FutureSkew
      PROVE  Read(c, "task") = {d \in work[c].deltas : d.kind = "task"}
  <2> DEFINE files == work[c].deltas
             over == Excess(files)
             found == {d \in files : d.kind = "task" /\ \A w \in over : d.w < w}
  <2>1. over = {} /\ found = {d \in files : d.kind = "task"}
    BY <1>2 DEF Fits
  <2>2. ~ \/ Cardinality(WriterDirs(files)) > MaxWriters
          \/ over # {} /\ EntriesAt(files, Min(over)) <= MaxEntries
          \/ Cardinality(found) > MaxFiles
    <3>1. Cardinality(WriterDirs(files)) <= MaxWriters /\ Cardinality(found) <= MaxFiles
      BY <1>2, <2>1 DEF Fits
    <3>2. Cardinality(WriterDirs(files)) \in Nat
      BY WriterDirsFinite, FS_CardinalityType
    <3>3. Cardinality(found) \in Nat
      BY CardsGrow
    <3> QED
      BY <2>1, <3>1, <3>2, <3>3, Limits
  <2>3. Read(c, "task") = {d \in found : d.at <= Clock(c) + FutureSkew}
    BY <2>2 DEF Read
  <2> QED
    BY <1>2, <2>1, <2>3
<1> QED
  BY <1>1, <1>2

-----------------------------------------------------------------------------
\* Types, and the deltas of the worktrees.

Every == UNION {work[c].deltas : c \in Clones}

Typed ==
    /\ now \in 0 .. MaxNow /\ calls \in 0 .. MaxCalls
    /\ hub \in [version : Nat, tree : Trees]
    /\ work \in [Clones -> Trees] /\ branch \in [Clones -> Branches]
    /\ gitlock \in [Clones -> Agents \cup {0}]
    /\ held \in [Agents -> SUBSET Lockable]
    /\ returned \in SUBSET TaskDeltas /\ posted \in SUBSET BoardDeltas
    /\ \A c \in Clones : branch[c].base <= hub.version
    /\ CallsFit

\* A step of agent a changes its clone's worktree to t.
NewWork(a, t) ==
    /\ work'[CloneOf[a]] = t
    /\ \A x \in Clones : x # CloneOf[a] => work'[x] = work[x]

\* A step of one agent changes its clone's worktree.
LEMMA WorkBecomes ==
    ASSUME Typed, NEW a \in Agents, NEW t \in Trees, work' = [work EXCEPT ![CloneOf[a]] = t]
    PROVE  work' \in [Clones -> Trees] /\ NewWork(a, t)
  BY Limits DEF Typed, NewWork

\* A step of agent a changes its clone's local branch to r.
NewBranch(a, r) ==
    /\ branch'[CloneOf[a]] = r
    /\ \A x \in Clones : x # CloneOf[a] => branch'[x] = branch[x]

\* A step of one agent changes its clone's branch.
LEMMA BranchBecomes ==
    ASSUME Typed, NEW a \in Agents, NEW r \in Branches, branch' = [branch EXCEPT ![CloneOf[a]] = r]
    PROVE  branch' \in [Clones -> Branches] /\ NewBranch(a, r)
  BY Limits DEF Typed, NewBranch

\* The new call of agent a, at the next step of its plan.
GoesOn(a, e) ==
    /\ CallsFit' /\ Becomes(a, e)
    /\ e.op = call[a].op /\ e.arg = call[a].arg /\ e.todo = Tail(call[a].todo)
    /\ Len(e.todo) = Len(call[a].todo) - 1

\* One new delta, under a name that no clone has, by the agent itself if it is a task.
LEMMA WriteDeltaDoes ==
    ASSUME Typed, NEW a \in Agents, WriteDelta(a)
    PROVE  \E d \in BoardDeltas, t \in Trees, e \in CallRecords :
              /\ work' \in [Clones -> Trees] /\ NewWork(a, t)
              /\ t.deltas = work[CloneOf[a]].deltas \cup {d} /\ t.board = work[CloneOf[a]].board
              /\ t.goal = work[CloneOf[a]].goal /\ t.locks = work[CloneOf[a]].locks
              /\ d.at = Clock(CloneOf[a])
              /\ d.kind = "task" => call[a].op = "task" /\ d.w = a
              /\ call[a].op = "task" => d \in TaskDeltas
              /\ \A b \in Clones : \A f \in work[b].deltas :
                    <<f.w, f.at, f.n>> # <<d.w, d.at, d.n>>
              /\ GoesOn(a, e) /\ e.delta = {d} /\ e.rows = call[a].rows
<1> DEFINE c == CloneOf[a]
<1>1. call[a] \in CallRecords /\ CallFits(call[a]) /\ call[a].todo # <<>>
        /\ Head(call[a].todo) = "delta"
  BY DEF Typed, CallsFit, WriteDelta, At
<1>2. c \in Clones /\ work[c] \in Trees /\ now \in Nat /\ Ahead[c] \in Nat
  BY Limits DEF Typed
<1>3. call[a].op \in {"task", "post", "fact", "event"}
  BY <1>1, HeadSays DEF CallFits
<1>4. call[a].arg \in Ids \cup {0} /\ (call[a].op = "task" => call[a].arg \in Ids)
  BY <1>1, <1>3 DEF CallFits
<1>n. PICK n \in {1, 2} : \E d :
        /\ d = [w |-> IF call[a].op = "fact" THEN 0 ELSE a, at |-> Clock(c), n |-> n,
                kind |-> KindOf[call[a].op], id |-> call[a].arg]
        /\ \A b \in Clones : \A f \in work[b].deltas : <<f.w, f.at, f.n>> # <<d.w, d.at, d.n>>
        /\ Changes(a, [work[c] EXCEPT !.deltas = @ \cup {d}])
        /\ call' = [call EXCEPT ![a].todo = Tail(@), ![a].delta = {d}]
  BY DEF WriteDelta
<1>5. PICK d :
        /\ d = [w |-> IF call[a].op = "fact" THEN 0 ELSE a, at |-> Clock(c), n |-> n,
                kind |-> KindOf[call[a].op], id |-> call[a].arg]
        /\ \A b \in Clones : \A f \in work[b].deltas : <<f.w, f.at, f.n>> # <<d.w, d.at, d.n>>
        /\ Changes(a, [work[c] EXCEPT !.deltas = @ \cup {d}])
        /\ call' = [call EXCEPT ![a].todo = Tail(@), ![a].delta = {d}]
  BY <1>n
<1>6. /\ KindOf[call[a].op] \in {"task", "chat", "fact", "event"}
      /\ KindOf[call[a].op] = "task" => call[a].op = "task"
      /\ call[a].op = "task" => KindOf[call[a].op] = "task"
      /\ call[a].op = "post" => KindOf[call[a].op] = "chat"
  BY <1>3 DEF KindOf
<1>7. PICK w \in Agents \cup {0} : /\ w = IF call[a].op = "fact" THEN 0 ELSE a
                                   /\ call[a].op # "fact" => w = a
  OBVIOUS
<1>8. PICK k \in {"task", "chat", "fact", "event"} : k = KindOf[call[a].op]
  BY <1>6
<1>9. Clock(c) \in Nat
  BY <1>2 DEF Clock
<1>10. PICK i \in Ids \cup {0} : i = call[a].arg
  BY <1>4
<1>11. d = [w |-> w, at |-> Clock(c), n |-> n, kind |-> k, id |-> i]
  BY <1>5, <1>7, <1>8, <1>10
<1>12. d \in BoardDeltas /\ d.at = Clock(c) /\ d.kind = k /\ d.id = i /\ d.w = w
  BY <1>4, <1>6, <1>8, <1>9, <1>10, <1>11 DEF BoardDeltas
<1>13. call[a].op = "task" => d \in TaskDeltas
  BY <1>4, <1>6, <1>8, <1>10, <1>12 DEF TaskDeltas
<1>14. d.kind = "task" => call[a].op = "task" /\ d.w = a
  BY <1>6, <1>7, <1>8, <1>12
<1>15. PICK D \in SUBSET BoardDeltas : D = work[c].deltas \cup {d}
  BY <1>2, <1>12 DEF Trees
<1>16. PICK t : t = [work[c] EXCEPT !.deltas = D]
  OBVIOUS
<1>17. /\ t \in Trees /\ t.deltas = D /\ t.board = work[c].board
       /\ t.goal = work[c].goal /\ t.locks = work[c].locks
  BY <1>2, <1>16 DEF Trees
<1>18. work' = [work EXCEPT ![c] = t]
  BY <1>5, <1>15, <1>16 DEF Changes
<1>19. PICK e \in CallRecords : GoesOn(a, e) /\ e.delta = {d} /\ e.rows = call[a].rows
  <2>1. call' = [call EXCEPT ![a].todo = Tail(@), ![a].delta = {d}]
    BY <1>5
  <2>2. call[a].todo # <<>> /\ (call[a].op = "post" => d.kind = "chat")
    BY <1>1, <1>6, <1>8, <1>12
  <2>3. \E e \in CallRecords :
              /\ CallsFit' /\ Becomes(a, e)
              /\ e.op = call[a].op /\ e.arg = call[a].arg /\ e.todo = Tail(call[a].todo)
              /\ Len(e.todo) = Len(call[a].todo) - 1
              /\ e.delta = {d} /\ e.rows = call[a].rows
    BY <1>12, <1>13, <2>1, <2>2, DeltaWritten DEF Typed
  <2> QED
    BY <2>3 DEF GoesOn
<1>20. work' \in [Clones -> Trees] /\ NewWork(a, t)
  BY <1>17, <1>18, WorkBecomes
<1> QED
  BY <1>5, <1>12, <1>13, <1>14, <1>15, <1>17, <1>19, <1>20

\* What the new delta changes of the clone.
LEMMA NewDelta ==
    ASSUME Typed, NEW a \in Agents, WriteDelta(a)
    PROVE  \E d \in BoardDeltas, t \in Trees :
              /\ NewWork(a, t)
              /\ t.deltas = work[CloneOf[a]].deltas \cup {d} /\ t.board = work[CloneOf[a]].board
              /\ d.kind = "task" => call[a].op = "task"
              /\ \A b \in Clones : d \notin work[b].deltas
<1>1. PICK d \in BoardDeltas, t \in Trees, e \in CallRecords :
              /\ work' \in [Clones -> Trees] /\ NewWork(a, t)
              /\ t.deltas = work[CloneOf[a]].deltas \cup {d} /\ t.board = work[CloneOf[a]].board
              /\ t.goal = work[CloneOf[a]].goal /\ t.locks = work[CloneOf[a]].locks
              /\ d.at = Clock(CloneOf[a])
              /\ d.kind = "task" => call[a].op = "task" /\ d.w = a
              /\ call[a].op = "task" => d \in TaskDeltas
              /\ \A b \in Clones : \A f \in work[b].deltas :
                    <<f.w, f.at, f.n>> # <<d.w, d.at, d.n>>
              /\ GoesOn(a, e) /\ e.delta = {d} /\ e.rows = call[a].rows
  BY WriteDeltaDoes
<1>2. \A b \in Clones : d \notin work[b].deltas
  BY <1>1
<1>3. d.kind = "task" => call[a].op = "task"
  BY <1>1
<1>4. /\ NewWork(a, t)
      /\ t.deltas = work[CloneOf[a]].deltas \cup {d} /\ t.board = work[CloneOf[a]].board
  BY <1>1
<1> QED
  BY <1>2, <1>3, <1>4

Moves(a) == \E e \in CallRecords : GoesOn(a, e) /\ e.delta = call[a].delta /\ e.rows = call[a].rows

\* A step that goes on moves the call along its plan.
LEMMA ProceedsMoves ==
    ASSUME Typed, NEW a \in Agents, call[a].todo # <<>>, Proceeds(a)
    PROVE  Moves(a)
  BY ProceedsDoes DEF Typed, Moves, GoesOn

\* BOARD.md is replaced by the rows that were read.
LEMMA WriteBoardDoes ==
    ASSUME Typed, NEW a \in Agents, WriteBoard(a)
    PROVE  \E t \in Trees :
              /\ work' \in [Clones -> Trees] /\ NewWork(a, t)
              /\ t.deltas = work[CloneOf[a]].deltas /\ t.board = call[a].rows
              /\ t.goal = work[CloneOf[a]].goal /\ t.locks = work[CloneOf[a]].locks
              /\ Moves(a)
<1> DEFINE c == CloneOf[a]
<1>1. work[c] \in Trees /\ call[a] \in CallRecords /\ call[a].todo # <<>>
  BY Limits DEF Typed, CallsFit, WriteBoard, At
<1>2. PICK r \in PartialRows : r = call[a].rows
  BY <1>1 DEF CallRecords
<1>3. PICK t : t = [work[c] EXCEPT !.board = r]
  OBVIOUS
<1>4. /\ t \in Trees /\ t.deltas = work[c].deltas /\ t.board = r
      /\ t.goal = work[c].goal /\ t.locks = work[c].locks
  BY <1>1, <1>3 DEF Trees
<1>5. work' = [work EXCEPT ![c] = t]
  BY <1>2, <1>3 DEF WriteBoard, Changes
<1>6. Moves(a)
  BY <1>1, ProceedsMoves DEF WriteBoard
<1> QED
  BY <1>2, <1>4, <1>5, <1>6, WorkBecomes

\* The goal is replaced, and nothing else.
LEMMA WriteGoalDoes ==
    ASSUME Typed, NEW a \in Agents, WriteGoal(a)
    PROVE  \E t \in Trees :
              /\ work' \in [Clones -> Trees] /\ NewWork(a, t)
              /\ t.deltas = work[CloneOf[a]].deltas /\ t.board = work[CloneOf[a]].board
              /\ t.locks = work[CloneOf[a]].locks
              /\ Moves(a)
<1> DEFINE c == CloneOf[a]
<1>1. work[c] \in Trees /\ call[a] \in CallRecords /\ call[a].todo # <<>>
  BY Limits DEF Typed, CallsFit, WriteGoal, At
<1>2. a \in Nat
  BY Limits
<1>3. PICK t : t = [work[c] EXCEPT !.goal = a]
  OBVIOUS
<1>4. /\ t \in Trees /\ t.deltas = work[c].deltas /\ t.board = work[c].board
      /\ t.locks = work[c].locks
  BY <1>1, <1>2, <1>3 DEF Trees
<1>5. work' = [work EXCEPT ![c] = t]
  BY <1>3 DEF WriteGoal, Changes
<1>6. Moves(a)
  BY <1>1, ProceedsMoves DEF WriteGoal
<1> QED
  BY <1>4, <1>5, <1>6, WorkBecomes

\* The lock file l of a's clone is set to o.
SetsLock(a, l, o) ==
    \E t \in Trees :
       /\ work' \in [Clones -> Trees] /\ NewWork(a, t)
       /\ t.deltas = work[CloneOf[a]].deltas /\ t.board = work[CloneOf[a]].board
       /\ t.locks[l] = o
       /\ \A k \in Lockable : k # l => t.locks[k] = work[CloneOf[a]].locks[k]

\* A lock file is written or cleared, and no other.
LEMMA LockIsSet ==
    ASSUME Typed, NEW a \in Agents, NEW l \in Lockable, NEW o \in Agents \cup {0},
           Changes(a, [work[CloneOf[a]] EXCEPT !.locks[l] = o])
    PROVE  SetsLock(a, l, o)
<1> DEFINE c == CloneOf[a]
<1>1. work[c] \in Trees
  BY Limits DEF Typed
<1>2. PICK f : f = [work[c].locks EXCEPT ![l] = o]
  OBVIOUS
<1>3. /\ f \in [Lockable -> Agents \cup {0}] /\ f[l] = o
      /\ \A k \in Lockable : k # l => f[k] = work[c].locks[k]
  BY <1>1, <1>2 DEF Trees
<1>4. PICK t : t = [work[c] EXCEPT !.locks = f]
  OBVIOUS
<1>5. t \in Trees /\ t.deltas = work[c].deltas /\ t.board = work[c].board /\ t.locks = f
  BY <1>1, <1>3, <1>4 DEF Trees
<1>6. work' = [work EXCEPT ![c] = t]
  BY <1>2, <1>4 DEF Changes
<1> QED
  BY <1>3, <1>5, <1>6, WorkBecomes DEF SetsLock

\* claim_file writes the lock file it looked at.
LEMMA ClaimDoes ==
    ASSUME Typed, NEW a \in Agents, Claim(a)
    PROVE  SetsLock(a, call[a].arg, a) /\ call[a].arg \in Lockable /\ Moves(a)
<1>1. call[a] \in CallRecords /\ CallFits(call[a]) /\ call[a].todo # <<>>
        /\ Head(call[a].todo) = "claim"
  BY DEF Typed, CallsFit, Claim, At
<1>2. call[a].arg \in Lockable
  BY <1>1, HeadSays DEF CallFits
<1> QED
  BY <1>1, <1>2, LockIsSet, ProceedsMoves DEF Claim

\* The step of a call that ends in an exception.
Fails(a) == \E e \in CallRecords : CallsFit' /\ Becomes(a, e) /\ e.op = "failed" /\ e.todo = <<>>

\* A call that raises has failed.
LEMMA RaisesFails ==
    ASSUME Typed, NEW a \in Agents, Raises(a)
    PROVE  Fails(a)
  BY RaisesDoes DEF Typed, Fails

\* release_file clears the agent's own lock file, or fails.
LEMMA ReleaseFileDoes ==
    ASSUME Typed, NEW a \in Agents, ReleaseFile(a)
    PROVE  /\ call[a].arg \in Lockable
           /\ \/ work[CloneOf[a]].locks[call[a].arg] = a /\ SetsLock(a, call[a].arg, 0) /\ Moves(a)
              \/ work' = work /\ Fails(a)
<1>1. call[a] \in CallRecords /\ CallFits(call[a]) /\ call[a].todo # <<>>
        /\ Head(call[a].todo) = "release"
  BY DEF Typed, CallsFit, ReleaseFile, At
<1>2. call[a].arg \in Lockable
  BY <1>1, HeadSays DEF CallFits
<1> QED
  BY <1>1, <1>2, LockIsSet, ProceedsMoves, RaisesFails DEF ReleaseFile

\* The worktree c after the fast-forward of its branch.
Forwards(a) ==
    \E t \in Trees, r \in Branches :
       /\ work' \in [Clones -> Trees] /\ NewWork(a, t)
       /\ branch' \in [Clones -> Branches] /\ NewBranch(a, r)
       /\ t = Forwarded(CloneOf[a])
       /\ r.base = hub.version /\ r.ahead = FALSE /\ r.tree = hub.tree

\* The fields of the forwarded worktree and branch.
LEMMA ForwardsTo ==
    ASSUME NEW a \in Agents, Forwards(a)
    PROVE  \E t \in Trees, r \in Branches :
              /\ NewWork(a, t) /\ NewBranch(a, r) /\ t = Forwarded(CloneOf[a])
              /\ t.deltas = work[CloneOf[a]].deltas \cup hub.tree.deltas
              /\ t.locks = [l \in Lockable |->
                             IF hub.tree.locks[l] # branch[CloneOf[a]].tree.locks[l]
                             THEN hub.tree.locks[l] ELSE work[CloneOf[a]].locks[l]]
              /\ r.base = hub.version /\ r.ahead = FALSE /\ r.tree = hub.tree
<1>1. PICK t \in Trees, r \in Branches :
       /\ work' \in [Clones -> Trees] /\ NewWork(a, t)
       /\ branch' \in [Clones -> Branches] /\ NewBranch(a, r)
       /\ t = Forwarded(CloneOf[a])
       /\ r.base = hub.version /\ r.ahead = FALSE /\ r.tree = hub.tree
  BY DEF Forwards
<1>2. /\ t.deltas = work[CloneOf[a]].deltas \cup hub.tree.deltas
      /\ t.locks = [l \in Lockable |->
                     IF hub.tree.locks[l] # branch[CloneOf[a]].tree.locks[l]
                     THEN hub.tree.locks[l] ELSE work[CloneOf[a]].locks[l]]
  BY <1>1 DEF Forwarded
<1> QED
  BY <1>1, <1>2

\* A forwarded worktree is a worktree.
LEMMA ForwardedTyped ==
    ASSUME Typed, NEW c \in Clones
    PROVE  Forwarded(c) \in Trees
<1>1. work[c] \in Trees /\ branch[c].tree \in Trees /\ hub.tree \in Trees
  BY DEF Typed, Branches
<1>2. work[c].deltas \cup hub.tree.deltas \in SUBSET BoardDeltas
  BY <1>1 DEF Trees
<1>3. hub.tree.board \in PartialRows /\ work[c].board \in PartialRows
  BY <1>1 DEF Trees
<1>4. hub.tree.goal \in Nat /\ work[c].goal \in Nat
  BY <1>1 DEF Trees
<1>5. \A l \in Lockable : /\ hub.tree.locks[l] \in Agents \cup {0}
                          /\ work[c].locks[l] \in Agents \cup {0}
  BY <1>1 DEF Trees
<1> QED
  BY <1>2, <1>3, <1>4, <1>5 DEF Forwarded, Trees

\* A pull has nothing to do, fails, or forwards worktree and branch.
LEMMA PullTeamDoes ==
    ASSUME Typed, NEW a \in Agents, PullTeam(a)
    PROVE  \/ /\ branch[CloneOf[a]].base = hub.version
              /\ Moves(a) /\ work' = work /\ branch' = branch
           \/ Fails(a) /\ work' = work /\ branch' = branch
           \/ /\ ~branch[CloneOf[a]].ahead /\ ~Contested(CloneOf[a])
              /\ Moves(a) /\ Forwards(a)
<1> DEFINE c == CloneOf[a]
<1>1. call[a].todo # <<>>
  BY DEF PullTeam, At
<1>2. c \in Clones
  BY Limits
<1>3. CASE branch[c].base = hub.version
  BY <1>1, <1>3, ProceedsMoves DEF PullTeam
<1>4. CASE branch[c].base # hub.version /\ (branch[c].ahead \/ Contested(c))
  BY <1>4, RaisesFails DEF PullTeam
<1>5. CASE branch[c].base # hub.version /\ ~branch[c].ahead /\ ~Contested(c)
  <2>1. /\ Proceeds(a)
        /\ Changes(a, Forwarded(c))
        /\ branch' = [branch EXCEPT ![c] =
                         [base |-> hub.version, ahead |-> FALSE, tree |-> hub.tree]]
    BY <1>5 DEF PullTeam
  <2>2. PICK t \in Trees : t = Forwarded(c)
    BY <1>2, ForwardedTyped
  <2>3. work' = [work EXCEPT ![c] = t]
    BY <2>1, <2>2 DEF Changes
  <2>4. PICK r : r = [base |-> hub.version, ahead |-> FALSE, tree |-> hub.tree]
    OBVIOUS
  <2>5. hub.version \in Nat /\ hub.tree \in Trees
    BY DEF Typed
  <2>6. r \in Branches /\ r.base = hub.version /\ r.ahead = FALSE /\ r.tree = hub.tree
    BY <2>4, <2>5 DEF Branches
  <2>7. branch' = [branch EXCEPT ![c] = r]
    BY <2>1, <2>4
  <2>8. Forwards(a)
    BY <2>2, <2>3, <2>6, <2>7, WorkBecomes, BranchBecomes DEF Forwards
  <2> QED
    BY <1>1, <1>5, <2>1, <2>8, ProceedsMoves
<1> QED
  BY <1>3, <1>4, <1>5

\* A commit makes the branch what the worktree is.
LEMMA CommitTeamDoes ==
    ASSUME Typed, NEW a \in Agents, CommitTeam(a)
    PROVE  /\ Moves(a)
           /\ \E r \in Branches :
                 /\ branch' \in [Clones -> Branches] /\ NewBranch(a, r)
                 /\ r.base = branch[CloneOf[a]].base
                 /\ r.ahead = (branch[CloneOf[a]].ahead
                                 \/ work[CloneOf[a]] # branch[CloneOf[a]].tree)
                 /\ r.tree = work[CloneOf[a]]
<1> DEFINE c == CloneOf[a]
<1>1. call[a].todo # <<>> /\ c \in Clones
  BY Limits DEF CommitTeam, At
<1>2. branch[c] \in Branches /\ work[c] \in Trees
  BY <1>1 DEF Typed
<1>3. PICK h \in BOOLEAN : h = (branch[c].ahead \/ work[c] # branch[c].tree)
  OBVIOUS
<1>4. PICK r : r = [branch[c] EXCEPT !.ahead = h, !.tree = work[c]]
  OBVIOUS
<1>5. r \in Branches /\ r.base = branch[c].base /\ r.ahead = h /\ r.tree = work[c]
  BY <1>2, <1>3, <1>4 DEF Branches
<1>6. branch' = [branch EXCEPT ![c] = r]
  BY <1>3, <1>4 DEF CommitTeam
<1>7. Moves(a)
  BY <1>1, ProceedsMoves DEF CommitTeam
<1> QED
  BY <1>3, <1>5, <1>6, <1>7, BranchBecomes

\* A push fails, has nothing to do, or makes the remote branch what the branch is.
LEMMA PushTeamDoes ==
    ASSUME Typed, NEW a \in Agents, PushTeam(a)
    PROVE  \/ Fails(a) /\ hub' = hub /\ branch' = branch
           \/ ~branch[CloneOf[a]].ahead /\ Moves(a) /\ hub' = hub /\ branch' = branch
           \/ /\ branch[CloneOf[a]].base = hub.version
              /\ Moves(a)
              /\ hub' = [version |-> hub.version + 1, tree |-> branch[CloneOf[a]].tree]
              /\ hub'.version = hub.version + 1 /\ hub'.tree = branch[CloneOf[a]].tree
              /\ \E r \in Branches :
                    /\ branch' \in [Clones -> Branches] /\ NewBranch(a, r)
                    /\ r.base = hub.version + 1 /\ r.ahead = FALSE
                    /\ r.tree = branch[CloneOf[a]].tree
<1> DEFINE c == CloneOf[a]
<1>1. call[a].todo # <<>> /\ c \in Clones
  BY Limits DEF PushTeam, At
<1>2. branch[c] \in Branches /\ hub.version \in Nat
  BY <1>1 DEF Typed
<1>3. CASE branch[c].base # hub.version
  BY <1>3, RaisesFails DEF PushTeam
<1>4. CASE branch[c].base = hub.version /\ ~branch[c].ahead
  BY <1>1, <1>4, ProceedsMoves DEF PushTeam
<1>5. CASE branch[c].base = hub.version /\ branch[c].ahead
  <2>1. PICK v \in Nat : v = hub.version + 1
    BY <1>2
  <2>2. PICK r : r = [branch[c] EXCEPT !.base = v, !.ahead = FALSE]
    OBVIOUS
  <2>3. r \in Branches /\ r.base = v /\ r.ahead = FALSE /\ r.tree = branch[c].tree
    BY <1>2, <2>1, <2>2 DEF Branches
  <2>4. /\ Proceeds(a)
        /\ hub' = [version |-> hub.version + 1, tree |-> branch[c].tree]
        /\ branch' = [branch EXCEPT ![c].base = hub.version + 1, ![c].ahead = FALSE]
    BY <1>5 DEF PushTeam
  <2>5. branch' = [branch EXCEPT ![c] = r]
    BY <2>1, <2>2, <2>4
  <2> QED
    BY <1>1, <1>5, <2>1, <2>3, <2>4, <2>5, ProceedsMoves, BranchBecomes
<1> QED
  BY <1>3, <1>4, <1>5

\* The deltas of the worktrees, and of the branches, which have no other.
Files ==
    /\ \A c \in Clones : IsFiniteSet(work[c].deltas)
         /\ branch[c].tree.deltas \subseteq work[c].deltas
    /\ IsFiniteSet(hub.tree.deltas) /\ hub.tree.deltas \subseteq Every
    /\ Distinct(Every)
    /\ \A d \in Every, x \in Clones : d.at <= Clock(x) + FutureSkew

\* The rows that are read cover all tasks of the clone, if they fit the limits.
LEMMA ReadRowsDoes ==
    ASSUME Typed, Files, NEW a \in Agents, ReadRows(a)
    PROVE  \E r \in PartialRows, e \in CallRecords :
              /\ \A i \in DOMAIN r : r[i] \in work[CloneOf[a]].deltas /\ r[i].id = i
              /\ Fits(work[CloneOf[a]].deltas) =>
                    \A d \in work[CloneOf[a]].deltas : d.kind = "task" => Covered(r, d)
              /\ GoesOn(a, e) /\ e.delta = call[a].delta /\ e.rows = r
<1> DEFINE c == CloneOf[a]
           files == Read(c, "task")
<1>1. call[a].todo # <<>> /\ c \in Clones
  BY Limits DEF ReadRows, At
<1>2. IsFiniteSet(work[c].deltas) /\ work[c].deltas \subseteq BoardDeltas
      /\ work[c].deltas \subseteq Every
  BY <1>1 DEF Files, Typed, Trees, Every
<1>3. /\ files \subseteq {d \in work[c].deltas : d.kind = "task"}
      /\ Fits(work[c].deltas) => files = {d \in work[c].deltas : d.kind = "task"}
  BY <1>1, <1>2, ReadReturns DEF Files
<1>4. IsFiniteSet(files) /\ files \subseteq TaskDeltas /\ Distinct(files)
  <2>1. Distinct(files)
    BY <1>2, <1>3 DEF Files, Distinct
  <2> QED
    BY <1>2, <1>3, <2>1, FS_Subset DEF TaskDeltas
<1> HIDE DEF files
<1>5. PICK r : r = BoardRows(files)
  OBVIOUS
<1>6. /\ r \in PartialRows
      /\ \A i \in DOMAIN r : r[i] \in files /\ r[i].id = i
      /\ \A d \in files : Covered(r, d)
  BY <1>4, <1>5, RowsOfBoard
<1>7. call' = [call EXCEPT ![a].todo = Tail(@), ![a].rows = r]
  BY <1>5 DEF ReadRows, files
<1>8. PICK e \in CallRecords : GoesOn(a, e) /\ e.delta = call[a].delta /\ e.rows = r
  BY <1>1, <1>6, <1>7, RowsRead DEF Typed, GoesOn
<1> QED
  BY <1>3, <1>6, <1>8

-----------------------------------------------------------------------------
\* Every step keeps the types and the deltas.

\* Calls fit after a step that moves one of them or ends it in an exception.
LEMMA MovesCalls ==
    ASSUME NEW a \in Agents, Moves(a) \/ Fails(a)
    PROVE  CallsFit'
  BY DEF Moves, Fails, GoesOn

\* Steps that leave the trees alone.
LEMMA FilesStay ==
    ASSUME Files, UNCHANGED <<now, work, hub, branch>>
    PROVE  Files'
  BY DEF Files, Every, Clock

\* Steps that change calls, locks and what agents hold.
LEMMA QuietTyped ==
    ASSUME Typed, UNCHANGED <<now, work, hub, branch, returned, posted>>, calls' \in 0 .. MaxCalls,
           gitlock' \in [Clones -> Agents \cup {0}], held' \in [Agents -> SUBSET Lockable],
           CallsFit'
    PROVE  Typed'
  BY DEF Typed

\* Unlocking frees what the agent has locked.
LEMMA UnlockedTyped ==
    ASSUME Typed, NEW a \in Agents, Unlocks(a)
    PROVE  /\ gitlock' \in [Clones -> Agents \cup {0}]
           /\ \A c \in Clones : gitlock'[c] = IF gitlock[c] = a THEN 0 ELSE gitlock[c]
  BY DEF Typed, Unlocks

\* The first state is typed, and its deltas are those published before.
LEMMA BoardInitTyped ==
    ASSUME BoardInit
    PROVE  Typed /\ Files
<1>1. FreshTree \in Trees /\ FreshTree.deltas = {} /\ FreshTree.board = <<>>
  BY NoRows, Limits DEF FreshTree, Trees
<1>2. /\ IsFiniteSet(Published) /\ Published \subseteq TaskDeltas /\ Distinct(Published)
      /\ \A d \in Published : d.w \in Agents /\ CloneOf[d.w] \in Clones \ Behind
                              /\ d.at \in 0 .. Ahead[CloneOf[d.w]]
  <2>1. ASSUME NEW d \in Published PROVE d \in TaskDeltas
    <3>1. /\ d.w \in Agents /\ d.n \in Nat /\ d.id \in Ids /\ d.at \in 0 .. Ahead[CloneOf[d.w]]
          /\ d = [w |-> d.w, at |-> d.at, n |-> d.n, kind |-> "task", id |-> d.id]
      BY PublishedBefore
    <3>2. d.at \in Nat
      BY <3>1, Limits
    <3>3. PICK w \in Agents, t \in Nat, n \in Nat, i \in Ids :
            w = d.w /\ t = d.at /\ n = d.n /\ i = d.id
      BY <3>1, <3>2
    <3>4. d = [w |-> w, at |-> t, n |-> n, kind |-> "task", id |-> i]
      BY <3>1, <3>3
    <3> QED
      BY <3>4 DEF TaskDeltas, BoardDeltas
  <2>2. \A d, e \in Published : e # d => <<e.w, e.at, e.n>> # <<d.w, d.at, d.n>>
    BY PublishedBefore
  <2> QED
    BY <2>1, <2>2, PublishedBefore, Limits DEF Distinct
<1>3. BoardRows(Published) \in PartialRows
  BY <1>2, RowsOfBoard
<1>4. PICK r \in PartialRows : r = BoardRows(Published)
  BY <1>3
<1>5. PICK D \in SUBSET BoardDeltas : D = Published
  BY <1>2 DEF TaskDeltas
<1>6. PICK q : q = FreshTree
  OBVIOUS
<1>7. PICK t : t = [q EXCEPT !.deltas = D, !.board = r]
  OBVIOUS
<1>8. t \in Trees /\ t.deltas = Published
  BY <1>1, <1>4, <1>5, <1>6, <1>7 DEF Trees
<1>9. PublishedTree = t
  BY <1>4, <1>5, <1>6, <1>7 DEF PublishedTree
<1>10. /\ now = 0 /\ calls = 0
       /\ hub = [version |-> 1, tree |-> t]
       /\ work = [c \in Clones |-> IF c \in Behind THEN FreshTree ELSE t]
       /\ branch = [c \in Clones |-> [base |-> IF c \in Behind THEN 0 ELSE 1, ahead |-> FALSE,
                                      tree |-> work[c]]]
       /\ gitlock = [c \in Clones |-> 0]
       /\ call = [a \in Agents |-> NoCall]
       /\ held = [a \in Agents |-> {}]
       /\ returned = Published /\ posted = {}
  BY <1>9 DEF BoardInit
<1>11. work \in [Clones -> Trees]
  BY <1>1, <1>8, <1>10
<1>12. \A c \in Clones : branch[c].base \in {0, 1} /\ branch[c].ahead = FALSE
                         /\ branch[c].tree = work[c]
  BY <1>10
<1>13. branch \in [Clones -> Branches]
  <2>1. ASSUME NEW c \in Clones
        PROVE  [base |-> IF c \in Behind THEN 0 ELSE 1, ahead |-> FALSE, tree |-> work[c]]
                 \in Branches
    BY <1>11 DEF Branches
  <2> QED
    BY <1>10, <2>1
<1>14. CallsFit
  BY <1>10, NoCallFits DEF CallsFit
<1>15. Typed
  <2>1. hub \in [version : Nat, tree : Trees] /\ hub.version = 1
    BY <1>8, <1>10
  <2> QED
    BY <1>2, <1>10, <1>11, <1>12, <1>13, <1>14, <2>1, Limits DEF Typed
<1>16. Files
  <2>1. \A c \in Clones : work[c].deltas = IF c \in Behind THEN {} ELSE Published
    BY <1>1, <1>8, <1>10
  <2>2. Every \subseteq Published
    BY <2>1 DEF Every
  <2>3. Published \subseteq Every
    BY <1>2, <2>1 DEF Every
  <2>4. ASSUME NEW d \in Every, NEW x \in Clones PROVE d.at <= Clock(x) + FutureSkew
    <3>1. d.at \in 0 .. Ahead[CloneOf[d.w]] /\ CloneOf[d.w] \in Clones
      BY <1>2, <2>2
    <3>2. Ahead[CloneOf[d.w]] <= Ahead[x] + FutureSkew
      BY <3>1, ClocksAgree
    <3> QED
      BY <1>10, <3>1, <3>2, Limits DEF Clock
  <2>5. \A c \in Clones : IsFiniteSet(work[c].deltas)
    BY <1>2, <2>1, FS_EmptySet
  <2>6. hub.tree.deltas = Published
    BY <1>8, <1>10
  <2> QED
    BY <1>2, <1>12, <2>2, <2>3, <2>4, <2>5, <2>6 DEF Files, Distinct
<1> QED
  BY <1>15, <1>16

\* Steps that change one worktree, without new deltas.
LEMMA SameDeltasFit ==
    ASSUME Typed, Files, NEW a \in Agents, NEW t \in Trees, NewWork(a, t),
           t.deltas = work[CloneOf[a]].deltas, UNCHANGED <<now, hub, branch>>
    PROVE  Files'
<1>1. \A c \in Clones : work'[c].deltas = work[c].deltas
  BY DEF NewWork
<1>2. Every' = Every
  BY <1>1 DEF Every
<1> QED
  BY <1>1, <1>2 DEF Files, Clock

\* Steps that change a worktree and a call.
LEMMA WorkTyped ==
    ASSUME Typed, work' \in [Clones -> Trees], CallsFit',
           UNCHANGED <<now, hub, branch, gitlock, held, returned, posted, calls>>
    PROVE  Typed'
  BY DEF Typed

\* A new delta is distinct from all others, and within the skew of every clock.
LEMMA WriteDeltaTyped ==
    ASSUME Typed, Files, NEW a \in Agents, WriteDelta(a)
    PROVE  Typed' /\ Files'
<1> DEFINE c == CloneOf[a]
<1>1. PICK d \in BoardDeltas, t \in Trees, e \in CallRecords :
              /\ work' \in [Clones -> Trees] /\ NewWork(a, t)
              /\ t.deltas = work[c].deltas \cup {d}
              /\ d.at = Clock(c)
              /\ \A b \in Clones : \A f \in work[b].deltas :
                    <<f.w, f.at, f.n>> # <<d.w, d.at, d.n>>
              /\ GoesOn(a, e)
  BY WriteDeltaDoes
<1>2. UNCHANGED <<now, hub, branch, gitlock, held, returned, posted, calls>>
  BY DEF WriteDelta
<1>3. Typed'
  BY <1>1, <1>2, WorkTyped DEF GoesOn
<1>4. c \in Clones
  BY Limits
<1>5. /\ work'[c].deltas = work[c].deltas \cup {d}
      /\ \A x \in Clones : x # c => work'[x] = work[x]
  BY <1>1 DEF NewWork
<1>6. Every' = Every \cup {d}
  <2>1. \A x \in Clones : work'[x].deltas \subseteq work[x].deltas \cup {d}
    BY <1>5
  <2>2. \A x \in Clones : work[x].deltas \subseteq work'[x].deltas
    BY <1>5
  <2>3. d \in work'[c].deltas
    BY <1>5
  <2>4. Every' \subseteq Every \cup {d}
    BY <2>1 DEF Every
  <2>5. Every \cup {d} \subseteq Every'
    BY <1>4, <2>2, <2>3 DEF Every
  <2> QED
    BY <2>4, <2>5
<1>7. Distinct(Every')
  <2>1. \A f \in Every : <<f.w, f.at, f.n>> # <<d.w, d.at, d.n>>
    BY <1>1 DEF Every
  <2> QED
    BY <1>6, <2>1 DEF Files, Distinct
<1>8. ASSUME NEW x \in Clones PROVE d.at <= Clock(x) + FutureSkew
  <2>1. Ahead[c] <= Ahead[x] + FutureSkew
    BY <1>4, ClocksAgree
  <2>2. now \in Nat
    BY Limits DEF Typed
  <2> QED
    BY <1>1, <1>4, <2>1, <2>2, Limits DEF Clock
<1>9. \A f \in Every', x \in Clones : f.at <= Clock(x)' + FutureSkew
  BY <1>2, <1>6, <1>8 DEF Files, Clock
<1>10. \A x \in Clones : IsFiniteSet(work'[x].deltas)
         /\ branch'[x].tree.deltas \subseteq work'[x].deltas
  <2>1. ASSUME NEW x \in Clones PROVE IsFiniteSet(work'[x].deltas)
    <3>1. IsFiniteSet(work[x].deltas)
      BY DEF Files
    <3>2. IsFiniteSet(work[x].deltas \cup {d})
      BY <3>1, FS_AddElement
    <3> QED
      BY <1>5, <3>1, <3>2
  <2> QED
    BY <1>2, <1>5, <2>1 DEF Files
<1>11. IsFiniteSet(hub'.tree.deltas) /\ hub'.tree.deltas \subseteq Every'
  BY <1>2, <1>6 DEF Files
<1> QED
  BY <1>3, <1>7, <1>9, <1>10, <1>11 DEF Files

\* A pull brings deltas that some clone has already.
LEMMA PullTeamTyped ==
    ASSUME Typed, Files, NEW a \in Agents, PullTeam(a)
    PROVE  Typed' /\ Files'
<1> DEFINE c == CloneOf[a]
<1>1. UNCHANGED <<now, hub, gitlock, held, returned, posted, calls>> /\ c \in Clones
  BY Limits DEF PullTeam
<1>2. CASE (Moves(a) \/ Fails(a)) /\ work' = work /\ branch' = branch
  <2>1. CallsFit'
    BY <1>2, MovesCalls
  <2> QED
    BY <1>1, <1>2, <2>1, FilesStay DEF Typed
<1>3. CASE Moves(a) /\ Forwards(a)
  <2>1. CallsFit'
    BY <1>3, MovesCalls
  <2>2. PICK t \in Trees, r \in Branches :
          /\ work' \in [Clones -> Trees] /\ NewWork(a, t)
          /\ branch' \in [Clones -> Branches] /\ NewBranch(a, r)
          /\ t.deltas = work[c].deltas \cup hub.tree.deltas
          /\ r.base = hub.version /\ r.tree = hub.tree
    BY <1>3 DEF Forwards, Forwarded
  <2>3. \A x \in Clones : branch'[x].base <= hub.version
    <3>1. hub.version \in Nat
      BY DEF Typed
    <3> QED
      BY <2>2, <3>1 DEF Typed, NewBranch
  <2>4. Typed'
    BY <1>1, <2>1, <2>2, <2>3 DEF Typed
  <2>5. /\ work'[c].deltas = work[c].deltas \cup hub.tree.deltas
        /\ \A x \in Clones : x # c => work'[x] = work[x]
        /\ branch'[c].tree = hub.tree
        /\ \A x \in Clones : x # c => branch'[x] = branch[x]
    BY <2>2 DEF NewWork, NewBranch
  <2>6. Every' = Every
    <3>1. \A x \in Clones : work'[x].deltas \subseteq Every
      BY <2>5 DEF Files, Every
    <3>2. \A x \in Clones : work[x].deltas \subseteq work'[x].deltas
      BY <2>5
    <3> QED
      BY <3>1, <3>2 DEF Every
  <2>7. IsFiniteSet(work'[c].deltas)
    <3>1. IsFiniteSet(work[c].deltas) /\ IsFiniteSet(hub.tree.deltas)
      BY <1>1 DEF Files
    <3>2. IsFiniteSet(work[c].deltas \cup hub.tree.deltas)
      BY <3>1, FS_Union
    <3> QED
      BY <2>5, <3>2
  <2>8. \A x \in Clones : IsFiniteSet(work'[x].deltas)
          /\ branch'[x].tree.deltas \subseteq work'[x].deltas
    <3>1. ASSUME NEW x \in Clones, x # c
          PROVE  IsFiniteSet(work'[x].deltas) /\ branch'[x].tree.deltas \subseteq work'[x].deltas
      BY <2>5, <3>1 DEF Files
    <3>2. branch'[c].tree.deltas \subseteq work'[c].deltas
      BY <2>5
    <3> QED
      BY <2>7, <3>1, <3>2
  <2>9. Files'
    BY <1>1, <2>6, <2>8 DEF Files, Clock
  <2> QED
    BY <2>4, <2>9
<1> QED
  BY <1>2, <1>3, PullTeamDoes

\* A commit keeps the types and the files.
LEMMA CommitTeamTyped ==
    ASSUME Typed, Files, NEW a \in Agents, CommitTeam(a)
    PROVE  Typed' /\ Files'
<1> DEFINE c == CloneOf[a]
<1>1. UNCHANGED <<now, hub, work, gitlock, held, returned, posted, calls>> /\ c \in Clones
  BY Limits DEF CommitTeam
<1>2. CallsFit'
  BY CommitTeamDoes, MovesCalls
<1>3. PICK r \in Branches :
        /\ branch' \in [Clones -> Branches] /\ NewBranch(a, r)
        /\ r.base = branch[c].base /\ r.tree = work[c]
  BY CommitTeamDoes
<1>4. Typed'
  BY <1>1, <1>2, <1>3 DEF Typed, NewBranch
<1>5. Every' = Every /\ \A x \in Clones : branch'[x].tree.deltas \subseteq work[x].deltas
  BY <1>1, <1>3 DEF Every, NewBranch, Files
<1> QED
  BY <1>1, <1>4, <1>5 DEF Files, Clock

\* A push publishes deltas that the clone has.
LEMMA PushTeamTyped ==
    ASSUME Typed, Files, NEW a \in Agents, PushTeam(a)
    PROVE  Typed' /\ Files'
<1> DEFINE c == CloneOf[a]
<1>1. UNCHANGED <<now, work, gitlock, held, returned, posted, calls>> /\ c \in Clones
  BY Limits DEF PushTeam
<1>2. CASE (Moves(a) \/ Fails(a)) /\ hub' = hub /\ branch' = branch
  <2>1. CallsFit'
    BY <1>2, MovesCalls
  <2> QED
    BY <1>1, <1>2, <2>1, FilesStay DEF Typed
<1>3. CASE /\ Moves(a)
           /\ hub' = [version |-> hub.version + 1, tree |-> branch[c].tree]
           /\ hub'.version = hub.version + 1 /\ hub'.tree = branch[c].tree
           /\ \E r \in Branches :
                 /\ branch' \in [Clones -> Branches] /\ NewBranch(a, r)
                 /\ r.base = hub.version + 1 /\ r.ahead = FALSE /\ r.tree = branch[c].tree
  <2>1. CallsFit'
    BY <1>3, MovesCalls
  <2>2. PICK r \in Branches :
          /\ branch' \in [Clones -> Branches] /\ NewBranch(a, r)
          /\ r.base = hub.version + 1 /\ r.tree = branch[c].tree
    BY <1>3
  <2>3. PICK v \in Nat : v = hub.version
    BY DEF Typed
  <2>4. \A x \in Clones : branch'[x].base <= v + 1
    <3>1. \A x \in Clones : branch[x].base \in Nat /\ branch[x].base <= v
      BY <2>3 DEF Typed, Branches
    <3> QED
      BY <2>2, <2>3, <3>1 DEF NewBranch
  <2>5. branch[c].tree \in Trees /\ v + 1 \in Nat
    BY <1>1 DEF Typed, Branches
  <2>6. hub' \in [version : Nat, tree : Trees]
    BY <1>3, <2>3, <2>5
  <2>7. Typed'
    BY <1>1, <1>3, <2>1, <2>2, <2>3, <2>4, <2>6 DEF Typed
  <2>8. Every' = Every
    BY <1>1 DEF Every
  <2>9. \A x \in Clones : branch'[x].tree = branch[x].tree
    BY <2>2 DEF NewBranch
  <2>10. IsFiniteSet(hub'.tree.deltas) /\ hub'.tree.deltas \subseteq Every
    BY <1>1, <1>3, FS_Subset DEF Files, Every
  <2> QED
    BY <1>1, <2>7, <2>8, <2>9, <2>10 DEF Files, Clock
<1> QED
  BY <1>2, <1>3, PushTeamDoes

\* claim_file goes on at a free lock, ends at one's own, and fails at another's.
LEMMA LookAtLockDoes ==
    ASSUME Typed, NEW a \in Agents, LookAtLock(a)
    PROVE  \/ work[CloneOf[a]].locks[call[a].arg] = 0 /\ Moves(a)
           \/ /\ work[CloneOf[a]].locks[call[a].arg] = a
              /\ \E e \in CallRecords :
                    /\ CallsFit' /\ Becomes(a, e)
                    /\ e.op = call[a].op /\ e.arg = call[a].arg /\ e.todo = <<>>
           \/ Fails(a)
<1>1. call[a].todo # <<>>
  BY DEF LookAtLock, At
<1> QED
  BY <1>1, ProceedsMoves, RaisesFails, SkipsDoes DEF LookAtLock, Typed

\* Every step keeps the types and the files.
LEMMA BoardStepTyped ==
    ASSUME Typed, Files, [BoardNext]_boardVars
    PROVE  Typed' /\ Files'
<1>1. CASE UNCHANGED boardVars
  BY <1>1 DEF boardVars, Typed, CallsFit, CallFits, Files, Every, Clock
<1>2. CASE BoardTick
  <2>1. UNCHANGED <<hub, work, branch, gitlock, call, held, returned, posted, calls>>
        /\ now' = now + 1 /\ now' \in 0 .. MaxNow /\ now \in Nat
    BY <1>2, Limits DEF BoardTick, Typed
  <2>2. Typed'
    BY <2>1 DEF Typed, CallsFit, CallFits
  <2>3. Every' = Every
    BY <2>1 DEF Every
  <2>4. ASSUME NEW d \in Every, NEW x \in Clones PROVE d.at <= Clock(x)' + FutureSkew
    <3>1. d.at \in Nat
      BY DEF Every, Typed, Trees, BoardDeltas
    <3>2. d.at <= now + Ahead[x] + FutureSkew
      BY DEF Files, Clock
    <3> QED
      BY <2>1, <3>1, <3>2, Limits DEF Clock
  <2> QED
    BY <2>1, <2>2, <2>3, <2>4 DEF Files
<1>3. ASSUME NEW a \in Agents,
             \/ \E op \in Calls[a] : \E arg \in Arguments(op) : Begin(a, op, arg)
             \/ Lock(a) \/ LockTimesOut(a) \/ WriteDelta(a) \/ ReadRows(a) \/ WriteBoard(a)
             \/ WriteGoal(a) \/ LookAtLock(a) \/ Claim(a) \/ ReleaseFile(a) \/ PullTeam(a)
             \/ CommitTeam(a) \/ PushTeam(a) \/ Return(a) \/ AgentDies(a)
      PROVE  Typed' /\ Files'
  <2> USE DEF At
  <2>1. ASSUME NEW op \in Calls[a], NEW arg \in Arguments(op), Begin(a, op, arg)
        PROVE  Typed' /\ Files'
    <3>1. /\ UNCHANGED <<now, hub, work, branch, gitlock, returned, posted>>
          /\ calls < MaxCalls /\ calls' = calls + 1
          /\ held' = IF op = "release" THEN [held EXCEPT ![a] = @ \ {arg}] ELSE held
      BY <2>1 DEF Begin
    <3>2. CallsFit'
      BY <2>1, BeginFits DEF Typed
    <3>3. calls' \in 0 .. MaxCalls
      BY <3>1, Limits DEF Typed
    <3>4. held' \in [Agents -> SUBSET Lockable]
      BY <3>1 DEF Typed
    <3>5. gitlock' \in [Clones -> Agents \cup {0}]
      BY <3>1 DEF Typed
    <3> QED
      BY <3>1, <3>2, <3>3, <3>4, <3>5, QuietTyped, FilesStay
  <2>2. CASE Lock(a)
    <3>1. Moves(a)
      BY <2>2, ProceedsMoves DEF Lock
    <3>2. gitlock' \in [Clones -> Agents \cup {0}]
      BY <2>2 DEF Lock, Typed
    <3>3. CallsFit'
      BY <3>1, MovesCalls
    <3>4. UNCHANGED <<now, work, hub, branch, returned, posted, calls, held>>
      BY <2>2 DEF Lock
    <3> QED
      BY <3>2, <3>3, <3>4, QuietTyped, FilesStay DEF Typed
  <2>3. CASE LockTimesOut(a)
    <3>1. CallsFit'
      BY <2>3, RaisesFails, MovesCalls DEF LockTimesOut
    <3>2. UNCHANGED <<now, hub, work, branch, gitlock, held, returned, posted, calls>>
      BY <2>3 DEF LockTimesOut
    <3> QED
      BY <3>1, <3>2, QuietTyped, FilesStay DEF Typed
  <2>4. CASE WriteDelta(a)
    BY <2>4, WriteDeltaTyped
  <2>5. CASE ReadRows(a)
    <3>1. CallsFit'
      BY <2>5, ReadRowsDoes DEF GoesOn
    <3>2. UNCHANGED <<now, hub, work, branch, gitlock, held, returned, posted, calls>>
      BY <2>5 DEF ReadRows
    <3> QED
      BY <3>1, <3>2, QuietTyped, FilesStay DEF Typed
  <2>6. CASE WriteBoard(a)
    <3>1. UNCHANGED <<now, hub, branch, gitlock, held, returned, posted, calls>>
      BY <2>6 DEF WriteBoard
    <3>2. PICK t \in Trees : /\ work' \in [Clones -> Trees] /\ NewWork(a, t)
                             /\ t.deltas = work[CloneOf[a]].deltas /\ Moves(a)
      BY <2>6, WriteBoardDoes
    <3> QED
      BY <3>1, <3>2, MovesCalls, WorkTyped, SameDeltasFit
  <2>7. CASE WriteGoal(a)
    <3>1. UNCHANGED <<now, hub, branch, gitlock, held, returned, posted, calls>>
      BY <2>7 DEF WriteGoal
    <3>2. PICK t \in Trees : /\ work' \in [Clones -> Trees] /\ NewWork(a, t)
                             /\ t.deltas = work[CloneOf[a]].deltas /\ Moves(a)
      BY <2>7, WriteGoalDoes
    <3> QED
      BY <3>1, <3>2, MovesCalls, WorkTyped, SameDeltasFit
  <2>8. CASE LookAtLock(a)
    <3>1. CallsFit'
      BY <2>8, LookAtLockDoes, MovesCalls
    <3>2. UNCHANGED <<now, hub, work, branch, gitlock, held, returned, posted, calls>>
      BY <2>8 DEF LookAtLock
    <3> QED
      BY <3>1, <3>2, QuietTyped, FilesStay DEF Typed
  <2>9. CASE Claim(a)
    <3>1. UNCHANGED <<now, hub, branch, gitlock, held, returned, posted, calls>>
      BY <2>9 DEF Claim
    <3>2. PICK t \in Trees : /\ work' \in [Clones -> Trees] /\ NewWork(a, t)
                             /\ t.deltas = work[CloneOf[a]].deltas
      BY <2>9, ClaimDoes DEF SetsLock
    <3>3. Moves(a)
      BY <2>9, ClaimDoes
    <3> QED
      BY <3>1, <3>2, <3>3, MovesCalls, WorkTyped, SameDeltasFit
  <2>10. CASE ReleaseFile(a)
    <3>1. UNCHANGED <<now, hub, branch, gitlock, held, returned, posted, calls>>
      BY <2>10 DEF ReleaseFile
    <3>2. CASE SetsLock(a, call[a].arg, 0) /\ Moves(a)
      <4>1. PICK t \in Trees : /\ work' \in [Clones -> Trees] /\ NewWork(a, t)
                               /\ t.deltas = work[CloneOf[a]].deltas
        BY <3>2 DEF SetsLock
      <4> QED
        BY <3>1, <3>2, <4>1, MovesCalls, WorkTyped, SameDeltasFit
    <3>3. CASE work' = work /\ Fails(a)
      BY <3>1, <3>3, MovesCalls, QuietTyped, FilesStay DEF Typed
    <3> QED
      BY <2>10, <3>2, <3>3, ReleaseFileDoes
  <2>11. CASE PullTeam(a)
    BY <2>11, PullTeamTyped
  <2>12. CASE CommitTeam(a)
    BY <2>12, CommitTeamTyped
  <2>13. CASE PushTeam(a)
    BY <2>13, PushTeamTyped
  <2>14. CASE Return(a)
    <3>1. UNCHANGED <<now, hub, work, branch, calls>> /\ Unlocks(a)
      BY <2>14 DEF Return
    <3>2. CallsFit'
      BY <2>14, EndDoes DEF Return, Typed
    <3>3. call[a] \in CallRecords /\ CallFits(call[a])
      BY DEF Typed, CallsFit
    <3>4. returned' \in SUBSET TaskDeltas
      BY <2>14, <3>3 DEF Return, Typed, CallFits
    <3>5. posted' \in SUBSET BoardDeltas
      BY <2>14, <3>3 DEF Return, Typed, CallRecords
    <3>6. held' \in [Agents -> SUBSET Lockable]
      BY <2>14, <3>3 DEF Return, Typed, CallFits
    <3>7. gitlock' \in [Clones -> Agents \cup {0}]
      BY <3>1, UnlockedTyped
    <3>8. Files'
      BY <3>1, FilesStay
    <3> QED
      BY <3>1, <3>2, <3>4, <3>5, <3>6, <3>7, <3>8 DEF Typed
  <2>15. CASE AgentDies(a)
    <3>1. UNCHANGED <<now, hub, work, branch, returned, posted, calls>> /\ Unlocks(a)
          /\ held' = [held EXCEPT ![a] = {}]
      BY <2>15 DEF AgentDies
    <3>2. CallsFit'
      BY <2>15, EndDoes DEF AgentDies, Typed
    <3>3. held' \in [Agents -> SUBSET Lockable]
      BY <3>1 DEF Typed
    <3>4. gitlock' \in [Clones -> Agents \cup {0}]
      BY <3>1, UnlockedTyped
    <3> QED
      BY <3>1, <3>2, <3>3, <3>4, QuietTyped, FilesStay DEF Typed
  <2> QED
    BY <1>3, <2>1, <2>2, <2>3, <2>4, <2>5, <2>6, <2>7, <2>8, <2>9, <2>10, <2>11, <2>12, <2>13,
       <2>14, <2>15
<1> QED
  BY <1>1, <1>2, <1>3 DEF BoardNext

-----------------------------------------------------------------------------
\* The lock of a clone.

\* Steps that are left when the lock is next.
LockAt == [task |-> 5, post |-> 5, goal |-> 5, sync |-> 4, claim |-> 4, release |-> 3, fact |-> 2]

Locked(c) == c.op \in DOMAIN LockAt /\ Len(c.todo) < LockAt[c.op]

\* How many steps a plan has from its lock on.
LEMMA LockAtValues ==
    /\ DOMAIN LockAt = {"task", "post", "goal", "sync", "claim", "release", "fact"}
    /\ LockAt["task"] = 5 /\ LockAt["post"] = 5 /\ LockAt["goal"] = 5 /\ LockAt["sync"] = 4
    /\ LockAt["claim"] = 4 /\ LockAt["release"] = 3 /\ LockAt["fact"] = 2
  BY DEF LockAt

\* A call with as many steps left takes the lock next.
LEMMA LockIsNext ==
    ASSUME NEW c \in CallRecords, OnPlan(c), c.todo # <<>>, c.op \in DOMAIN LockAt,
           Len(c.todo) = LockAt[c.op]
    PROVE  Head(c.todo) = "lock"
<1>1. Head(c.todo) = Plan[c.op][Len(Plan[c.op]) - Len(c.todo) + 1]
  BY StepOfPlan
<1>2. c.op \in {"task", "post", "goal", "sync", "claim", "release", "fact"}
  BY LockAtValues
<1>task. CASE c.op = "task"
  <2>1. Len(Plan[c.op]) - Len(c.todo) + 1 = 1
    BY <1>task, PlanLengths, LockAtValues
  <2> QED
    BY <1>1, <1>task, <2>1, PlanSteps
<1>post. CASE c.op = "post"
  <2>1. Len(Plan[c.op]) - Len(c.todo) + 1 = 1
    BY <1>post, PlanLengths, LockAtValues
  <2> QED
    BY <1>1, <1>post, <2>1, PlanSteps
<1>goal. CASE c.op = "goal"
  <2>1. Len(Plan[c.op]) - Len(c.todo) + 1 = 1
    BY <1>goal, PlanLengths, LockAtValues
  <2> QED
    BY <1>1, <1>goal, <2>1, PlanSteps
<1>sync. CASE c.op = "sync"
  <2>1. Len(Plan[c.op]) - Len(c.todo) + 1 = 1
    BY <1>sync, PlanLengths, LockAtValues
  <2> QED
    BY <1>1, <1>sync, <2>1, PlanSteps
<1>claim. CASE c.op = "claim"
  <2>1. Len(Plan[c.op]) - Len(c.todo) + 1 = 1
    BY <1>claim, PlanLengths, LockAtValues
  <2> QED
    BY <1>1, <1>claim, <2>1, PlanSteps
<1>release. CASE c.op = "release"
  <2>1. Len(Plan[c.op]) - Len(c.todo) + 1 = 1
    BY <1>release, PlanLengths, LockAtValues
  <2> QED
    BY <1>1, <1>release, <2>1, PlanSteps
<1>fact. CASE c.op = "fact"
  <2>1. Len(Plan[c.op]) - Len(c.todo) + 1 = 2
    BY <1>fact, PlanLengths, LockAtValues
  <2> QED
    BY <1>1, <1>fact, <2>1, PlanSteps
<1> QED
  BY <1>2, <1>task, <1>post, <1>goal, <1>sync, <1>claim, <1>release, <1>fact

\* A call that begins has its lock ahead of it.
LEMMA LockWithinPlan == \A op \in DOMAIN LockAt : ~ (Len(Plan[op]) < LockAt[op])
<1>task. ~ (Len(Plan["task"]) < LockAt["task"])
  BY PlanLengths, LockAtValues
<1>post. ~ (Len(Plan["post"]) < LockAt["post"])
  BY PlanLengths, LockAtValues
<1>goal. ~ (Len(Plan["goal"]) < LockAt["goal"])
  BY PlanLengths, LockAtValues
<1>sync. ~ (Len(Plan["sync"]) < LockAt["sync"])
  BY PlanLengths, LockAtValues
<1>claim. ~ (Len(Plan["claim"]) < LockAt["claim"])
  BY PlanLengths, LockAtValues
<1>release. ~ (Len(Plan["release"]) < LockAt["release"])
  BY PlanLengths, LockAtValues
<1>fact. ~ (Len(Plan["fact"]) < LockAt["fact"])
  BY PlanLengths, LockAtValues
<1> QED
  BY LockAtValues, <1>task, <1>post, <1>goal, <1>sync, <1>claim, <1>release, <1>fact

Locking == \A a \in Agents : Locked(call[a]) => gitlock[CloneOf[a]] = a

\* A step other than the lock itself is taken on one side of it.
LEMMA LockedBefore ==
    ASSUME Typed, NEW a \in Agents, call[a].todo # <<>>, Head(call[a].todo) # "lock",
           NEW e \in CallRecords, GoesOn(a, e), Locked(e)
    PROVE  Locked(call[a])
<1>1. call[a] \in CallRecords /\ OnPlan(call[a])
  BY DEF Typed, CallsFit, CallFits
<1>2. PICK n \in Nat : n = Len(call[a].todo)
  BY <1>1 DEF CallRecords
<1>3. PICK m \in Nat : m = LockAt[call[a].op]
  BY LockAtValues DEF Locked, GoesOn
<1>4. call[a].op \in DOMAIN LockAt /\ n - 1 < m
  BY <1>2, <1>3 DEF Locked, GoesOn
<1>5. n # m
  BY <1>1, <1>2, <1>3, <1>4, LockIsNext
<1>6. n < m
  BY <1>4, <1>5
<1> QED
  BY <1>2, <1>3, <1>4, <1>6 DEF Locked

\* The steps that are taken under the lock.
LEMMA UnderLock ==
    ASSUME Typed, NEW a \in Agents, call[a].todo # <<>>,
           \/ Head(call[a].todo) \in {"rows", "board", "goal", "look", "claim", "release", "pull",
                                      "commit", "push"}
           \/ Head(call[a].todo) = "delta" /\ call[a].op \in {"task", "post"}
    PROVE  Locked(call[a])
<1>1. call[a] \in CallRecords /\ OnPlan(call[a])
  BY DEF Typed, CallsFit, CallFits
<1>2. PICK n : n = Len(call[a].todo)
  OBVIOUS
<1>3. <<call[a].op, n>> \in {<<"task", 3>>, <<"task", 2>>, <<"goal", 3>>, <<"claim", 3>>,
         <<"claim", 2>>, <<"release", 2>>, <<"post", 4>>, <<"goal", 4>>, <<"sync", 3>>,
         <<"task", 1>>, <<"post", 2>>, <<"goal", 2>>, <<"sync", 2>>, <<"claim", 1>>,
         <<"release", 1>>, <<"fact", 1>>, <<"post", 1>>, <<"goal", 1>>, <<"sync", 1>>,
         <<"task", 4>>, <<"post", 3>>}
  BY <1>1, <1>2, HeadSays
<1>task. CASE call[a].op = "task"
  <2>1. n < 5
    BY <1>3, <1>task
  <2> QED
    BY <1>2, <1>task, <2>1, LockAtValues DEF Locked
<1>post. CASE call[a].op = "post"
  <2>1. n < 5
    BY <1>3, <1>post
  <2> QED
    BY <1>2, <1>post, <2>1, LockAtValues DEF Locked
<1>goal. CASE call[a].op = "goal"
  <2>1. n < 5
    BY <1>3, <1>goal
  <2> QED
    BY <1>2, <1>goal, <2>1, LockAtValues DEF Locked
<1>sync. CASE call[a].op = "sync"
  <2>1. n < 4
    BY <1>3, <1>sync
  <2> QED
    BY <1>2, <1>sync, <2>1, LockAtValues DEF Locked
<1>claim. CASE call[a].op = "claim"
  <2>1. n < 4
    BY <1>3, <1>claim
  <2> QED
    BY <1>2, <1>claim, <2>1, LockAtValues DEF Locked
<1>release. CASE call[a].op = "release"
  <2>1. n < 3
    BY <1>3, <1>release
  <2> QED
    BY <1>2, <1>release, <2>1, LockAtValues DEF Locked
<1>fact. CASE call[a].op = "fact"
  <2>1. n < 2
    BY <1>3, <1>fact
  <2> QED
    BY <1>2, <1>fact, <2>1, LockAtValues DEF Locked
<1> QED
  BY <1>3, <1>task, <1>post, <1>goal, <1>sync, <1>claim, <1>release, <1>fact

\* Of the agents of a clone one at most is past its lock.
LEMMA OneLocked ==
    ASSUME Locking, NEW a \in Agents, Locked(call[a]),
           NEW b \in Agents, b # a, CloneOf[b] = CloneOf[a]
    PROVE  ~Locked(call[b])
  BY DEF Locking

\* Calls without a lock in their plan are not past it.
LEMMA FreeOrFailed ==
    ASSUME NEW e, e.op \notin DOMAIN LockAt
    PROVE  ~Locked(e)
  BY DEF Locked

\* A step other than the lock keeps who holds the lock.
LEMMA MovesLocking ==
    ASSUME Typed, Locking, NEW a \in Agents, UNCHANGED gitlock,
           \/ /\ call[a].todo # <<>> /\ Head(call[a].todo) # "lock"
              /\ \E e \in CallRecords : GoesOn(a, e)
           \/ Fails(a)
    PROVE  Locking'
<1>1. CASE /\ call[a].todo # <<>> /\ Head(call[a].todo) # "lock"
           /\ \E e \in CallRecords : GoesOn(a, e)
  <2>1. PICK e \in CallRecords : GoesOn(a, e)
    BY <1>1
  <2>2. Locked(e) => Locked(call[a])
    BY <1>1, <2>1, LockedBefore
  <2> QED
    BY <2>1, <2>2 DEF Locking, GoesOn, Becomes
<1>2. CASE Fails(a)
  <2>1. PICK e \in CallRecords : Becomes(a, e) /\ e.op = "failed"
    BY <1>2 DEF Fails
  <2>2. ~Locked(e)
    BY <2>1, LockAtValues, FreeOrFailed
  <2> QED
    BY <2>1, <2>2 DEF Locking, Becomes
<1> QED
  BY <1>1, <1>2

\* A call that ends gives up its own lock.
LEMMA EndLocking ==
    ASSUME Typed, Locking, NEW a \in Agents, Unlocks(a), call' = [call EXCEPT ![a] = NoCall]
    PROVE  Locking'
<1>1. Becomes(a, NoCall)
  BY EndDoes DEF Typed
<1>2. ~Locked(NoCall)
  BY LockAtValues, FreeOrFailed DEF NoCall
<1>3. \A c \in Clones : gitlock'[c] = IF gitlock[c] = a THEN 0 ELSE gitlock[c]
  BY UnlockedTyped
<1>4. ASSUME NEW b \in Agents, Locked(call'[b]) PROVE gitlock'[CloneOf[b]] = b
  <2>1. b # a /\ Locked(call[b])
    BY <1>1, <1>2, <1>4 DEF Becomes
  <2>2. gitlock[CloneOf[b]] = b /\ CloneOf[b] \in Clones
    BY <2>1, Limits DEF Locking
  <2> QED
    BY <1>3, <2>1, <2>2
<1> QED
  BY <1>4 DEF Locking

\* Every step keeps that a call past its lock holds .gitlock.
LEMMA LockingStep ==
    ASSUME Typed, Files, Locking, [BoardNext]_boardVars
    PROVE  Locking'
<1>1. CASE UNCHANGED boardVars
  BY <1>1 DEF boardVars, Locking
<1>2. CASE BoardTick
  BY <1>2 DEF BoardTick, Locking
<1>3. ASSUME NEW a \in Agents,
             \/ \E op \in Calls[a] : \E arg \in Arguments(op) : Begin(a, op, arg)
             \/ Lock(a) \/ LockTimesOut(a) \/ WriteDelta(a) \/ ReadRows(a) \/ WriteBoard(a)
             \/ WriteGoal(a) \/ LookAtLock(a) \/ Claim(a) \/ ReleaseFile(a) \/ PullTeam(a)
             \/ CommitTeam(a) \/ PushTeam(a) \/ Return(a) \/ AgentDies(a)
      PROVE  Locking'
  <2>1. ASSUME NEW op \in Calls[a], NEW arg \in Arguments(op), Begin(a, op, arg)
        PROVE  Locking'
    <3>1. UNCHANGED gitlock
      BY <2>1 DEF Begin
    <3>2. Becomes(a, Fresh(op, Plan[op], arg))
      BY <2>1, BeginFits DEF Typed
    <3>3. op \in DOMAIN Plan /\ arg \in Ids \cup Lockable \cup {0} /\ Plan[op] \in Seq(Steps)
      <4>1. op \in DOMAIN Plan
        BY BoardConstants
      <4> QED
        BY <4>1, PlanLengths DEF Arguments
    <3>4. PICK e : e = Fresh(op, Plan[op], arg) /\ e.op = op /\ e.todo = Plan[op]
      BY <3>3, FreshFields
    <3>5. ~Locked(e)
      <4>1. op \in DOMAIN LockAt => ~(Len(Plan[op]) < LockAt[op])
        BY LockWithinPlan
      <4> QED
        BY <3>4, <4>1 DEF Locked
    <3> QED
      BY <3>1, <3>2, <3>4, <3>5 DEF Locking, Becomes
  <2>2. CASE Lock(a)
    <3>1. /\ call[a].todo # <<>> /\ gitlock[CloneOf[a]] = 0
          /\ gitlock' = [gitlock EXCEPT ![CloneOf[a]] = a]
      BY <2>2 DEF Lock, At
    <3>2. PICK e \in CallRecords : GoesOn(a, e)
      BY <2>2, <3>1, ProceedsMoves DEF Lock, Moves
    <3>3. /\ gitlock'[CloneOf[a]] = a
          /\ \A c \in Clones : c # CloneOf[a] => gitlock'[c] = gitlock[c]
      BY <3>1, Limits DEF Typed
    <3>4. \A b \in Agents : Locked(call[b]) => CloneOf[b] # CloneOf[a]
      BY <3>1, Limits DEF Locking
    <3> QED
      BY <3>2, <3>3, <3>4, Limits DEF Locking, GoesOn, Becomes
  <2>3. CASE LockTimesOut(a)
    BY <2>3, RaisesFails, MovesLocking DEF LockTimesOut
  <2>4. CASE WriteDelta(a)
    <3>1. call[a].todo # <<>> /\ Head(call[a].todo) # "lock" /\ UNCHANGED gitlock
      BY <2>4 DEF WriteDelta, At
    <3>2. \E e \in CallRecords : GoesOn(a, e)
      BY <2>4, WriteDeltaDoes
    <3> QED
      BY <3>1, <3>2, MovesLocking
  <2>5. CASE ReadRows(a)
    <3>1. call[a].todo # <<>> /\ Head(call[a].todo) # "lock" /\ UNCHANGED gitlock
      BY <2>5 DEF ReadRows, At
    <3>2. \E e \in CallRecords : GoesOn(a, e)
      BY <2>5, ReadRowsDoes
    <3> QED
      BY <3>1, <3>2, MovesLocking
  <2>6. CASE WriteBoard(a)
    <3>1. call[a].todo # <<>> /\ Head(call[a].todo) # "lock" /\ UNCHANGED gitlock
      BY <2>6 DEF WriteBoard, At
    <3>2. \E e \in CallRecords : GoesOn(a, e)
      BY <2>6, WriteBoardDoes DEF Moves
    <3> QED
      BY <3>1, <3>2, MovesLocking
  <2>7. CASE WriteGoal(a)
    <3>1. call[a].todo # <<>> /\ Head(call[a].todo) # "lock" /\ UNCHANGED gitlock
      BY <2>7 DEF WriteGoal, At
    <3>2. \E e \in CallRecords : GoesOn(a, e)
      BY <2>7, WriteGoalDoes DEF Moves
    <3> QED
      BY <3>1, <3>2, MovesLocking
  <2>8. CASE LookAtLock(a)
    <3>1. call[a].todo # <<>> /\ Head(call[a].todo) = "look" /\ UNCHANGED gitlock
      BY <2>8 DEF LookAtLock, At
    <3>2. CASE Moves(a) \/ Fails(a)
      BY <3>1, <3>2, MovesLocking DEF Moves
    <3>3. ASSUME NEW e \in CallRecords, Becomes(a, e), e.op = call[a].op
          PROVE  Locking'
      <4>1. gitlock[CloneOf[a]] = a
        BY <3>1, UnderLock DEF Locking
      <4> QED
        BY <3>1, <3>3, <4>1 DEF Locking, Becomes
    <3> QED
      BY <2>8, <3>2, <3>3, LookAtLockDoes
  <2>9. CASE Claim(a)
    <3>1. call[a].todo # <<>> /\ Head(call[a].todo) # "lock" /\ UNCHANGED gitlock
      BY <2>9 DEF Claim, At
    <3>2. \E e \in CallRecords : GoesOn(a, e)
      BY <2>9, ClaimDoes DEF Moves
    <3> QED
      BY <3>1, <3>2, MovesLocking
  <2>10. CASE ReleaseFile(a)
    <3>1. call[a].todo # <<>> /\ Head(call[a].todo) # "lock" /\ UNCHANGED gitlock
      BY <2>10 DEF ReleaseFile, At
    <3>2. Moves(a) \/ Fails(a)
      BY <2>10, ReleaseFileDoes
    <3> QED
      BY <3>1, <3>2, MovesLocking DEF Moves
  <2>11. CASE PullTeam(a)
    <3>1. call[a].todo # <<>> /\ Head(call[a].todo) # "lock" /\ UNCHANGED gitlock
      BY <2>11 DEF PullTeam, At
    <3>2. Moves(a) \/ Fails(a)
      BY <2>11, PullTeamDoes
    <3> QED
      BY <3>1, <3>2, MovesLocking DEF Moves
  <2>12. CASE CommitTeam(a)
    <3>1. call[a].todo # <<>> /\ Head(call[a].todo) # "lock" /\ UNCHANGED gitlock
      BY <2>12 DEF CommitTeam, At
    <3>2. Moves(a)
      BY <2>12, CommitTeamDoes
    <3> QED
      BY <3>1, <3>2, MovesLocking DEF Moves
  <2>13. CASE PushTeam(a)
    <3>1. call[a].todo # <<>> /\ Head(call[a].todo) # "lock" /\ UNCHANGED gitlock
      BY <2>13 DEF PushTeam, At
    <3>2. Moves(a) \/ Fails(a)
      BY <2>13, PushTeamDoes
    <3> QED
      BY <3>1, <3>2, MovesLocking DEF Moves
  <2>14. CASE Return(a)
    BY <2>14, EndLocking DEF Return
  <2>15. CASE AgentDies(a)
    BY <2>15, EndLocking DEF AgentDies
  <2> QED
    BY <1>3, <2>1, <2>2, <2>3, <2>4, <2>5, <2>6, <2>7, <2>8, <2>9, <2>10, <2>11, <2>12, <2>13,
       <2>14, <2>15
<1> QED
  BY <1>1, <1>2, <1>3 DEF BoardNext

-----------------------------------------------------------------------------
\* Branches, the remote branch, and posts.

\* The step of one agent.
Acts(a) ==
    \/ \E op \in Calls[a] : \E arg \in Arguments(op) : Begin(a, op, arg)
    \/ Lock(a) \/ LockTimesOut(a) \/ WriteDelta(a) \/ ReadRows(a) \/ WriteBoard(a)
    \/ WriteGoal(a) \/ LookAtLock(a) \/ Claim(a) \/ ReleaseFile(a) \/ PullTeam(a)
    \/ CommitTeam(a) \/ PushTeam(a) \/ Return(a) \/ AgentDies(a)

\* A step is a tick or a step of one agent.
LEMMA NextActs ==
    ASSUME BoardNext
    PROVE  BoardTick \/ \E a \in Agents : Acts(a)
  BY DEF BoardNext, Acts

\* Only pull, commit and push change branches.
LEMMA OnlySyncs ==
    ASSUME NEW a \in Agents, Acts(a), ~PullTeam(a), ~CommitTeam(a), ~PushTeam(a)
    PROVE  UNCHANGED <<hub, branch>>
  BY DEF Acts, Begin, Lock, LockTimesOut, WriteDelta, ReadRows, WriteBoard, WriteGoal,
         LookAtLock, Claim, ReleaseFile, Return, AgentDies

Synced ==
    \A c \in Clones :
       /\ ~branch[c].ahead => branch[c].tree.deltas \subseteq hub.tree.deltas
       /\ branch[c].base = hub.version => hub.tree.deltas \subseteq branch[c].tree.deltas

Grows ==
    /\ hub.tree.deltas \subseteq hub'.tree.deltas
    /\ \A c \in Clones : /\ work[c].deltas \subseteq work'[c].deltas
                         /\ branch[c].tree.deltas \subseteq branch'[c].tree.deltas

\* A step that takes no delta from a worktree.
LEMMA WorkGrows ==
    ASSUME Typed, NEW a \in Agents, NEW t, NewWork(a, t),
           work[CloneOf[a]].deltas \subseteq t.deltas, UNCHANGED <<hub, branch>>
    PROVE  Grows
  BY DEF Grows, NewWork

\* A pull takes over what is published.
LEMMA PullSynced ==
    ASSUME Typed, Files, Synced, NEW a \in Agents, PullTeam(a)
    PROVE  Synced' /\ Grows
<1> DEFINE c == CloneOf[a]
<1>1. UNCHANGED hub /\ c \in Clones
  BY Limits DEF PullTeam
<1>2. CASE work' = work /\ branch' = branch
  BY <1>1, <1>2 DEF Synced, Grows
<1>3. CASE ~branch[c].ahead /\ Forwards(a)
  <2>1. PICK t \in Trees, r \in Branches :
          /\ NewWork(a, t) /\ NewBranch(a, r)
          /\ t.deltas = work[c].deltas \cup hub.tree.deltas
          /\ r.base = hub.version /\ r.tree = hub.tree
    BY <1>3 DEF Forwards, Forwarded
  <2>2. branch[c].tree.deltas \subseteq hub.tree.deltas
    BY <1>1, <1>3 DEF Synced
  <2>3. Synced'
    BY <1>1, <2>1 DEF Synced, NewBranch
  <2>4. Grows
    BY <1>1, <2>1, <2>2 DEF Grows, NewWork, NewBranch
  <2> QED
    BY <2>3, <2>4
<1> QED
  BY <1>2, <1>3, PullTeamDoes

\* A commit puts the branch ahead if it adds something.
LEMMA CommitSynced ==
    ASSUME Typed, Files, Synced, NEW a \in Agents, CommitTeam(a)
    PROVE  Synced' /\ Grows
<1> DEFINE c == CloneOf[a]
<1>1. UNCHANGED <<hub, work>> /\ c \in Clones
  BY Limits DEF CommitTeam
<1>2. PICK r \in Branches :
        /\ NewBranch(a, r) /\ r.base = branch[c].base
        /\ r.ahead = (branch[c].ahead \/ work[c] # branch[c].tree) /\ r.tree = work[c]
  BY CommitTeamDoes
<1>3. branch[c].tree.deltas \subseteq work[c].deltas
  BY <1>1 DEF Files
<1>4. ~r.ahead => r.tree = branch[c].tree /\ ~branch[c].ahead
  BY <1>2
<1>5. Synced'
  BY <1>1, <1>2, <1>3, <1>4 DEF Synced, NewBranch
<1>6. Grows
  BY <1>1, <1>2, <1>3 DEF Grows, NewBranch
<1> QED
  BY <1>5, <1>6

\* A push publishes on top of what is published.
LEMMA PushSynced ==
    ASSUME Typed, Files, Synced, NEW a \in Agents, PushTeam(a)
    PROVE  Synced' /\ Grows
<1> DEFINE c == CloneOf[a]
<1>1. UNCHANGED work /\ c \in Clones
  BY Limits DEF PushTeam
<1>2. CASE hub' = hub /\ branch' = branch
  BY <1>1, <1>2 DEF Synced, Grows
<1>3. CASE /\ branch[c].base = hub.version
           /\ hub'.version = hub.version + 1 /\ hub'.tree = branch[c].tree
           /\ \E r \in Branches :
                 /\ branch' \in [Clones -> Branches] /\ NewBranch(a, r)
                 /\ r.base = hub.version + 1 /\ r.ahead = FALSE /\ r.tree = branch[c].tree
  <2>1. PICK r \in Branches :
          /\ NewBranch(a, r) /\ r.base = hub.version + 1 /\ r.tree = branch[c].tree
    BY <1>3
  <2>2. hub.tree.deltas \subseteq branch[c].tree.deltas
    BY <1>1, <1>3 DEF Synced
  <2>3. \A x \in Clones : branch[x].base # hub.version + 1
    <3>1. \A x \in Clones : branch[x].base \in Nat /\ branch[x].base <= hub.version
      BY DEF Typed, Branches
    <3>2. hub.version \in Nat
      BY DEF Typed
    <3> QED
      BY <3>1, <3>2
  <2>4. ASSUME NEW x \in Clones, x # c
        PROVE  /\ ~branch'[x].ahead => branch'[x].tree.deltas \subseteq hub'.tree.deltas
               /\ branch'[x].base = hub'.version
                    => hub'.tree.deltas \subseteq branch'[x].tree.deltas
    <3>1. branch'[x] = branch[x]
      BY <2>1, <2>4 DEF NewBranch
    <3> QED
      BY <1>3, <2>2, <2>3, <3>1 DEF Synced
  <2>5. branch'[c].tree = hub'.tree
    BY <1>3, <2>1 DEF NewBranch
  <2>6. Synced'
    BY <2>4, <2>5 DEF Synced
  <2>7. Grows
    BY <1>1, <1>3, <2>1, <2>2 DEF Grows, NewBranch
  <2> QED
    BY <2>6, <2>7
<1> QED
  BY <1>2, <1>3, PushTeamDoes

\* Every step keeps branches and the remote branch in order, and loses no delta.
LEMMA SyncedStep ==
    ASSUME Typed, Files, Synced, [BoardNext]_boardVars
    PROVE  Synced' /\ Grows
<1>1. CASE UNCHANGED boardVars
  BY <1>1 DEF boardVars, Synced, Grows
<1>2. CASE BoardTick
  BY <1>2 DEF BoardTick, Synced, Grows
<1>3. ASSUME NEW a \in Agents, Acts(a)
      PROVE  Synced' /\ Grows
  <2>1. CASE PullTeam(a)
    BY <2>1, PullSynced
  <2>2. CASE CommitTeam(a)
    BY <2>2, CommitSynced
  <2>3. CASE PushTeam(a)
    BY <2>3, PushSynced
  <2>4. CASE ~PullTeam(a) /\ ~CommitTeam(a) /\ ~PushTeam(a)
    <3>1. UNCHANGED <<hub, branch>>
      BY <1>3, <2>4, OnlySyncs
    <3>2. Synced'
      BY <3>1 DEF Synced
    <3>3. CASE UNCHANGED work
      BY <3>1, <3>2, <3>3 DEF Grows
    <3>4. CASE WriteDelta(a)
      <4>1. PICK d \in BoardDeltas, t \in Trees :
              NewWork(a, t) /\ t.deltas = work[CloneOf[a]].deltas \cup {d}
        BY <3>4, WriteDeltaDoes
      <4> QED
        BY <3>1, <3>2, <4>1, WorkGrows
    <3>5. CASE WriteBoard(a) \/ WriteGoal(a) \/ Claim(a) \/ ReleaseFile(a)
      <4>1. UNCHANGED work \/ \E t \in Trees : NewWork(a, t) /\ t.deltas = work[CloneOf[a]].deltas
        BY <3>5, WriteBoardDoes, WriteGoalDoes, ClaimDoes, ReleaseFileDoes DEF SetsLock
      <4> QED
        BY <3>1, <3>2, <3>3, <4>1, WorkGrows
    <3>6. UNCHANGED work \/ WriteDelta(a) \/ WriteBoard(a) \/ WriteGoal(a) \/ Claim(a)
            \/ ReleaseFile(a)
      BY <1>3, <2>4 DEF Acts, Begin, Lock, LockTimesOut, ReadRows, LookAtLock, Return, AgentDies
    <3> QED
      BY <3>3, <3>4, <3>5, <3>6
  <2> QED
    BY <2>1, <2>2, <2>3, <2>4
<1> QED
  BY <1>1, <1>2, <1>3, NextActs

\* What is posted is on its way to the remote branch.
PostStage(c, mine, ours, theirs) ==
    c.op = "post" =>
       /\ Len(c.todo) <= 2 => c.delta \subseteq mine
       /\ Len(c.todo) <= 1 => c.delta \subseteq ours
       /\ Len(c.todo) = 0 => c.delta \subseteq theirs

Posting ==
    /\ posted \subseteq hub.tree.deltas
    /\ \A a \in Agents : PostStage(call[a], work[CloneOf[a]].deltas,
                                   branch[CloneOf[a]].tree.deltas, hub.tree.deltas)

\* A step of one agent leaves the posts of the others where they are.
LEMMA OthersPosting ==
    ASSUME Posting, Grows, NEW a \in Agents, NEW e, Becomes(a, e), UNCHANGED posted,
           PostStage(e, work'[CloneOf[a]].deltas, branch'[CloneOf[a]].tree.deltas, hub'.tree.deltas)
    PROVE  Posting'
<1>1. ASSUME NEW b \in Agents, b # a
      PROVE  PostStage(call'[b], work'[CloneOf[b]].deltas, branch'[CloneOf[b]].tree.deltas,
                       hub'.tree.deltas)
  <2>1. call'[b] = call[b] /\ CloneOf[b] \in Clones
    BY <1>1, Limits DEF Becomes
  <2> QED
    BY <2>1 DEF Posting, PostStage, Grows
<1> QED
  BY <1>1 DEF Posting, Grows, Becomes

\* What the steps of a post do, by the number of steps that are left.
LEMMA OwnPosting ==
    ASSUME Typed, Posting, Grows, NEW a \in Agents, call[a].todo # <<>>, UNCHANGED posted,
           NEW e \in CallRecords, GoesOn(a, e),
           Head(call[a].todo) # "delta" => e.delta = call[a].delta,
           call[a].op = "post" /\ Head(call[a].todo) = "delta"
              => e.delta \subseteq work'[CloneOf[a]].deltas,
           Head(call[a].todo) = "commit" =>
              work[CloneOf[a]].deltas \subseteq branch'[CloneOf[a]].tree.deltas,
           Head(call[a].todo) = "push" =>
              branch[CloneOf[a]].tree.deltas \subseteq hub'.tree.deltas
    PROVE  Posting'
<1> DEFINE c == CloneOf[a]
           h == Head(call[a].todo)
<1>1. call[a] \in CallRecords /\ OnPlan(call[a]) /\ c \in Clones
  BY Limits DEF Typed, CallsFit, CallFits
<1>2. PICK n \in Nat : n = Len(call[a].todo)
  BY <1>1 DEF CallRecords
<1>3. Len(e.todo) = n - 1 /\ e.op = call[a].op /\ Becomes(a, e)
  BY <1>2 DEF GoesOn
<1>4. SUFFICES ASSUME e.op = "post"
               PROVE  PostStage(e, work'[c].deltas, branch'[c].tree.deltas, hub'.tree.deltas)
  BY <1>3, OthersPosting DEF PostStage
<1>5. /\ work[c].deltas \subseteq work'[c].deltas
      /\ branch[c].tree.deltas \subseteq branch'[c].tree.deltas
      /\ hub.tree.deltas \subseteq hub'.tree.deltas
  BY <1>1 DEF Grows
<1>6. h \in {"lock", "pull", "delta", "commit", "push"} /\
      /\ h = "lock" => n = 5
      /\ h = "pull" => n = 4
      /\ h = "delta" => n = 3
      /\ h = "commit" => n = 2
      /\ h = "push" => n = 1
  <2>1. h = Plan["post"][5 - n + 1] /\ n \in 1 .. 5
    BY <1>1, <1>2, <1>3, <1>4, StepOfPlan, PlanLengths
  <2>2. CASE n = 1
    BY <2>1, <2>2, PlanSteps
  <2>3. CASE n = 2
    BY <2>1, <2>3, PlanSteps
  <2>4. CASE n = 3
    BY <2>1, <2>4, PlanSteps
  <2>5. CASE n = 4
    BY <2>1, <2>5, PlanSteps
  <2>6. CASE n = 5
    BY <2>1, <2>6, PlanSteps
  <2> QED
    BY <2>1, <2>2, <2>3, <2>4, <2>5, <2>6
<1>7. /\ n <= 2 => call[a].delta \subseteq work[c].deltas
      /\ n <= 1 => call[a].delta \subseteq branch[c].tree.deltas
  BY <1>2, <1>3, <1>4 DEF Posting, PostStage
<1>8. CASE h \in {"lock", "pull"}
  BY <1>3, <1>6, <1>8 DEF PostStage
<1>9. CASE h = "delta"
  BY <1>3, <1>4, <1>6, <1>9 DEF PostStage
<1>10. CASE h = "commit"
  <2>1. e.delta \subseteq work'[c].deltas /\ e.delta \subseteq branch'[c].tree.deltas
    BY <1>5, <1>6, <1>7, <1>10
  <2> QED
    BY <1>3, <1>6, <1>10, <2>1 DEF PostStage
<1>11. CASE h = "push"
  <2>1. /\ e.delta \subseteq work'[c].deltas /\ e.delta \subseteq branch'[c].tree.deltas
        /\ e.delta \subseteq hub'.tree.deltas
    BY <1>5, <1>6, <1>7, <1>11
  <2> QED
    BY <2>1 DEF PostStage
<1> QED
  BY <1>6, <1>8, <1>9, <1>10, <1>11

\* The steps other than those in which a plan goes on.
Leaves(a) ==
    \/ Fails(a)
    \/ \E e \in CallRecords : Becomes(a, e) /\ e.op = call[a].op /\ e.op # "post"
    \/ Becomes(a, NoCall)
    \/ \E op \in Calls[a] : \E arg \in Arguments(op) : Becomes(a, Fresh(op, Plan[op], arg))

\* A call that begins, by its fields.
LEMMA BegunCall ==
    ASSUME NEW a \in Agents, NEW op \in Calls[a], NEW arg \in Arguments(op)
    PROVE  \E e \in CallRecords :
              /\ e = Fresh(op, Plan[op], arg) /\ e.op = op /\ e.arg = arg
              /\ e.todo = Plan[op] /\ e.delta = {} /\ op \in DOMAIN Plan
<1>1. op \in DOMAIN Plan
  BY BoardConstants
<1> QED
  BY <1>1, PlanLengths, FreshFields DEF Arguments

\* A step that is none of a post.
LEMMA LeavesPosting ==
    ASSUME Posting, Grows, NEW a \in Agents, Leaves(a), UNCHANGED posted
    PROVE  Posting'
<1>1. ASSUME NEW e, e.op # "post" PROVE PostStage(e, work'[CloneOf[a]].deltas,
                                         branch'[CloneOf[a]].tree.deltas, hub'.tree.deltas)
  BY <1>1 DEF PostStage
<1>2. CASE Fails(a)
  BY <1>1, <1>2, OthersPosting DEF Fails
<1>3. CASE \E e \in CallRecords : Becomes(a, e) /\ e.op = call[a].op /\ e.op # "post"
  BY <1>1, <1>3, OthersPosting
<1>4. CASE Becomes(a, NoCall)
  <2>1. NoCall.op # "post"
    BY DEF NoCall
  <2> QED
    BY <1>1, <1>4, <2>1, OthersPosting
<1>5. ASSUME NEW op \in Calls[a], NEW arg \in Arguments(op), Becomes(a, Fresh(op, Plan[op], arg))
      PROVE  Posting'
  <2>1. PICK e \in CallRecords : e = Fresh(op, Plan[op], arg) /\ e.op = op /\ e.todo = Plan[op]
    BY BegunCall
  <2>2. e.op = "post" => ~(Len(e.todo) <= 2) /\ ~(Len(e.todo) <= 1) /\ Len(e.todo) # 0
    <3>1. PICK n : n = Len(e.todo)
      OBVIOUS
    <3>2. e.op = "post" => n = 5
      BY <2>1, <3>1, PlanLengths
    <3>3. e.op = "post" => ~(n <= 2) /\ ~(n <= 1) /\ n # 0
      BY <3>2
    <3> QED
      BY <3>1, <3>3
  <2>3. PostStage(e, work'[CloneOf[a]].deltas, branch'[CloneOf[a]].tree.deltas, hub'.tree.deltas)
    BY <2>2 DEF PostStage
  <2> QED
    BY <1>5, <2>1, <2>3, OthersPosting
<1> QED
  BY <1>2, <1>3, <1>4, <1>5 DEF Leaves

\* claim_file is not a post.
LEMMA LookLeaves ==
    ASSUME Typed, NEW a \in Agents, LookAtLock(a)
    PROVE  Moves(a) \/ Leaves(a)
<1>1. call[a].op = "claim"
  <2>1. call[a] \in CallRecords /\ OnPlan(call[a]) /\ call[a].todo # <<>>
          /\ Head(call[a].todo) = "look"
    BY DEF Typed, CallsFit, CallFits, LookAtLock, At
  <2> QED
    BY <2>1, HeadSays
<1> QED
  BY <1>1, LookAtLockDoes DEF Leaves

\* Every step keeps posts on their way to the remote branch.
LEMMA PostingStep ==
    ASSUME Typed, Files, Synced, Posting, [BoardNext]_boardVars
    PROVE  Posting'
<1>g. Grows
  BY SyncedStep
<1>1. CASE UNCHANGED boardVars
  BY <1>1 DEF boardVars, Posting, PostStage
<1>2. CASE BoardTick
  BY <1>2 DEF BoardTick, Posting, PostStage
<1>3. ASSUME NEW a \in Agents, Acts(a)
      PROVE  Posting'
  <2> DEFINE c == CloneOf[a]
  <2>0. c \in Clones
    BY Limits
  <2>1. ASSUME NEW op \in Calls[a], NEW arg \in Arguments(op), Begin(a, op, arg)
        PROVE  Posting'
    <3>1. Leaves(a) /\ UNCHANGED posted
      BY <2>1, BeginFits DEF Leaves, Typed, Begin
    <3> QED
      BY <1>g, <3>1, LeavesPosting
  <2>2. CASE Lock(a)
    <3>1. call[a].todo # <<>> /\ Head(call[a].todo) = "lock" /\ UNCHANGED posted
      BY <2>2 DEF Lock, At
    <3>2. PICK e \in CallRecords : GoesOn(a, e) /\ e.delta = call[a].delta
      BY <2>2, <3>1, ProceedsMoves DEF Lock, Moves
    <3> QED
      BY <1>g, <3>1, <3>2, OwnPosting
  <2>3. CASE LockTimesOut(a)
    BY <1>g, <2>3, RaisesFails, LeavesPosting DEF LockTimesOut, Leaves
  <2>4. CASE WriteDelta(a)
    <3>1. call[a].todo # <<>> /\ Head(call[a].todo) = "delta" /\ UNCHANGED posted
      BY <2>4 DEF WriteDelta, At
    <3>2. PICK d \in BoardDeltas, t \in Trees, e \in CallRecords :
            /\ NewWork(a, t) /\ t.deltas = work[c].deltas \cup {d}
            /\ GoesOn(a, e) /\ e.delta = {d}
      BY <2>4, WriteDeltaDoes
    <3>3. e.delta \subseteq work'[c].deltas
      BY <3>2 DEF NewWork
    <3> QED
      BY <1>g, <3>1, <3>2, <3>3, OwnPosting
  <2>5. CASE ReadRows(a)
    <3>1. call[a].todo # <<>> /\ Head(call[a].todo) = "rows" /\ UNCHANGED posted
      BY <2>5 DEF ReadRows, At
    <3>2. PICK e \in CallRecords : GoesOn(a, e) /\ e.delta = call[a].delta
      BY <2>5, ReadRowsDoes
    <3> QED
      BY <1>g, <3>1, <3>2, OwnPosting
  <2>6. CASE WriteBoard(a)
    <3>1. call[a].todo # <<>> /\ Head(call[a].todo) = "board" /\ UNCHANGED posted
      BY <2>6 DEF WriteBoard, At
    <3>2. PICK e \in CallRecords : GoesOn(a, e) /\ e.delta = call[a].delta
      BY <2>6, WriteBoardDoes DEF Moves
    <3> QED
      BY <1>g, <3>1, <3>2, OwnPosting
  <2>7. CASE WriteGoal(a)
    <3>1. call[a].todo # <<>> /\ Head(call[a].todo) = "goal" /\ UNCHANGED posted
      BY <2>7 DEF WriteGoal, At
    <3>2. PICK e \in CallRecords : GoesOn(a, e) /\ e.delta = call[a].delta
      BY <2>7, WriteGoalDoes DEF Moves
    <3> QED
      BY <1>g, <3>1, <3>2, OwnPosting
  <2>8. CASE LookAtLock(a)
    <3>1. call[a].todo # <<>> /\ Head(call[a].todo) = "look" /\ UNCHANGED posted
      BY <2>8 DEF LookAtLock, At
    <3>2. CASE Moves(a)
      <4>1. PICK e \in CallRecords : GoesOn(a, e) /\ e.delta = call[a].delta
        BY <3>2 DEF Moves
      <4> QED
        BY <1>g, <3>1, <4>1, OwnPosting
    <3> QED
      BY <1>g, <2>8, <3>1, <3>2, LookLeaves, LeavesPosting
  <2>9. CASE Claim(a)
    <3>1. call[a].todo # <<>> /\ Head(call[a].todo) = "claim" /\ UNCHANGED posted
      BY <2>9 DEF Claim, At
    <3>2. PICK e \in CallRecords : GoesOn(a, e) /\ e.delta = call[a].delta
      BY <2>9, ClaimDoes DEF Moves
    <3> QED
      BY <1>g, <3>1, <3>2, OwnPosting
  <2>10. CASE ReleaseFile(a)
    <3>1. call[a].todo # <<>> /\ Head(call[a].todo) = "release" /\ UNCHANGED posted
      BY <2>10 DEF ReleaseFile, At
    <3>2. CASE Moves(a)
      <4>1. PICK e \in CallRecords : GoesOn(a, e) /\ e.delta = call[a].delta
        BY <3>2 DEF Moves
      <4> QED
        BY <1>g, <3>1, <4>1, OwnPosting
    <3>3. CASE Fails(a)
      BY <1>g, <3>1, <3>3, LeavesPosting DEF Leaves
    <3> QED
      BY <2>10, <3>2, <3>3, ReleaseFileDoes
  <2>11. CASE PullTeam(a)
    <3>1. call[a].todo # <<>> /\ Head(call[a].todo) = "pull" /\ UNCHANGED posted
      BY <2>11 DEF PullTeam, At
    <3>2. CASE Moves(a)
      <4>1. PICK e \in CallRecords : GoesOn(a, e) /\ e.delta = call[a].delta
        BY <3>2 DEF Moves
      <4> QED
        BY <1>g, <3>1, <4>1, OwnPosting
    <3>3. CASE Fails(a)
      BY <1>g, <3>1, <3>3, LeavesPosting DEF Leaves
    <3> QED
      BY <2>11, <3>2, <3>3, PullTeamDoes
  <2>12. CASE CommitTeam(a)
    <3>1. call[a].todo # <<>> /\ Head(call[a].todo) = "commit" /\ UNCHANGED posted
      BY <2>12 DEF CommitTeam, At
    <3>2. PICK e \in CallRecords : GoesOn(a, e) /\ e.delta = call[a].delta
      BY <2>12, CommitTeamDoes DEF Moves
    <3>3. PICK r \in Branches : NewBranch(a, r) /\ r.tree = work[c]
      BY <2>12, CommitTeamDoes
    <3>4. work[c].deltas \subseteq branch'[c].tree.deltas
      BY <3>3 DEF NewBranch
    <3> QED
      BY <1>g, <3>1, <3>2, <3>4, OwnPosting
  <2>13. CASE PushTeam(a)
    <3>1. call[a].todo # <<>> /\ Head(call[a].todo) = "push" /\ UNCHANGED posted
      BY <2>13 DEF PushTeam, At
    <3>2. CASE Fails(a)
      BY <1>g, <3>1, <3>2, LeavesPosting DEF Leaves
    <3>3. CASE ~branch[c].ahead /\ Moves(a) /\ hub' = hub
      <4>1. PICK e \in CallRecords : GoesOn(a, e) /\ e.delta = call[a].delta
        BY <3>3 DEF Moves
      <4>2. branch[c].tree.deltas \subseteq hub'.tree.deltas
        BY <2>0, <3>3 DEF Synced
      <4> QED
        BY <1>g, <3>1, <4>1, <4>2, OwnPosting
    <3>4. CASE Moves(a) /\ hub'.tree = branch[c].tree
      <4>1. PICK e \in CallRecords : GoesOn(a, e) /\ e.delta = call[a].delta
        BY <3>4 DEF Moves
      <4> QED
        BY <1>g, <3>1, <3>4, <4>1, OwnPosting
    <3> QED
      BY <2>13, <3>2, <3>3, <3>4, PushTeamDoes
  <2>14. CASE Return(a)
    <3>1. /\ call[a].todo = <<>> /\ Becomes(a, NoCall) /\ UNCHANGED <<hub, work, branch>>
          /\ posted' = IF call[a].op = "post" THEN posted \cup call[a].delta ELSE posted
      BY <2>14, EndDoes DEF Return, Typed
    <3>2. call[a].op = "post" => call[a].delta \subseteq hub.tree.deltas
      BY <3>1 DEF Posting, PostStage
    <3>3. posted' \subseteq hub'.tree.deltas
      BY <3>1, <3>2 DEF Posting
    <3>4. \A b \in Agents : call'[b] = call[b] \/ call'[b].op # "post"
      BY <3>1 DEF Becomes, NoCall
    <3> QED
      BY <3>1, <3>3, <3>4 DEF Posting, PostStage
  <2>15. CASE AgentDies(a)
    <3>1. Becomes(a, NoCall) /\ UNCHANGED posted
      BY <2>15, EndDoes DEF AgentDies, Typed
    <3> QED
      BY <1>g, <3>1, LeavesPosting DEF Leaves
  <2> QED
    BY <1>3, <2>1, <2>2, <2>3, <2>4, <2>5, <2>6, <2>7, <2>8, <2>9, <2>10, <2>11, <2>12, <2>13,
       <2>14, <2>15 DEF Acts
<1> QED
  BY <1>1, <1>2, <1>3, NextActs

-----------------------------------------------------------------------------
\* Lock files.

\* A lock file of an agent is changed by that agent only, so other clones cannot
\* take it away: their branches have it as the remote branch does, or are older.
LockFiles ==
    \A a \in Agents, l \in Lockable :
       /\ \A x \in Clones : x # CloneOf[a] =>
             /\ branch[x].tree.locks[l] = a => work[x].locks[l] = a
             /\ branch[x].base = hub.version /\ hub.tree.locks[l] = a
                   => branch[x].tree.locks[l] = a
       /\ ~branch[CloneOf[a]].ahead /\ branch[CloneOf[a]].tree.locks[l] = a
             => hub.tree.locks[l] = a

\* What a call knows of the lock files of its clone.
ClaimStage(c, mine, locks, a) ==
    /\ c.op = "claim" /\ Len(c.todo) = 2 => locks[c.arg] = 0
    /\ c.op = "claim" /\ Len(c.todo) <= 1 => locks[c.arg] = a
    /\ c.op = "release" => c.arg \notin mine

Claims ==
    \A a \in Agents :
       /\ \A l \in held[a] : work[CloneOf[a]].locks[l] = a
       /\ ClaimStage(call[a], held[a], work[CloneOf[a]].locks, a)

\* Steps that change no lock file.
LEMMA LockFilesStay ==
    ASSUME LockFiles, UNCHANGED <<hub, branch>>, \A x \in Clones : work'[x].locks = work[x].locks
    PROVE  LockFiles'
  BY DEF LockFiles

\* A step that changes a free lock file, or the agent's own.
LEMMA LockFilesSet ==
    ASSUME Typed, LockFiles, UNCHANGED <<hub, branch>>, NEW a \in Agents, NEW l \in Lockable,
           NEW o, SetsLock(a, l, o), work[CloneOf[a]].locks[l] \in {0, a}
    PROVE  LockFiles'
<1> DEFINE c == CloneOf[a]
<1>1. PICK t \in Trees :
        /\ NewWork(a, t) /\ \A k \in Lockable : k # l => t.locks[k] = work[c].locks[k]
  BY DEF SetsLock
<1>2. ASSUME NEW b \in Agents, NEW k \in Lockable, NEW x \in Clones, x # CloneOf[b],
             branch[x].tree.locks[k] = b
      PROVE  work'[x].locks[k] = b
  <2>1. work[x].locks[k] = b
    BY <1>2 DEF LockFiles
  <2>2. CASE x # c
    BY <1>1, <2>1, <2>2 DEF NewWork
  <2>3. CASE x = c
    <3>1. k # l
      BY <1>2, <2>1, <2>3, Limits
    <3> QED
      BY <1>1, <2>1, <2>3, <3>1 DEF NewWork
  <2> QED
    BY <2>2, <2>3
<1> QED
  BY <1>2 DEF LockFiles

\* A pull keeps the lock files of the agents of its clone.
LEMMA PullKeepsLocks ==
    ASSUME Typed, LockFiles, NEW a \in Agents,
           ~branch[CloneOf[a]].ahead, ~Contested(CloneOf[a]), Forwards(a), UNCHANGED hub
    PROVE  /\ LockFiles'
           /\ \A b \in Agents, l \in Lockable :
                 CloneOf[b] = CloneOf[a] /\ work[CloneOf[a]].locks[l] = b
                    => work'[CloneOf[a]].locks[l] = b
<1> DEFINE c == CloneOf[a]
           mine == work[c].locks
           old  == branch[c].tree.locks
           new  == hub.tree.locks
<1>0. PICK t \in Trees, r \in Branches :
        /\ NewWork(a, t) /\ NewBranch(a, r) /\ t = Forwarded(CloneOf[a])
        /\ t.deltas = work[CloneOf[a]].deltas \cup hub.tree.deltas
        /\ t.locks = [l \in Lockable |->
                       IF hub.tree.locks[l] # branch[CloneOf[a]].tree.locks[l]
                       THEN hub.tree.locks[l] ELSE work[CloneOf[a]].locks[l]]
        /\ r.base = hub.version /\ r.ahead = FALSE /\ r.tree = hub.tree
  BY ForwardsTo
<1>1. /\ NewWork(a, t) /\ NewBranch(a, r)
      /\ r.base = hub.version /\ r.ahead = FALSE /\ r.tree = hub.tree
      /\ \A l \in Lockable : t.locks[l] = IF new[l] # old[l] THEN new[l] ELSE mine[l]
  BY <1>0
<1>2. \A l \in Lockable : new[l] # old[l] => mine[l] = old[l]
  BY DEF Contested
<1>3. c \in Clones
  BY Limits
<1>4. ASSUME NEW b \in Agents, NEW l \in Lockable, CloneOf[b] = c, mine[l] = b
      PROVE  t.locks[l] = b
  <2>1. old[l] = b => new[l] = b
    BY <1>4 DEF LockFiles
  <2> QED
    BY <1>1, <1>2, <1>4, <2>1
<1>5. ASSUME NEW b \in Agents, NEW l \in Lockable, CloneOf[b] # c, new[l] = b
      PROVE  t.locks[l] = b
  <2>1. old[l] = b => mine[l] = b
    BY <1>3, <1>5 DEF LockFiles
  <2> QED
    BY <1>1, <1>5, <2>1
<1>7. /\ work'[c] = t /\ branch'[c] = r
      /\ \A x \in Clones : x # c => work'[x] = work[x] /\ branch'[x] = branch[x]
  BY <1>1 DEF NewWork, NewBranch
<1>8. ASSUME NEW b \in Agents, NEW l \in Lockable, NEW x \in Clones, x # CloneOf[b]
      PROVE  /\ branch'[x].tree.locks[l] = b => work'[x].locks[l] = b
             /\ branch'[x].base = hub'.version /\ hub'.tree.locks[l] = b
                   => branch'[x].tree.locks[l] = b
  <2>1. CASE x = c
    BY <1>1, <1>5, <1>7, <1>8, <2>1
  <2>2. CASE x # c
    BY <1>7, <1>8, <2>2 DEF LockFiles
  <2> QED
    BY <2>1, <2>2
<1>9. ASSUME NEW b \in Agents, NEW l \in Lockable, ~branch'[CloneOf[b]].ahead,
             branch'[CloneOf[b]].tree.locks[l] = b
      PROVE  hub'.tree.locks[l] = b
  <2>1. CASE CloneOf[b] = c
    BY <1>1, <1>7, <1>9, <2>1
  <2>2. CASE CloneOf[b] # c
    BY <1>7, <1>9, <2>2, Limits DEF LockFiles
  <2> QED
    BY <2>1, <2>2
<1> QED
  BY <1>4, <1>7, <1>8, <1>9 DEF LockFiles

\* A commit keeps the lock files as they are.
LEMMA CommitKeepsLocks ==
    ASSUME Typed, LockFiles, NEW a \in Agents, CommitTeam(a)
    PROVE  LockFiles'
<1> DEFINE c == CloneOf[a]
<1>1. UNCHANGED <<hub, work>> /\ c \in Clones
  BY Limits DEF CommitTeam
<1>2. PICK r \in Branches :
        /\ NewBranch(a, r) /\ r.base = branch[c].base
        /\ r.ahead = (branch[c].ahead \/ work[c] # branch[c].tree) /\ r.tree = work[c]
  BY CommitTeamDoes
<1>3. ~r.ahead => work[c] = branch[c].tree /\ ~branch[c].ahead
  BY <1>2
<1>4. branch'[c] = r /\ \A x \in Clones : x # c => branch'[x] = branch[x]
  BY <1>2 DEF NewBranch
<1>5. ASSUME NEW b \in Agents, NEW l \in Lockable, NEW x \in Clones, x # CloneOf[b]
      PROVE  /\ branch'[x].tree.locks[l] = b => work'[x].locks[l] = b
             /\ branch'[x].base = hub'.version /\ hub'.tree.locks[l] = b
                   => branch'[x].tree.locks[l] = b
  <2>1. /\ branch[x].tree.locks[l] = b => work[x].locks[l] = b
        /\ branch[x].base = hub.version /\ hub.tree.locks[l] = b
              => branch[x].tree.locks[l] = b
    BY <1>5 DEF LockFiles
  <2>2. CASE x = c
    BY <1>1, <1>2, <1>4, <2>1, <2>2
  <2>3. CASE x # c
    BY <1>1, <1>4, <2>1, <2>3
  <2> QED
    BY <2>2, <2>3
<1>6. ASSUME NEW b \in Agents, NEW l \in Lockable, ~branch'[CloneOf[b]].ahead,
             branch'[CloneOf[b]].tree.locks[l] = b
      PROVE  hub'.tree.locks[l] = b
  <2>1. ~branch[CloneOf[b]].ahead /\ branch[CloneOf[b]].tree.locks[l] = b
    BY <1>2, <1>3, <1>4, <1>6, Limits
  <2> QED
    BY <1>1, <2>1 DEF LockFiles
<1> QED
  BY <1>5, <1>6 DEF LockFiles

\* A push publishes the lock files as the clone has them.
LEMMA PushKeepsLocks ==
    ASSUME Typed, LockFiles, NEW a \in Agents, PushTeam(a)
    PROVE  LockFiles'
<1> DEFINE c == CloneOf[a]
<1>1. UNCHANGED work /\ c \in Clones
  BY Limits DEF PushTeam
<1>2. CASE hub' = hub /\ branch' = branch
  BY <1>1, <1>2, LockFilesStay
<1>3. CASE /\ branch[c].base = hub.version
           /\ hub'.version = hub.version + 1 /\ hub'.tree = branch[c].tree
           /\ \E r \in Branches :
                 /\ branch' \in [Clones -> Branches] /\ NewBranch(a, r)
                 /\ r.base = hub.version + 1 /\ r.ahead = FALSE /\ r.tree = branch[c].tree
  <2>1. PICK r \in Branches :
          /\ NewBranch(a, r) /\ r.base = hub.version + 1 /\ r.tree = branch[c].tree
    BY <1>3
  <2>2. \A x \in Clones : branch[x].base # hub.version + 1
    <3>1. \A x \in Clones : branch[x].base \in Nat /\ branch[x].base <= hub.version
      BY DEF Typed, Branches
    <3>2. hub.version \in Nat
      BY DEF Typed
    <3> QED
      BY <3>1, <3>2
  <2>3. branch'[c] = r /\ \A x \in Clones : x # c => branch'[x] = branch[x]
    BY <2>1 DEF NewBranch
  <2>4. ASSUME NEW b \in Agents, NEW l \in Lockable, NEW x \in Clones, x # CloneOf[b]
        PROVE  /\ branch'[x].tree.locks[l] = b => work'[x].locks[l] = b
               /\ branch'[x].base = hub'.version /\ hub'.tree.locks[l] = b
                     => branch'[x].tree.locks[l] = b
    <3>1. branch'[x].tree = branch[x].tree
      BY <2>1, <2>3
    <3>2. branch[x].tree.locks[l] = b => work[x].locks[l] = b
      BY <2>4 DEF LockFiles
    <3>3. x # c => branch'[x].base # hub'.version
      BY <1>3, <2>2, <2>3
    <3> QED
      BY <1>1, <1>3, <3>1, <3>2, <3>3
  <2>5. ASSUME NEW b \in Agents, NEW l \in Lockable, ~branch'[CloneOf[b]].ahead,
               branch'[CloneOf[b]].tree.locks[l] = b
        PROVE  hub'.tree.locks[l] = b
    <3>1. CASE CloneOf[b] = c
      BY <1>3, <2>1, <2>3, <2>5, <3>1
    <3>2. CASE CloneOf[b] # c
      <4>1. branch'[CloneOf[b]] = branch[CloneOf[b]]
        BY <2>3, <3>2, Limits
      <4>2. hub.tree.locks[l] = b
        BY <2>5, <4>1 DEF LockFiles
      <4>3. branch[c].tree.locks[l] = b
        BY <1>1, <1>3, <3>2, <4>2 DEF LockFiles
      <4> QED
        BY <1>3, <4>3
    <3> QED
      BY <3>1, <3>2
  <2> QED
    BY <2>4, <2>5 DEF LockFiles
<1> QED
  BY <1>2, <1>3, PushTeamDoes

\* What the other agents of a clone know stays true under the lock.
LEMMA OthersClaims ==
    ASSUME Typed, Locking, Claims, NEW a \in Agents, NEW e, Becomes(a, e),
           \A b \in Agents : b # a => held'[b] = held[b],
           \A x \in Clones : x # CloneOf[a] => work'[x].locks = work[x].locks,
           \/ work'[CloneOf[a]].locks = work[CloneOf[a]].locks
           \/ /\ Locked(call[a])
              /\ \A b \in Agents, l \in Lockable :
                    b # a /\ CloneOf[b] = CloneOf[a] /\ work[CloneOf[a]].locks[l] = b
                       => work'[CloneOf[a]].locks[l] = b,
           \A l \in held'[a] : work'[CloneOf[a]].locks[l] = a,
           ClaimStage(e, held'[a], work'[CloneOf[a]].locks, a)
    PROVE  Claims'
<1>1. ASSUME NEW b \in Agents, b # a
      PROVE  /\ \A l \in held'[b] : work'[CloneOf[b]].locks[l] = b
             /\ ClaimStage(call'[b], held'[b], work'[CloneOf[b]].locks, b)
  <2>1. call'[b] = call[b] /\ held'[b] = held[b] /\ CloneOf[b] \in Clones
          /\ held[b] \subseteq Lockable
    BY <1>1, Limits DEF Becomes, Typed
  <2>2. /\ \A l \in held[b] : work[CloneOf[b]].locks[l] = b
        /\ ClaimStage(call[b], held[b], work[CloneOf[b]].locks, b)
    BY DEF Claims
  <2>3. CASE work'[CloneOf[b]].locks = work[CloneOf[b]].locks
    BY <2>1, <2>2, <2>3
  <2>4. CASE /\ CloneOf[b] = CloneOf[a] /\ Locked(call[a])
             /\ \A l \in Lockable : work[CloneOf[a]].locks[l] = b => work'[CloneOf[a]].locks[l] = b
    <3>1. ~Locked(call[b])
      BY <1>1, <2>4, OneLocked
    <3>2. call[b].op = "claim" => ~(Len(call[b].todo) = 2) /\ ~(Len(call[b].todo) <= 1)
      <4>1. PICK n \in Nat : n = Len(call[b].todo)
        BY DEF Typed, CallsFit, CallRecords
      <4>2. call[b].op = "claim" => ~(n < 4)
        BY <3>1, <4>1, LockAtValues DEF Locked
      <4>3. call[b].op = "claim" => ~(n = 2) /\ ~(n <= 1)
        BY <4>2
      <4> QED
        BY <4>1, <4>3
    <3>3. ClaimStage(call'[b], held'[b], work'[CloneOf[b]].locks, b)
      BY <2>1, <2>2, <3>2 DEF ClaimStage
    <3> QED
      BY <2>1, <2>2, <2>4, <3>3
  <2> QED
    BY <1>1, <2>1, <2>3, <2>4
<1> QED
  BY <1>1 DEF Claims, Becomes

\* What a call knows of a lock file, it knows after a step that is not about it.
LEMMA OwnStage ==
    ASSUME Typed, NEW a \in Agents, call[a].todo # <<>>,
           Head(call[a].todo) # "look", Head(call[a].todo) # "claim",
           NEW e, GoesOn(a, e), NEW mine, NEW locks, ClaimStage(call[a], mine, locks, a)
    PROVE  ClaimStage(e, mine, locks, a)
<1>1. call[a] \in CallRecords /\ OnPlan(call[a])
  BY DEF Typed, CallsFit, CallFits
<1>2. PICK n \in Nat : n = Len(call[a].todo)
  BY <1>1 DEF CallRecords
<1>3. Len(e.todo) = n - 1 /\ e.op = call[a].op /\ e.arg = call[a].arg
  BY <1>2 DEF GoesOn
<1>4. e.op = "claim" => n # 3 /\ n # 2
  <2>1. e.op = "claim" => Head(call[a].todo) = Plan["claim"][4 - n + 1]
    BY <1>1, <1>2, <1>3, StepOfPlan, PlanLengths
  <2>2. n = 3 => 4 - n + 1 = 2
    OBVIOUS
  <2>3. n = 2 => 4 - n + 1 = 3
    OBVIOUS
  <2> QED
    BY <2>1, <2>2, <2>3, PlanSteps
<1>5. e.op = "claim" /\ n - 1 = 2 => FALSE
  BY <1>4
<1>6. e.op = "claim" /\ n - 1 <= 1 => n <= 1
  BY <1>4
<1>7. e.op = "claim" /\ n <= 1 => locks[e.arg] = a
  BY <1>2, <1>3 DEF ClaimStage
<1>8. e.op = "release" => e.arg \notin mine
  BY <1>3 DEF ClaimStage
<1> QED
  BY <1>3, <1>5, <1>6, <1>7, <1>8 DEF ClaimStage

\* Calls other than claim and release know nothing of lock files.
LEMMA OtherStage ==
    ASSUME NEW e, e.op \notin {"claim", "release"}, NEW mine, NEW locks, NEW a
    PROVE  ClaimStage(e, mine, locks, a)
  BY DEF ClaimStage

\* A step that changes no lock file, and neither looks at one nor claims it.
LEMMA QuietClaims ==
    ASSUME Typed, Locking, Claims, NEW a \in Agents, UNCHANGED held,
           \A x \in Clones : work'[x].locks = work[x].locks,
           \/ /\ call[a].todo # <<>> /\ Head(call[a].todo) # "look" /\ Head(call[a].todo) # "claim"
              /\ \E e \in CallRecords : GoesOn(a, e)
           \/ Fails(a)
    PROVE  Claims'
<1>1. PICK e : Becomes(a, e) /\ ClaimStage(e, held[a], work[CloneOf[a]].locks, a)
  <2>1. CASE Fails(a)
    <3>1. PICK e \in CallRecords : Becomes(a, e) /\ e.op = "failed"
      BY <2>1 DEF Fails
    <3> QED
      BY <3>1, OtherStage
  <2>2. CASE /\ call[a].todo # <<>> /\ Head(call[a].todo) # "look" /\ Head(call[a].todo) # "claim"
             /\ \E e \in CallRecords : GoesOn(a, e)
    <3>1. PICK e \in CallRecords : GoesOn(a, e)
      BY <2>2
    <3>2. ClaimStage(call[a], held[a], work[CloneOf[a]].locks, a)
      BY DEF Claims
    <3>3. ClaimStage(e, held[a], work[CloneOf[a]].locks, a)
      BY <2>2, <3>1, <3>2, OwnStage
    <3> QED
      BY <3>1, <3>3 DEF GoesOn
  <2> QED
    BY <2>1, <2>2
<1>2. work'[CloneOf[a]].locks = work[CloneOf[a]].locks
  BY Limits
<1>3. /\ \A l \in held'[a] : work'[CloneOf[a]].locks[l] = a
      /\ ClaimStage(e, held'[a], work'[CloneOf[a]].locks, a)
  BY <1>1, <1>2 DEF Claims
<1> QED
  BY <1>1, <1>2, <1>3, OthersClaims

\* Steps that keep the lock files of a worktree.
LEMMA NewWorkLocks ==
    ASSUME NEW a \in Agents, NEW t, NewWork(a, t), t.locks = work[CloneOf[a]].locks
    PROVE  \A x \in Clones : work'[x].locks = work[x].locks
  BY DEF NewWork

\* A call that ends leaves what the agent holds.
LEMMA EndClaims ==
    ASSUME Typed, Locking, Claims, NEW a \in Agents, Becomes(a, NoCall), UNCHANGED work,
           \A b \in Agents : b # a => held'[b] = held[b],
           \A l \in held'[a] : work[CloneOf[a]].locks[l] = a
    PROVE  Claims'
<1>1. ClaimStage(NoCall, held'[a], work'[CloneOf[a]].locks, a)
  BY OtherStage DEF NoCall
<1> QED
  BY <1>1, OthersClaims

\* Every step keeps the lock file of what an agent holds.
LEMMA ClaimsStep ==
    ASSUME Typed, Files, Locking, LockFiles, Claims, [BoardNext]_boardVars
    PROVE  LockFiles' /\ Claims'
<1>1. CASE UNCHANGED boardVars
  BY <1>1 DEF boardVars, LockFiles, Claims, ClaimStage
<1>2. CASE BoardTick
  BY <1>2 DEF BoardTick, LockFiles, Claims, ClaimStage
<1>3. ASSUME NEW a \in Agents, Acts(a)
      PROVE  LockFiles' /\ Claims'
  <2> DEFINE c == CloneOf[a]
             l == call[a].arg
  <2>0. /\ c \in Clones /\ a # 0
        /\ call[a] \in CallRecords /\ CallFits(call[a])
        /\ \A k \in held[a] : work[c].locks[k] = a
        /\ ClaimStage(call[a], held[a], work[c].locks, a)
        /\ held[a] \subseteq Lockable
    BY Limits DEF Typed, CallsFit, Claims
  <2>1. ASSUME NEW op \in Calls[a], NEW arg \in Arguments(op), Begin(a, op, arg)
        PROVE  LockFiles' /\ Claims'
    <3>1. /\ UNCHANGED <<hub, work, branch>>
          /\ held' = IF op = "release" THEN [held EXCEPT ![a] = @ \ {arg}] ELSE held
      BY <2>1 DEF Begin
    <3>2. PICK e \in CallRecords : /\ Becomes(a, e) /\ e.op = op /\ e.arg = arg /\ e.todo = Plan[op]
      BY <2>1, BegunCall, BeginFits DEF Typed
    <3>3. e.op = "claim" => ~(Len(e.todo) = 2) /\ ~(Len(e.todo) <= 1)
      <4>1. PICK n : n = Len(e.todo)
        OBVIOUS
      <4>2. e.op = "claim" => n = 4
        BY <3>2, <4>1, PlanLengths
      <4>3. e.op = "claim" => ~(n = 2) /\ ~(n <= 1)
        BY <4>2
      <4> QED
        BY <4>1, <4>3
    <3>4. /\ \A b \in Agents : b # a => held'[b] = held[b]
          /\ held'[a] \subseteq held[a]
          /\ op = "release" => arg \notin held'[a]
      BY <3>1 DEF Typed
    <3>5. ClaimStage(e, held'[a], work'[c].locks, a)
      BY <3>2, <3>3, <3>4 DEF ClaimStage
    <3>6. \A k \in held'[a] : work'[c].locks[k] = a
      BY <2>0, <3>1, <3>4
    <3>7. Claims'
      BY <3>1, <3>2, <3>4, <3>5, <3>6, OthersClaims
    <3> QED
      BY <3>1, <3>7, LockFilesStay
  <2>2. CASE Lock(a)
    <3>1. call[a].todo # <<>> /\ Head(call[a].todo) = "lock"
            /\ UNCHANGED <<hub, work, branch, held>>
      BY <2>2 DEF Lock, At
    <3>2. \E e \in CallRecords : GoesOn(a, e)
      BY <2>2, <3>1, ProceedsMoves DEF Lock, Moves
    <3> QED
      BY <3>1, <3>2, QuietClaims, LockFilesStay
  <2>3. CASE LockTimesOut(a)
    <3>1. UNCHANGED <<hub, work, branch, held>> /\ Fails(a)
      BY <2>3, RaisesFails DEF LockTimesOut
    <3> QED
      BY <3>1, QuietClaims, LockFilesStay
  <2>4. CASE WriteDelta(a)
    <3>1. call[a].todo # <<>> /\ Head(call[a].todo) = "delta" /\ UNCHANGED <<hub, branch, held>>
      BY <2>4 DEF WriteDelta, At
    <3>2. PICK t \in Trees, e \in CallRecords :
            NewWork(a, t) /\ t.locks = work[c].locks /\ GoesOn(a, e)
      BY <2>4, WriteDeltaDoes
    <3> QED
      BY <3>1, <3>2, NewWorkLocks, QuietClaims, LockFilesStay
  <2>5. CASE ReadRows(a)
    <3>1. call[a].todo # <<>> /\ Head(call[a].todo) = "rows"
            /\ UNCHANGED <<hub, work, branch, held>>
      BY <2>5 DEF ReadRows, At
    <3>2. \E e \in CallRecords : GoesOn(a, e)
      BY <2>5, ReadRowsDoes
    <3> QED
      BY <3>1, <3>2, QuietClaims, LockFilesStay
  <2>6. CASE WriteBoard(a)
    <3>1. call[a].todo # <<>> /\ Head(call[a].todo) = "board" /\ UNCHANGED <<hub, branch, held>>
      BY <2>6 DEF WriteBoard, At
    <3>2. PICK t \in Trees : NewWork(a, t) /\ t.locks = work[c].locks /\ Moves(a)
      BY <2>6, WriteBoardDoes
    <3>3. \E e \in CallRecords : GoesOn(a, e)
      BY <3>2 DEF Moves
    <3> QED
      BY <3>1, <3>2, <3>3, NewWorkLocks, QuietClaims, LockFilesStay
  <2>7. CASE WriteGoal(a)
    <3>1. call[a].todo # <<>> /\ Head(call[a].todo) = "goal" /\ UNCHANGED <<hub, branch, held>>
      BY <2>7 DEF WriteGoal, At
    <3>2. PICK t \in Trees : NewWork(a, t) /\ t.locks = work[c].locks /\ Moves(a)
      BY <2>7, WriteGoalDoes
    <3>3. \E e \in CallRecords : GoesOn(a, e)
      BY <3>2 DEF Moves
    <3> QED
      BY <3>1, <3>2, <3>3, NewWorkLocks, QuietClaims, LockFilesStay
  <2>8. CASE LookAtLock(a)
    <3>1. call[a].todo # <<>> /\ Head(call[a].todo) = "look"
            /\ UNCHANGED <<hub, work, branch, held>>
      BY <2>8 DEF LookAtLock, At
    <3>2. call[a].op = "claim" /\ Len(call[a].todo) = 3
      BY <2>0, <3>1, HeadSays DEF CallFits
    <3>3. LockFiles'
      BY <3>1, LockFilesStay
    <3>4. CASE work[c].locks[l] = 0 /\ Moves(a)
      <4>1. PICK e \in CallRecords : GoesOn(a, e)
        BY <3>4 DEF Moves
      <4>2. PICK n : n = Len(e.todo)
        OBVIOUS
      <4>3. n = 2 /\ ~(n <= 1) /\ e.op = "claim" /\ e.arg = l
        BY <3>2, <4>1, <4>2 DEF GoesOn
      <4>4. ClaimStage(e, held'[a], work'[c].locks, a)
        BY <3>1, <3>4, <4>2, <4>3 DEF ClaimStage
      <4>5. Becomes(a, e)
        BY <4>1 DEF GoesOn
      <4> QED
        BY <2>0, <3>1, <3>3, <4>4, <4>5, OthersClaims
    <3>5. ASSUME work[c].locks[l] = a, NEW e \in CallRecords, Becomes(a, e), e.op = call[a].op,
                 e.arg = l, e.todo = <<>>
          PROVE  Claims'
      <4>1. Len(e.todo) # 2
        BY <3>5
      <4>2. ClaimStage(e, held'[a], work'[c].locks, a)
        BY <3>1, <3>2, <3>5, <4>1 DEF ClaimStage
      <4> QED
        BY <2>0, <3>1, <3>5, <4>2, OthersClaims
    <3>6. CASE Fails(a)
      BY <3>1, <3>3, <3>6, QuietClaims
    <3> QED
      BY <2>8, <3>3, <3>4, <3>5, <3>6, LookAtLockDoes
  <2>9. CASE Claim(a)
    <3>1. call[a].todo # <<>> /\ Head(call[a].todo) = "claim" /\ UNCHANGED <<hub, branch, held>>
      BY <2>9 DEF Claim, At
    <3>2. call[a].op = "claim" /\ Len(call[a].todo) = 2 /\ Locked(call[a])
      BY <2>0, <3>1, HeadSays, UnderLock DEF CallFits
    <3>3. work[c].locks[l] = 0
      BY <2>0, <3>2 DEF ClaimStage
    <3>4. SetsLock(a, l, a) /\ l \in Lockable /\ Moves(a)
      BY <2>9, ClaimDoes
    <3>5. LockFiles'
      BY <3>1, <3>3, <3>4, LockFilesSet
    <3>6. PICK t \in Trees : /\ NewWork(a, t) /\ t.locks[l] = a
                             /\ \A k \in Lockable : k # l => t.locks[k] = work[c].locks[k]
      BY <3>4 DEF SetsLock
    <3>7. /\ work'[c] = t
          /\ \A x \in Clones : x # c => work'[x].locks = work[x].locks
      BY <3>6 DEF NewWork
    <3>8. \A b \in Agents, k \in Lockable : work[c].locks[k] = b => t.locks[k] = b
      BY <3>3, <3>6, Limits
    <3>9. PICK e \in CallRecords : GoesOn(a, e)
      BY <3>4 DEF Moves
    <3>10. ClaimStage(e, held'[a], work'[c].locks, a)
      <4>1. PICK n : n = Len(e.todo)
        OBVIOUS
      <4>2. n = 1 /\ n # 2 /\ e.op = "claim" /\ e.arg = l
        BY <3>2, <3>9, <4>1 DEF GoesOn
      <4> QED
        BY <3>6, <3>7, <4>1, <4>2 DEF ClaimStage
    <3>11. \A k \in held'[a] : work'[c].locks[k] = a
      BY <2>0, <3>1, <3>7, <3>8
    <3>12. Becomes(a, e)
      BY <3>9 DEF GoesOn
    <3>13. Claims'
      BY <3>1, <3>2, <3>7, <3>8, <3>10, <3>11, <3>12, OthersClaims
    <3> QED
      BY <3>5, <3>13
  <2>10. CASE ReleaseFile(a)
    <3>1. call[a].todo # <<>> /\ Head(call[a].todo) = "release" /\ UNCHANGED <<hub, branch, held>>
      BY <2>10 DEF ReleaseFile, At
    <3>2. call[a].op = "release" /\ Locked(call[a])
      BY <2>0, <3>1, HeadSays, UnderLock DEF CallFits
    <3>3. l \notin held[a]
      BY <2>0, <3>2 DEF ClaimStage
    <3>4. CASE work' = work /\ Fails(a)
      BY <3>1, <3>4, QuietClaims, LockFilesStay
    <3>5. CASE work[c].locks[l] = a /\ SetsLock(a, l, 0) /\ Moves(a) /\ l \in Lockable
      <4>1. LockFiles'
        BY <3>1, <3>5, LockFilesSet
      <4>2. PICK t \in Trees : /\ NewWork(a, t) /\ t.locks[l] = 0
                               /\ \A k \in Lockable : k # l => t.locks[k] = work[c].locks[k]
        BY <3>5 DEF SetsLock
      <4>3. /\ work'[c] = t
            /\ \A x \in Clones : x # c => work'[x].locks = work[x].locks
        BY <4>2 DEF NewWork
      <4>4. \A b \in Agents, k \in Lockable : b # a /\ work[c].locks[k] = b => t.locks[k] = b
        BY <3>5, <4>2
      <4>5. PICK e \in CallRecords : GoesOn(a, e)
        BY <3>5 DEF Moves
      <4>6. ClaimStage(e, held'[a], work'[c].locks, a)
        BY <3>1, <3>2, <3>3, <4>5 DEF ClaimStage, GoesOn
      <4>7. \A k \in held'[a] : work'[c].locks[k] = a
        BY <2>0, <3>1, <3>3, <4>2, <4>3
      <4>8. Becomes(a, e)
        BY <4>5 DEF GoesOn
      <4>9. Claims'
        BY <3>1, <3>2, <4>3, <4>4, <4>6, <4>7, <4>8, OthersClaims
      <4> QED
        BY <4>1, <4>9
    <3> QED
      BY <2>10, <3>4, <3>5, ReleaseFileDoes
  <2>11. CASE PullTeam(a)
    <3>1. call[a].todo # <<>> /\ Head(call[a].todo) = "pull" /\ UNCHANGED <<hub, held>>
      BY <2>11 DEF PullTeam, At
    <3>2. call[a].op \notin {"claim", "release"} /\ Locked(call[a])
      BY <2>0, <3>1, HeadSays, UnderLock DEF CallFits
    <3>3. CASE (Moves(a) \/ Fails(a)) /\ work' = work /\ branch' = branch
      <4>1. Fails(a) \/ \E e \in CallRecords : GoesOn(a, e)
        BY <3>3 DEF Moves
      <4>2. Claims'
        BY <3>1, <3>3, <4>1, QuietClaims
      <4> QED
        BY <3>1, <3>3, <4>2, LockFilesStay
    <3>4. CASE ~branch[c].ahead /\ ~Contested(c) /\ Moves(a) /\ Forwards(a)
      <4>1. /\ LockFiles'
            /\ \A b \in Agents, k \in Lockable :
                  CloneOf[b] = c /\ work[c].locks[k] = b => work'[c].locks[k] = b
        BY <3>1, <3>4, PullKeepsLocks
      <4>2. \A x \in Clones : x # c => work'[x].locks = work[x].locks
        BY <3>4 DEF Forwards, NewWork
      <4>3. PICK e \in CallRecords : GoesOn(a, e)
        BY <3>4 DEF Moves
      <4>4. ClaimStage(e, held'[a], work'[c].locks, a)
        BY <3>2, <4>3, OtherStage DEF GoesOn
      <4>5. \A k \in held'[a] : work'[c].locks[k] = a
        BY <2>0, <3>1, <4>1
      <4>6. Becomes(a, e)
        BY <4>3 DEF GoesOn
      <4>7. Claims'
        BY <3>1, <3>2, <4>1, <4>2, <4>4, <4>5, <4>6, OthersClaims
      <4> QED
        BY <4>1, <4>7
    <3> QED
      BY <2>11, <3>3, <3>4, PullTeamDoes
  <2>12. CASE CommitTeam(a)
    <3>1. call[a].todo # <<>> /\ Head(call[a].todo) = "commit" /\ UNCHANGED <<hub, work, held>>
      BY <2>12 DEF CommitTeam, At
    <3>2. \E e \in CallRecords : GoesOn(a, e)
      BY <2>12, CommitTeamDoes DEF Moves
    <3> QED
      BY <2>12, <3>1, <3>2, QuietClaims, CommitKeepsLocks
  <2>13. CASE PushTeam(a)
    <3>1. call[a].todo # <<>> /\ Head(call[a].todo) = "push" /\ UNCHANGED <<work, held>>
      BY <2>13 DEF PushTeam, At
    <3>2. Fails(a) \/ \E e \in CallRecords : GoesOn(a, e)
      BY <2>13, PushTeamDoes DEF Moves
    <3> QED
      BY <2>13, <3>1, <3>2, QuietClaims, PushKeepsLocks
  <2>14. CASE Return(a)
    <3>1. /\ call[a].todo = <<>> /\ Becomes(a, NoCall) /\ UNCHANGED <<hub, work, branch>>
          /\ held' = IF call[a].op = "claim" THEN [held EXCEPT ![a] = @ \cup {l}] ELSE held
      BY <2>14, EndDoes DEF Return, Typed
    <3>2. call[a].op = "claim" => work[c].locks[l] = a
      BY <2>0, <3>1 DEF ClaimStage
    <3>3. \A b \in Agents : b # a => held'[b] = held[b]
      BY <3>1 DEF Typed
    <3>4. \A k \in held'[a] : work[c].locks[k] = a
      BY <2>0, <3>1, <3>2 DEF Typed
    <3>5. Claims'
      BY <3>1, <3>3, <3>4, EndClaims
    <3> QED
      BY <3>1, <3>5, LockFilesStay
  <2>15. CASE AgentDies(a)
    <3>1. /\ Becomes(a, NoCall) /\ UNCHANGED <<hub, work, branch>>
          /\ held' = [held EXCEPT ![a] = {}]
      BY <2>15, EndDoes DEF AgentDies, Typed
    <3>2. held'[a] = {} /\ \A b \in Agents : b # a => held'[b] = held[b]
      BY <3>1 DEF Typed
    <3>3. Claims'
      BY <3>1, <3>2, EndClaims
    <3> QED
      BY <3>1, <3>3, LockFilesStay
  <2> QED
    BY <1>3, <2>1, <2>2, <2>3, <2>4, <2>5, <2>6, <2>7, <2>8, <2>9, <2>10, <2>11, <2>12, <2>13,
       <2>14, <2>15 DEF Acts
<1> QED
  BY <1>1, <1>2, <1>3, NextActs

-----------------------------------------------------------------------------
\* Where deltas come from, and how a set_task goes on.

\* Only three steps change the deltas or the board of a worktree.
LEMMA TreesStay ==
    ASSUME Typed, NEW a \in Agents, Acts(a), ~WriteDelta(a), ~WriteBoard(a), ~PullTeam(a)
    PROVE  \A x \in Clones : work'[x].deltas = work[x].deltas /\ work'[x].board = work[x].board
<1>1. CASE UNCHANGED work
  BY <1>1
<1>2. CASE WriteGoal(a) \/ Claim(a) \/ ReleaseFile(a)
  <2>1. \/ UNCHANGED work
        \/ \E t \in Trees : /\ NewWork(a, t) /\ t.deltas = work[CloneOf[a]].deltas
                            /\ t.board = work[CloneOf[a]].board
    BY <1>2, WriteGoalDoes, ClaimDoes, ReleaseFileDoes DEF SetsLock
  <2> QED
    BY <2>1 DEF NewWork
<1>3. UNCHANGED work \/ WriteGoal(a) \/ Claim(a) \/ ReleaseFile(a)
  BY DEF Acts, Begin, Lock, LockTimesOut, ReadRows, LookAtLock, CommitTeam, PushTeam, Return,
         AgentDies
<1> QED
  BY <1>1, <1>2, <1>3

\* A delta comes to a clone by a pull or is written there, and is published by a push.
LEMMA Arrivals ==
    ASSUME Typed, Files, NEW a \in Agents, Acts(a)
    PROVE  /\ \A x \in Clones : \A d \in work'[x].deltas :
                 \/ d \in work[x].deltas
                 \/ PullTeam(a) /\ d \in hub.tree.deltas
                 \/ WriteDelta(a) /\ x = CloneOf[a] /\ d \notin Every
           /\ \A d \in hub'.tree.deltas :
                 \/ d \in hub.tree.deltas
                 \/ PushTeam(a) /\ d \in branch[CloneOf[a]].tree.deltas
<1> DEFINE c == CloneOf[a]
<1>0. c \in Clones
  BY Limits
<1>1. ASSUME NEW x \in Clones, NEW d \in work'[x].deltas
      PROVE  \/ d \in work[x].deltas
             \/ PullTeam(a) /\ d \in hub.tree.deltas
             \/ WriteDelta(a) /\ x = c /\ d \notin Every
  <2>1. CASE WriteDelta(a)
    <3>1. PICK n \in BoardDeltas, t \in Trees :
            /\ NewWork(a, t)
            /\ t.deltas = work[CloneOf[a]].deltas \cup {n} /\ t.board = work[CloneOf[a]].board
            /\ n.kind = "task" => call[a].op = "task"
            /\ \A b \in Clones : n \notin work[b].deltas
      BY <2>1, NewDelta
    <3>2. n \notin Every
      BY <3>1 DEF Every
    <3> QED
      BY <1>1, <2>1, <3>1, <3>2 DEF NewWork
  <2>2. CASE WriteBoard(a)
    <3>1. PICK t \in Trees : NewWork(a, t) /\ t.deltas = work[c].deltas
      BY <2>2, WriteBoardDoes
    <3> QED
      BY <1>1, <3>1 DEF NewWork
  <2>3. CASE PullTeam(a)
    <3>1. CASE UNCHANGED work
      BY <1>1, <3>1
    <3>2. CASE Forwards(a)
      <4>1. PICK t \in Trees, r \in Branches :
              /\ NewWork(a, t) /\ NewBranch(a, r) /\ t = Forwarded(CloneOf[a])
              /\ t.deltas = work[CloneOf[a]].deltas \cup hub.tree.deltas
              /\ t.locks = [l \in Lockable |->
                             IF hub.tree.locks[l] # branch[CloneOf[a]].tree.locks[l]
                             THEN hub.tree.locks[l] ELSE work[CloneOf[a]].locks[l]]
              /\ r.base = hub.version /\ r.ahead = FALSE /\ r.tree = hub.tree
        BY <3>2, ForwardsTo
      <4> QED
        BY <1>1, <2>3, <4>1 DEF NewWork
    <3> QED
      BY <2>3, <3>1, <3>2, PullTeamDoes
  <2>4. CASE ~WriteDelta(a) /\ ~WriteBoard(a) /\ ~PullTeam(a)
    BY <1>1, <2>4, TreesStay
  <2> QED
    BY <2>1, <2>2, <2>3, <2>4
<1>2. ASSUME NEW d \in hub'.tree.deltas
      PROVE  \/ d \in hub.tree.deltas
             \/ PushTeam(a) /\ d \in branch[c].tree.deltas
  <2>1. CASE PushTeam(a)
    BY <1>2, <2>1, PushTeamDoes
  <2>2. CASE ~PushTeam(a)
    BY <1>2, <2>2 DEF Acts, Begin, Lock, LockTimesOut, WriteDelta, ReadRows, WriteBoard, WriteGoal,
         LookAtLock, Claim, ReleaseFile, PullTeam, CommitTeam, Return, AgentDies
  <2> QED
    BY <2>1, <2>2
<1> QED
  BY <1>1, <1>2

\* A step of one agent leaves the calls of the others.
LEMMA OthersCalls ==
    ASSUME Typed, NEW a \in Agents, Acts(a)
    PROVE  \A b \in Agents : b # a => call'[b] = call[b]
  BY DEF Typed, CallsFit, Acts, Begin, Lock, LockTimesOut, WriteDelta, ReadRows, WriteBoard,
         WriteGoal, LookAtLock, Claim, ReleaseFile, PullTeam, CommitTeam, PushTeam, Return,
         AgentDies, Proceeds, Raises, Skips

\* A set_task before its lock.
LEMMA UnlockedTask ==
    ASSUME NEW c \in CallRecords, c.op = "task"
    PROVE  /\ Len(c.todo) \in Nat
           /\ Locked(c) <=> Len(c.todo) < 5
<1>1. Len(c.todo) \in Nat
  BY DEF CallRecords
<1> QED
  BY <1>1, LockAtValues DEF Locked

\* The step of agent a, and how many steps of its set_task are left then.
TaskGoesOn(a, n) ==
    /\ call[a].op = "task" /\ call[a].todo # <<>> /\ Len(call'[a].todo) = n
    /\ Len(call[a].todo) = n + 1 /\ UNCHANGED returned

\* The steps by which a set_task goes on.
LEMMA TaskSteps ==
    ASSUME Typed, Files, NEW a \in Agents, Acts(a), call'[a].op = "task"
    PROVE  \/ /\ Len(call'[a].todo) = 5 /\ call'[a].delta = {}
              /\ UNCHANGED <<hub, work, branch, returned>>
           \/ /\ Lock(a) /\ TaskGoesOn(a, 4)
              /\ call'[a].delta = call[a].delta /\ call'[a].rows = call[a].rows
           \/ WriteDelta(a) /\ TaskGoesOn(a, 3)
           \/ ReadRows(a) /\ TaskGoesOn(a, 2) /\ call'[a].delta = call[a].delta
           \/ /\ WriteBoard(a) /\ TaskGoesOn(a, 1)
              /\ call'[a].delta = call[a].delta /\ call'[a].rows = call[a].rows
           \/ CommitTeam(a) /\ TaskGoesOn(a, 0) /\ call'[a].delta = call[a].delta
<1>c. call[a] \in CallRecords /\ OnPlan(call[a])
  BY DEF Typed, CallsFit, CallFits
<1>n. PICK n \in Nat : n = Len(call[a].todo)
  BY <1>c DEF CallRecords
<1>1. CASE \E op \in Calls[a] : \E arg \in Arguments(op) : Begin(a, op, arg)
  <2>1. PICK op \in Calls[a] : \E arg \in Arguments(op) : Begin(a, op, arg)
    BY <1>1
  <2>2. PICK arg \in Arguments(op) : Begin(a, op, arg)
    BY <2>1
  <2>3. Becomes(a, Fresh(op, Plan[op], arg))
    BY <2>2, BeginFits DEF Typed
  <2>4. PICK e \in CallRecords :
          e = Fresh(op, Plan[op], arg) /\ e.op = op /\ e.todo = Plan[op] /\ e.delta = {}
    BY BegunCall
  <2>5. call'[a] = e
    BY <2>3, <2>4 DEF Becomes
  <2> QED
    BY <2>2, <2>4, <2>5, PlanLengths DEF Begin
<1>2. ASSUME Fails(a) PROVE FALSE
  BY <1>2 DEF Fails, Becomes
<1>3. ASSUME NEW e \in CallRecords, GoesOn(a, e)
      PROVE  /\ call'[a] = e /\ call[a].op = "task" /\ e.op = call[a].op
             /\ Len(e.todo) = n - 1
  BY <1>3, <1>n DEF GoesOn, Becomes
<1>4. CASE LockTimesOut(a)
  BY <1>2, <1>4, RaisesFails DEF LockTimesOut
<1>5. CASE Lock(a)
  <2>1. call[a].todo # <<>> /\ Head(call[a].todo) = "lock" /\ UNCHANGED returned
    BY <1>5 DEF Lock, At
  <2>2. PICK e \in CallRecords : GoesOn(a, e) /\ e.delta = call[a].delta /\ e.rows = call[a].rows
    BY <1>5, <2>1, ProceedsMoves DEF Lock, Moves
  <2>3. n = 5
    BY <1>c, <1>n, <1>3, <2>1, <2>2, HeadSays
  <2> QED
    BY <1>5, <1>n, <1>3, <2>1, <2>2, <2>3 DEF TaskGoesOn
<1>6. CASE WriteDelta(a)
  <2>1. call[a].todo # <<>> /\ Head(call[a].todo) = "delta" /\ UNCHANGED returned
    BY <1>6 DEF WriteDelta, At
  <2>2. PICK e \in CallRecords : GoesOn(a, e)
    BY <1>6, WriteDeltaDoes
  <2>3. n = 4
    BY <1>c, <1>n, <1>3, <2>1, <2>2, HeadSays
  <2> QED
    BY <1>6, <1>n, <1>3, <2>1, <2>2, <2>3 DEF TaskGoesOn
<1>7. CASE ReadRows(a)
  <2>1. call[a].todo # <<>> /\ Head(call[a].todo) = "rows" /\ UNCHANGED returned
    BY <1>7 DEF ReadRows, At
  <2>2. PICK e \in CallRecords : GoesOn(a, e) /\ e.delta = call[a].delta
    BY <1>7, ReadRowsDoes
  <2>3. n = 3
    BY <1>c, <1>n, <2>1, HeadSays
  <2> QED
    BY <1>7, <1>n, <1>3, <2>1, <2>2, <2>3 DEF TaskGoesOn
<1>8. CASE WriteBoard(a)
  <2>1. call[a].todo # <<>> /\ Head(call[a].todo) = "board" /\ UNCHANGED returned
    BY <1>8 DEF WriteBoard, At
  <2>2. PICK e \in CallRecords : GoesOn(a, e) /\ e.delta = call[a].delta /\ e.rows = call[a].rows
    BY <1>8, WriteBoardDoes DEF Moves
  <2>3. n = 2
    BY <1>c, <1>n, <2>1, HeadSays
  <2> QED
    BY <1>8, <1>n, <1>3, <2>1, <2>2, <2>3 DEF TaskGoesOn
<1>9. CASE CommitTeam(a)
  <2>1. call[a].todo # <<>> /\ Head(call[a].todo) = "commit" /\ UNCHANGED returned
    BY <1>9 DEF CommitTeam, At
  <2>2. PICK e \in CallRecords : GoesOn(a, e) /\ e.delta = call[a].delta
    BY <1>9, CommitTeamDoes DEF Moves
  <2>3. n = 1
    BY <1>c, <1>n, <1>3, <2>1, <2>2, HeadSays
  <2> QED
    BY <1>9, <1>n, <1>3, <2>1, <2>2, <2>3 DEF TaskGoesOn
<1>10. ASSUME WriteGoal(a) \/ LookAtLock(a) \/ Claim(a) \/ ReleaseFile(a) \/ PullTeam(a)
                \/ PushTeam(a)
       PROVE  FALSE
  <2>1. /\ call[a].todo # <<>>
        /\ Head(call[a].todo) \in {"goal", "look", "claim", "release", "pull", "push"}
    BY <1>10 DEF WriteGoal, LookAtLock, Claim, ReleaseFile, PullTeam, PushTeam, At
  <2>2. call[a].op # "task"
    BY <1>c, <2>1, HeadSays
  <2>3. \/ Fails(a)
        \/ \E e \in CallRecords : Becomes(a, e) /\ e.op = call[a].op
    BY <1>10, WriteGoalDoes, LookAtLockDoes, ClaimDoes, ReleaseFileDoes, PullTeamDoes, PushTeamDoes
       DEF Moves, GoesOn
  <2> QED
    BY <1>2, <2>2, <2>3 DEF Becomes
<1>11. ASSUME Return(a) \/ AgentDies(a) PROVE FALSE
  <2>1. Becomes(a, NoCall)
    BY <1>11, EndDoes DEF Return, AgentDies, Typed
  <2> QED
    BY <2>1 DEF Becomes, NoCall
<1> QED
  BY <1>1, <1>4, <1>5, <1>6, <1>7, <1>8, <1>9, <1>10, <1>11 DEF Acts

\* What a set_task has written of the state, until it returns.
TaskWrote(c, a, trees, branches, remote) ==
    c.op = "task" =>
       /\ ~(Len(c.todo) < 5) => c.delta = {}
       /\ \A d \in c.delta :
             /\ d.w = a /\ d \in trees[CloneOf[a]].deltas /\ d \notin remote.deltas
             /\ \A x \in Clones : x # CloneOf[a] => d \notin trees[x].deltas
       /\ Len(c.todo) = 0 => c.delta \subseteq branches[CloneOf[a]].tree.deltas

\* A returned delta is in the clone of its writer, and committed wherever it is.
Written ==
    /\ \A d \in returned :
          /\ d.w \in Agents /\ d \in work[CloneOf[d.w]].deltas
          /\ \A x \in Clones : d \in work[x].deltas => d \in branch[x].tree.deltas
    /\ \A a \in Agents : TaskWrote(call[a], a, work, branch, hub.tree)

\* Only a set_task that returns adds to what has returned.
LEMMA ReturnedGrows ==
    ASSUME Typed, NEW a \in Agents, Acts(a)
    PROVE  \/ UNCHANGED returned
           \/ /\ Return(a) /\ call[a].op = "task" /\ call[a].todo = <<>>
              /\ returned' = returned \cup call[a].delta /\ UNCHANGED <<hub, work, branch>>
<1>1. CASE Return(a)
  BY <1>1 DEF Return
<1>2. CASE ~Return(a)
  BY <1>2 DEF Acts, Begin, Lock, LockTimesOut, WriteDelta, ReadRows, WriteBoard, WriteGoal,
         LookAtLock, Claim, ReleaseFile, PullTeam, CommitTeam, PushTeam, AgentDies
<1> QED
  BY <1>1, <1>2

\* Boards are written, and branches moved, under the lock.
LEMMA LockedToPush ==
    ASSUME Typed, NEW a \in Agents, PushTeam(a) \/ PullTeam(a) \/ CommitTeam(a) \/ WriteBoard(a)
    PROVE  Locked(call[a])
<1>1. call[a].todo # <<>> /\ Head(call[a].todo) \in {"push", "pull", "commit", "board"}
  BY DEF PushTeam, PullTeam, CommitTeam, WriteBoard, At
<1> QED
  BY <1>1, UnderLock

\* A pending delta of another agent.
LEMMA OthersWrote ==
    ASSUME Typed, Files, Locking, Synced, Written, NEW a \in Agents, Acts(a),
           NEW b \in Agents, b # a
    PROVE  TaskWrote(call'[b], b, work', branch', hub'.tree)
<1> DEFINE y == CloneOf[b]
<1>1. call'[b] = call[b] /\ y \in Clones /\ call[b] \in CallRecords
  BY OthersCalls, Limits DEF Typed, CallsFit
<1>2. SUFFICES ASSUME call[b].op = "task"
               PROVE  TaskWrote(call[b], b, work', branch', hub'.tree)
  BY <1>1 DEF TaskWrote
<1>3. TaskWrote(call[b], b, work, branch, hub.tree)
  BY DEF Written
<1>g. Grows
  BY SyncedStep DEF BoardNext, Acts
<1>4. ASSUME NEW d \in call[b].delta
      PROVE  d \notin hub'.tree.deltas
  <2>1. d \notin hub.tree.deltas /\ \A x \in Clones : x # y => d \notin work[x].deltas
    BY <1>2, <1>3, <1>4 DEF TaskWrote
  <2>2. Locked(call[b])
    BY <1>1, <1>2, <1>3, <1>4, UnlockedTask DEF TaskWrote
  <2>3. ASSUME PushTeam(a), d \in branch[CloneOf[a]].tree.deltas PROVE FALSE
    <3>1. Locked(call[a])
      BY <2>3, LockedToPush
    <3>2. CloneOf[a] # y /\ CloneOf[a] \in Clones
      BY <2>2, <3>1, OneLocked, Limits
    <3>3. d \in work[CloneOf[a]].deltas
      BY <2>3, <3>2 DEF Files
    <3> QED
      BY <2>1, <3>2, <3>3
  <2> QED
    BY <2>1, <2>3, Arrivals
<1>5. ASSUME NEW d \in call[b].delta, NEW x \in Clones, x # y
      PROVE  d \notin work'[x].deltas
  <2>1. d \notin hub.tree.deltas /\ d \notin work[x].deltas /\ d \in work[y].deltas
    BY <1>2, <1>3, <1>5 DEF TaskWrote
  <2>2. d \in Every
    BY <1>1, <2>1 DEF Every
  <2> QED
    BY <2>1, <2>2, Arrivals
<1>6. /\ work[y].deltas \subseteq work'[y].deltas
      /\ branch[y].tree.deltas \subseteq branch'[y].tree.deltas
  BY <1>1, <1>g DEF Grows
<1> QED
  BY <1>2, <1>3, <1>4, <1>5, <1>6 DEF TaskWrote

\* The pending delta of the agent itself.
LEMMA OwnWrote ==
    ASSUME Typed, Files, Synced, Written, NEW a \in Agents, Acts(a)
    PROVE  TaskWrote(call'[a], a, work', branch', hub'.tree)
<1> DEFINE c == CloneOf[a]
<1>0. c \in Clones
  BY Limits
<1>1. SUFFICES ASSUME call'[a].op = "task"
               PROVE  TaskWrote(call'[a], a, work', branch', hub'.tree)
  BY DEF TaskWrote
<1>2. TaskWrote(call[a], a, work, branch, hub.tree)
  BY DEF Written
<1>3. CASE Len(call'[a].todo) = 5 /\ call'[a].delta = {}
  BY <1>3 DEF TaskWrote
<1>4. CASE Lock(a) /\ TaskGoesOn(a, 4) /\ call'[a].delta = call[a].delta
  <2>1. call[a].op = "task" /\ Len(call'[a].todo) = 4 /\ Len(call[a].todo) = 5
        /\ UNCHANGED <<hub, work, branch>>
    BY <1>4 DEF TaskGoesOn, Lock
  <2>2. call[a].delta = {}
    BY <1>2, <2>1 DEF TaskWrote
  <2> QED
    BY <1>4, <2>1, <2>2 DEF TaskWrote
<1>5. CASE WriteDelta(a) /\ TaskGoesOn(a, 3)
  <2>1. PICK d \in BoardDeltas, t \in Trees, e \in CallRecords :
          /\ NewWork(a, t) /\ t.deltas = work[c].deltas \cup {d}
          /\ d.kind = "task" => call[a].op = "task" /\ d.w = a
          /\ call[a].op = "task" => d \in TaskDeltas
          /\ \A b \in Clones : \A f \in work[b].deltas : <<f.w, f.at, f.n>> # <<d.w, d.at, d.n>>
          /\ GoesOn(a, e) /\ e.delta = {d}
    BY <1>5, WriteDeltaDoes
  <2>2. call[a].op = "task" /\ Len(call'[a].todo) = 3 /\ UNCHANGED hub
    BY <1>5 DEF TaskGoesOn, WriteDelta
  <2>3. d.w = a /\ d \notin Every /\ d \in work'[c].deltas
    BY <2>1, <2>2 DEF TaskDeltas, Every, NewWork
  <2>4. d \notin hub'.tree.deltas
    BY <2>2, <2>3 DEF Files
  <2>5. \A x \in Clones : x # c => d \notin work'[x].deltas
    BY <2>1, <2>3 DEF NewWork, Every
  <2>6. call'[a].delta = {d}
    BY <2>1 DEF GoesOn, Becomes
  <2> QED
    BY <2>2, <2>3, <2>4, <2>5, <2>6 DEF TaskWrote
<1>6. CASE /\ \/ ReadRows(a) /\ TaskGoesOn(a, 2)
              \/ WriteBoard(a) /\ TaskGoesOn(a, 1)
              \/ CommitTeam(a) /\ TaskGoesOn(a, 0)
           /\ call'[a].delta = call[a].delta
  <2>1. call[a].op = "task" /\ Len(call'[a].todo) \in {0, 1, 2} /\ UNCHANGED hub
    BY <1>6 DEF TaskGoesOn, ReadRows, WriteBoard, CommitTeam
  <2>2. \A x \in Clones : work'[x].deltas = work[x].deltas
    <3>1. CASE ~WriteBoard(a)
      <4>1. UNCHANGED work
        BY <1>6, <3>1 DEF ReadRows, CommitTeam
      <4> QED
        BY <4>1
    <3>2. CASE WriteBoard(a)
      <4>1. PICK t \in Trees : NewWork(a, t) /\ t.deltas = work[c].deltas
        BY <3>2, WriteBoardDoes
      <4> QED
        BY <4>1 DEF NewWork
    <3> QED
      BY <3>1, <3>2
  <2>3. Len(call'[a].todo) = 0 => call[a].delta \subseteq branch'[c].tree.deltas
    <3>1. SUFFICES ASSUME CommitTeam(a) PROVE call[a].delta \subseteq branch'[c].tree.deltas
      BY <1>6 DEF TaskGoesOn
    <3>2. branch'[c].tree = work[c]
      BY <3>1, CommitTeamDoes DEF NewBranch
    <3> QED
      BY <1>2, <2>1, <3>2 DEF TaskWrote
  <2>4. Len(call'[a].todo) < 5
    <3>1. PICK n : n = Len(call'[a].todo)
      OBVIOUS
    <3>2. n \in {0, 1, 2}
      BY <2>1, <3>1
    <3>3. n < 5
      BY <3>2
    <3> QED
      BY <3>1, <3>3
  <2>5. ASSUME NEW d \in call'[a].delta
        PROVE  /\ d.w = a /\ d \in work'[c].deltas /\ d \notin hub'.tree.deltas
               /\ \A x \in Clones : x # c => d \notin work'[x].deltas
    <3>1. /\ d.w = a /\ d \in work[c].deltas /\ d \notin hub.tree.deltas
          /\ \A x \in Clones : x # c => d \notin work[x].deltas
      BY <1>2, <1>6, <2>1, <2>5 DEF TaskWrote
    <3> QED
      BY <1>0, <2>1, <2>2, <3>1
  <2> QED
    BY <1>6, <2>3, <2>4, <2>5 DEF TaskWrote
<1> QED
  BY <1>1, <1>3, <1>4, <1>5, <1>6, TaskSteps

\* A returned delta stays committed where it is.
LEMMA StaysCommitted ==
    ASSUME Typed, Files, Synced, Written, NEW a \in Agents, Acts(a),
           NEW d \in returned, NEW x \in Clones, d \in work'[x].deltas
    PROVE  d \in branch'[x].tree.deltas
<1>1. d \in Every
  BY Limits DEF Written, Every
<1>g. branch[x].tree.deltas \subseteq branch'[x].tree.deltas
  BY SyncedStep DEF BoardNext, Acts, Grows
<1>2. CASE d \in work[x].deltas
  BY <1>2, <1>g DEF Written
<1>3. CASE d \notin work[x].deltas
  <2>1. PullTeam(a) /\ d \in hub.tree.deltas
    BY <1>1, <1>3, Arrivals
  <2>2. work'[x] # work[x]
    BY <1>3
  <2>3. Forwards(a)
    <3>1. work' # work
      BY <2>2
    <3> QED
      BY <2>1, <3>1, PullTeamDoes
  <2>4. PICK t \in Trees, r \in Branches : NewWork(a, t) /\ NewBranch(a, r) /\ r.tree = hub.tree
    BY <2>3 DEF Forwards
  <2>5. x = CloneOf[a]
    BY <2>2, <2>4 DEF NewWork
  <2> QED
    BY <2>1, <2>4, <2>5 DEF NewBranch
<1> QED
  BY <1>2, <1>3

\* Every step keeps what has returned where it was written and committed.
LEMMA WrittenStep ==
    ASSUME Typed, Files, Locking, Synced, Written, [BoardNext]_boardVars
    PROVE  Written'
<1>1. CASE UNCHANGED boardVars
  BY <1>1 DEF boardVars, Written, TaskWrote
<1>2. CASE BoardTick
  BY <1>2 DEF BoardTick, Written, TaskWrote
<1>3. ASSUME NEW a \in Agents, Acts(a)
      PROVE  Written'
  <2> DEFINE c == CloneOf[a]
  <2>g. Grows /\ c \in Clones
    BY SyncedStep, Limits
  <2>1. \A b \in Agents : TaskWrote(call'[b], b, work', branch', hub'.tree)
    BY <1>3, OthersWrote, OwnWrote
  <2>2. ASSUME NEW d \in returned
        PROVE  /\ d.w \in Agents /\ d \in work'[CloneOf[d.w]].deltas
               /\ \A x \in Clones : d \in work'[x].deltas => d \in branch'[x].tree.deltas
    <3>1. d.w \in Agents /\ CloneOf[d.w] \in Clones /\ d \in work[CloneOf[d.w]].deltas
      BY <2>2, Limits DEF Written
    <3> QED
      BY <1>3, <2>g, <3>1, StaysCommitted DEF Grows
  <2>3. ASSUME NEW d \in call[a].delta, call[a].op = "task", call[a].todo = <<>>,
               UNCHANGED <<hub, work, branch>>
        PROVE  /\ d.w \in Agents /\ d \in work'[CloneOf[d.w]].deltas
               /\ \A x \in Clones : d \in work'[x].deltas => d \in branch'[x].tree.deltas
    <3>1. TaskWrote(call[a], a, work, branch, hub.tree) /\ Len(call[a].todo) = 0
      BY <2>3 DEF Written
    <3> QED
      BY <2>3, <3>1 DEF TaskWrote
  <2>4. \/ UNCHANGED returned
        \/ /\ call[a].op = "task" /\ call[a].todo = <<>>
           /\ returned' = returned \cup call[a].delta /\ UNCHANGED <<hub, work, branch>>
    BY <1>3, ReturnedGrows
  <2> QED
    BY <2>1, <2>2, <2>3, <2>4 DEF Written
<1> QED
  BY <1>1, <1>2, <1>3, NextActs

-----------------------------------------------------------------------------
\* What becomes of the trees in a step.

\* The deltas or the board of a worktree change by a new delta, a new board or a pull.
LEMMA WorkMoves ==
    ASSUME Typed, NEW a \in Agents, Acts(a), NEW x \in Clones
    PROVE  \/ work'[x].deltas = work[x].deltas /\ work'[x].board = work[x].board
           \/ /\ x = CloneOf[a] /\ WriteDelta(a) /\ work'[x].board = work[x].board
              /\ \E d \in BoardDeltas :
                    /\ work'[x].deltas = work[x].deltas \cup {d}
                    /\ d.kind = "task" => call[a].op = "task"
                    /\ \A b \in Clones : d \notin work[b].deltas
           \/ /\ x = CloneOf[a] /\ WriteBoard(a)
              /\ work'[x].deltas = work[x].deltas /\ work'[x].board = call[a].rows
              /\ call[a].op = "task" /\ Len(call[a].todo) = 2
           \/ /\ x = CloneOf[a] /\ PullTeam(a) /\ Forwards(a)
              /\ ~branch[x].ahead /\ ~Contested(x)
              /\ work'[x] = Forwarded(x) /\ branch'[x].tree = hub.tree
<1>1. CASE WriteDelta(a)
  <2>1. PICK d \in BoardDeltas, t \in Trees :
          /\ NewWork(a, t)
          /\ t.deltas = work[CloneOf[a]].deltas \cup {d} /\ t.board = work[CloneOf[a]].board
          /\ d.kind = "task" => call[a].op = "task"
          /\ \A b \in Clones : d \notin work[b].deltas
    BY <1>1, NewDelta
  <2> QED
    BY <1>1, <2>1 DEF NewWork
<1>2. CASE WriteBoard(a)
  <2>1. PICK t \in Trees :
          NewWork(a, t) /\ t.deltas = work[CloneOf[a]].deltas /\ t.board = call[a].rows
    BY <1>2, WriteBoardDoes
  <2>2. /\ call[a] \in CallRecords /\ OnPlan(call[a])
        /\ call[a].todo # <<>> /\ Head(call[a].todo) = "board"
    BY <1>2 DEF Typed, CallsFit, CallFits, WriteBoard, At
  <2>3. call[a].op = "task" /\ Len(call[a].todo) = 2
    BY <2>2, HeadSays
  <2> QED
    BY <1>2, <2>1, <2>3 DEF NewWork
<1>3. CASE PullTeam(a)
  <2>1. CASE UNCHANGED work
    BY <2>1
  <2>2. CASE ~branch[CloneOf[a]].ahead /\ ~Contested(CloneOf[a]) /\ Forwards(a)
    <3>1. PICK t \in Trees, r \in Branches :
            NewWork(a, t) /\ NewBranch(a, r) /\ t = Forwarded(CloneOf[a]) /\ r.tree = hub.tree
      BY <2>2 DEF Forwards
    <3> QED
      BY <1>3, <2>2, <3>1 DEF NewWork, NewBranch
  <2> QED
    BY <1>3, <2>1, <2>2, PullTeamDoes
<1> QED
  BY <1>1, <1>2, <1>3, TreesStay

\* The tree of a branch changes by a commit or a pull.
LEMMA BranchMoves ==
    ASSUME Typed, NEW a \in Agents, Acts(a), NEW x \in Clones
    PROVE  \/ branch'[x].tree = branch[x].tree
           \/ x = CloneOf[a] /\ CommitTeam(a) /\ UNCHANGED work /\ branch'[x].tree = work[x]
           \/ x = CloneOf[a] /\ PullTeam(a) /\ branch'[x].tree = hub.tree
<1>1. CASE PullTeam(a)
  <2>1. CASE UNCHANGED branch
    BY <2>1
  <2>2. CASE Forwards(a)
    <3>1. PICK r \in Branches : NewBranch(a, r) /\ r.tree = hub.tree
      BY <2>2 DEF Forwards
    <3> QED
      BY <1>1, <3>1 DEF NewBranch
  <2> QED
    BY <1>1, <2>1, <2>2, PullTeamDoes
<1>2. CASE CommitTeam(a)
  <2>1. PICK r \in Branches : NewBranch(a, r) /\ r.tree = work[CloneOf[a]]
    BY <1>2, CommitTeamDoes
  <2>2. UNCHANGED work
    BY <1>2 DEF CommitTeam
  <2> QED
    BY <1>2, <2>1, <2>2 DEF NewBranch
<1>3. CASE PushTeam(a)
  <2>1. \/ UNCHANGED branch
        \/ \E r \in Branches : NewBranch(a, r) /\ r.tree = branch[CloneOf[a]].tree
    BY <1>3, PushTeamDoes
  <2> QED
    BY <2>1 DEF NewBranch
<1> QED
  BY <1>1, <1>2, <1>3, OnlySyncs

\* The remote tree changes by a push.
LEMMA RemoteMoves ==
    ASSUME Typed, NEW a \in Agents, Acts(a)
    PROVE  \/ hub'.tree = hub.tree
           \/ PushTeam(a) /\ hub'.tree = branch[CloneOf[a]].tree
<1>1. CASE PushTeam(a)
  BY <1>1, PushTeamDoes
<1>2. CASE ~PushTeam(a)
  BY <1>2 DEF Acts, Begin, Lock, LockTimesOut, WriteDelta, ReadRows, WriteBoard, WriteGoal,
         LookAtLock, Claim, ReleaseFile, PullTeam, CommitTeam, Return, AgentDies
<1> QED
  BY <1>1, <1>2

\* Boards show deltas that are there.
RowsIn(rows, files) == \A i \in DOMAIN rows : rows[i] \in files /\ rows[i].id = i

Rows ==
    /\ RowsIn(hub.tree.board, hub.tree.deltas)
    /\ \A x \in Clones : /\ RowsIn(work[x].board, work[x].deltas)
                         /\ RowsIn(branch[x].tree.board, branch[x].tree.deltas)
    /\ \A a \in Agents : call[a].op = "task" /\ Len(call[a].todo) = 2
                            => RowsIn(call[a].rows, work[CloneOf[a]].deltas)

\* A set_task that has just read the rows.
LEMMA OwnRows ==
    ASSUME Typed, Files, NEW a \in Agents, Acts(a), call'[a].op = "task", Len(call'[a].todo) = 2
    PROVE  /\ RowsIn(call'[a].rows, work'[CloneOf[a]].deltas) /\ UNCHANGED work
           /\ Fits(work[CloneOf[a]].deltas) =>
                 \A d \in work[CloneOf[a]].deltas : d.kind = "task" => Covered(call'[a].rows, d)
<1>n. PICK n : n = Len(call'[a].todo)
  OBVIOUS
<1>1. ReadRows(a)
  <2>1. n = 2 /\ n # 5 /\ n # 4 /\ n # 3 /\ n # 1 /\ n # 0
    BY <1>n
  <2> QED
    BY <1>n, <2>1, TaskSteps DEF TaskGoesOn
<1>2. PICK r \in PartialRows, e \in CallRecords :
        /\ \A i \in DOMAIN r : r[i] \in work[CloneOf[a]].deltas /\ r[i].id = i
        /\ Fits(work[CloneOf[a]].deltas) =>
              \A d \in work[CloneOf[a]].deltas : d.kind = "task" => Covered(r, d)
        /\ GoesOn(a, e) /\ e.rows = r
  BY <1>1, ReadRowsDoes
<1>3. call'[a].rows = r
  BY <1>2 DEF GoesOn, Becomes
<1>4. UNCHANGED work
  BY <1>1 DEF ReadRows
<1> QED
  BY <1>2, <1>3, <1>4 DEF RowsIn

\* Every step keeps boards within the deltas of their tree.
LEMMA RowsStep ==
    ASSUME Typed, Files, Synced, Rows, [BoardNext]_boardVars
    PROVE  Rows'
<1>1. CASE UNCHANGED boardVars
  BY <1>1 DEF boardVars, Rows
<1>2. CASE BoardTick
  BY <1>2 DEF BoardTick, Rows
<1>3. ASSUME NEW a \in Agents, Acts(a)
      PROVE  Rows'
  <2>g. Grows
    BY SyncedStep
  <2>1. RowsIn(hub'.tree.board, hub'.tree.deltas)
    BY <1>3, RemoteMoves, Limits DEF Rows
  <2>2. ASSUME NEW x \in Clones
        PROVE  RowsIn(work'[x].board, work'[x].deltas)
    <3>1. CASE work'[x].deltas = work[x].deltas /\ work'[x].board = work[x].board
      BY <3>1 DEF Rows
    <3>2. CASE work[x].deltas \subseteq work'[x].deltas /\ work'[x].board = work[x].board
      BY <3>2 DEF Rows, RowsIn
    <3>3. CASE /\ x = CloneOf[a] /\ call[a].op = "task" /\ Len(call[a].todo) = 2
               /\ work'[x].deltas = work[x].deltas /\ work'[x].board = call[a].rows
      BY <3>3 DEF Rows
    <3>4. CASE work'[x] = Forwarded(x)
      <4>1. /\ work'[x].deltas = work[x].deltas \cup hub.tree.deltas
            /\ work'[x].board \in {work[x].board, hub.tree.board}
        BY <3>4 DEF Forwarded
      <4> QED
        BY <4>1 DEF Rows, RowsIn
    <3> QED
      BY <1>3, <3>1, <3>2, <3>3, <3>4, WorkMoves
  <2>3. ASSUME NEW x \in Clones
        PROVE  RowsIn(branch'[x].tree.board, branch'[x].tree.deltas)
    BY <1>3, BranchMoves DEF Rows
  <2>4. ASSUME NEW b \in Agents, call'[b].op = "task", Len(call'[b].todo) = 2
        PROVE  RowsIn(call'[b].rows, work'[CloneOf[b]].deltas)
    <3>1. CASE b = a
      BY <1>3, <2>4, <3>1, OwnRows
    <3>2. CASE b # a
      <4>1. call'[b] = call[b] /\ CloneOf[b] \in Clones
        BY <1>3, <3>2, OthersCalls, Limits
      <4> QED
        BY <2>4, <2>g, <4>1 DEF Rows, RowsIn, Grows
    <3> QED
      BY <3>1, <3>2
  <2> QED
    BY <2>1, <2>2, <2>3, <2>4 DEF Rows
<1> QED
  BY <1>1, <1>2, <1>3, NextActs

-----------------------------------------------------------------------------
\* What the boards show.

\* Where the files fit, their rows show some deltas of them.
Shows(rows, files, some) ==
    Fits(files) => \A d \in some : d \in files => Covered(rows, d)

ShowsTasks(rows, files) ==
    Fits(files) => \A d \in files : d.kind = "task" => Covered(rows, d)

\* A board shows nothing older than another.
Newer(mine, old) ==
    Fits(mine.deltas) => \A i \in DOMAIN old.board : /\ i \in DOMAIN mine.board
                                                     /\ ~Earlier(mine.board[i], old.board[i])

\* A set_task that has read the rows: what the rows, the board and the branch show.
TaskShown(c, mine, ours) ==
    c.op = "task" =>
       /\ Len(c.todo) = 2 => ShowsTasks(c.rows, mine.deltas)
       /\ Len(c.todo) <= 1 => ShowsTasks(mine.board, mine.deltas)
       /\ Len(c.todo) = 0 => ShowsTasks(ours.board, ours.deltas)

Showing ==
    /\ Shows(hub.tree.board, hub.tree.deltas, returned)
    /\ \A x \in Clones : /\ Shows(work[x].board, work[x].deltas, returned)
                         /\ Shows(branch[x].tree.board, branch[x].tree.deltas, returned)
                         /\ Newer(work[x], branch[x].tree)
    /\ \A a \in Agents : TaskShown(call[a], work[CloneOf[a]], branch[CloneOf[a]].tree)

\* A row is a task.
LEMMA RowTypes ==
    ASSUME NEW rows \in PartialRows, NEW i \in DOMAIN rows
    PROVE  rows[i] \in TaskDeltas /\ rows[i] \in BoardDeltas
  BY DEF PartialRows, TaskDeltas

\* A board that shows nothing older covers what the older one covers.
LEMMA StillCovered ==
    ASSUME NEW old \in PartialRows, NEW rows \in PartialRows, NEW d \in BoardDeltas,
           Covered(old, d), d.id \in DOMAIN rows, ~Earlier(rows[d.id], old[d.id])
    PROVE  Covered(rows, d)
<1>1. old[d.id] \in BoardDeltas /\ rows[d.id] \in BoardDeltas
  BY RowTypes DEF Covered
<1> QED
  BY <1>1, EarlierOrder DEF Covered

\* A board is no older than itself.
LEMMA NewerItself ==
    ASSUME NEW T \in Trees
    PROVE  Newer(T, T)
<1>1. T.board \in PartialRows
  BY DEF Trees
<1> QED
  BY <1>1, RowTypes, EarlierOrder DEF Newer

\* The trees and the calls have their types.
LEMMA TreeTypes ==
    ASSUME Typed
    PROVE  /\ hub.tree \in Trees
           /\ \A x \in Clones : work[x] \in Trees /\ branch[x].tree \in Trees
           /\ \A a \in Agents : CloneOf[a] \in Clones /\ call[a] \in CallRecords
  BY Limits DEF Typed, Branches, CallsFit

\* A delta of another kind does not change what the tasks show.
LEMMA OtherKind ==
    ASSUME NEW files, NEW more, IsFiniteSet(more), more \subseteq BoardDeltas, files \subseteq more,
           \A d \in more : d.kind = "task" => d \in files,
           NEW rows, ShowsTasks(rows, files)
    PROVE  ShowsTasks(rows, more)
<1>1. Fits(more) => Fits(files)
  BY FewerFit
<1> QED
  BY <1>1 DEF ShowsTasks

\* Calls that are not past the lock, and those that have not read the rows.
LEMMA NotYetShown ==
    ASSUME NEW c \in CallRecords, NEW mine, NEW ours,
           c.op = "task" => ~(Len(c.todo) <= 2)
    PROVE  TaskShown(c, mine, ours)
<1>1. PICK n \in Nat : n = Len(c.todo)
  BY DEF CallRecords
<1>2. c.op = "task" => ~(n <= 2)
  BY <1>1
<1>3. c.op = "task" => ~(n = 2) /\ ~(n <= 1) /\ ~(n = 0)
  BY <1>2
<1> QED
  BY <1>1, <1>3 DEF TaskShown

\* A step of one agent keeps what the others' set_task calls have read and written.
LEMMA OthersShown ==
    ASSUME Typed, Files, Typed', Files', Locking, Showing, NEW a \in Agents, Acts(a),
           NEW b \in Agents, b # a
    PROVE  TaskShown(call'[b], work'[CloneOf[b]], branch'[CloneOf[b]].tree)
<1> DEFINE y == CloneOf[b]
<1>1. call'[b] = call[b] /\ y \in Clones /\ call[b] \in CallRecords
  BY OthersCalls, TreeTypes
<1>2. TaskShown(call[b], work[y], branch[y].tree)
  BY DEF Showing
<1>3. CASE ~Locked(call[b])
  <2>1. PICK n \in Nat : n = Len(call[b].todo)
    BY <1>1 DEF CallRecords
  <2>2. call[b].op = "task" => ~(n < 5)
    BY <1>1, <1>3, <2>1, UnlockedTask
  <2>3. call[b].op = "task" => ~(n <= 2)
    BY <2>2
  <2> QED
    BY <1>1, <2>1, <2>3, NotYetShown
<1>4. CASE Locked(call[b])
  <2>1. y = CloneOf[a] => ~Locked(call[a])
    BY <1>4, OneLocked
  <2>2. branch'[y].tree = branch[y].tree
    BY <1>1, <2>1, BranchMoves, LockedToPush
  <2>3. CASE work'[y].deltas = work[y].deltas /\ work'[y].board = work[y].board
    BY <1>1, <1>2, <2>2, <2>3 DEF TaskShown
  <2>4. CASE y = CloneOf[a] /\ WriteDelta(a)
    <3>1. PICK d \in BoardDeltas :
            /\ work'[y].deltas = work[y].deltas \cup {d} /\ work'[y].board = work[y].board
            /\ d.kind = "task" => call[a].op = "task"
      <4>1. PICK d \in BoardDeltas, t \in Trees :
              /\ NewWork(a, t)
              /\ t.deltas = work[CloneOf[a]].deltas \cup {d} /\ t.board = work[CloneOf[a]].board
              /\ d.kind = "task" => call[a].op = "task"
              /\ \A z \in Clones : d \notin work[z].deltas
        BY <2>4, NewDelta
      <4> QED
        BY <2>4, <4>1 DEF NewWork
    <3>2. d.kind # "task"
      <4>1. call[a].todo # <<>> /\ Head(call[a].todo) = "delta"
        BY <2>4 DEF WriteDelta, At
      <4>2. call[a].op = "task" => Locked(call[a])
        BY <4>1, UnderLock
      <4> QED
        BY <2>1, <2>4, <3>1, <4>2
    <3>3. IsFiniteSet(work'[y].deltas) /\ work'[y].deltas \subseteq BoardDeltas
      <4>1. IsFiniteSet(work'[y].deltas)
        BY <1>1 DEF Files
      <4>2. work[y].deltas \subseteq BoardDeltas
        BY <1>1, TreeTypes DEF Trees
      <4> QED
        BY <3>1, <4>1, <4>2
    <3>4. \A rows : ShowsTasks(rows, work[y].deltas) => ShowsTasks(rows, work'[y].deltas)
      <4>1. /\ work[y].deltas \subseteq work'[y].deltas
            /\ \A f \in work'[y].deltas : f.kind = "task" => f \in work[y].deltas
        BY <3>1, <3>2
      <4> QED
        BY <3>3, <4>1, OtherKind
    <3> QED
      BY <1>1, <1>2, <2>2, <3>1, <3>4 DEF TaskShown
  <2> QED
    BY <1>1, <2>1, <2>3, <2>4, WorkMoves, LockedToPush
<1> QED
  BY <1>3, <1>4

\* A set_task that has read the rows writes and commits them.
LEMMA OwnShown ==
    ASSUME Typed, Files, Typed', Showing, NEW a \in Agents, Acts(a)
    PROVE  TaskShown(call'[a], work'[CloneOf[a]], branch'[CloneOf[a]].tree)
<1> DEFINE c == CloneOf[a]
<1>0. c \in Clones /\ call'[a] \in CallRecords
  BY Limits DEF Typed, CallsFit
<1>1. TaskShown(call[a], work[c], branch[c].tree)
  BY DEF Showing
<1>n. PICK n \in Nat : n = Len(call'[a].todo)
  BY <1>0 DEF CallRecords
<1>2. CASE call'[a].op # "task" \/ n > 2
  <2>1. call'[a].op = "task" => ~(n <= 2)
    BY <1>2
  <2> QED
    BY <1>0, <1>n, <2>1, NotYetShown
<1>3. CASE call'[a].op = "task" /\ n = 2
  <2>1. /\ UNCHANGED work
        /\ Fits(work[c].deltas) =>
              \A d \in work[c].deltas : d.kind = "task" => Covered(call'[a].rows, d)
    BY <1>3, <1>n, OwnRows
  <2>2. ShowsTasks(call'[a].rows, work'[c].deltas)
    BY <2>1 DEF ShowsTasks
  <2>3. ~(n <= 1) /\ ~(n = 0)
    BY <1>3
  <2> QED
    BY <1>n, <2>2, <2>3 DEF TaskShown
<1>4. CASE call'[a].op = "task" /\ n = 1
  <2>1. WriteBoard(a) /\ call[a].op = "task" /\ Len(call[a].todo) = 2
    <3>1. n # 5 /\ n # 4 /\ n # 3 /\ n # 2 /\ n # 0 /\ 1 + 1 = 2
      BY <1>4
    <3> QED
      BY <1>4, <1>n, <3>1, TaskSteps DEF TaskGoesOn
  <2>2. ShowsTasks(call[a].rows, work[c].deltas)
    BY <1>1, <2>1 DEF TaskShown
  <2>3. PICK t \in Trees : NewWork(a, t) /\ t.deltas = work[c].deltas /\ t.board = call[a].rows
    BY <2>1, WriteBoardDoes
  <2>4. work'[c].deltas = work[c].deltas /\ work'[c].board = call[a].rows
    BY <2>3 DEF NewWork
  <2>5. ~(n = 2) /\ ~(n = 0)
    BY <1>4
  <2> QED
    BY <1>n, <2>2, <2>4, <2>5 DEF TaskShown
<1>5. CASE call'[a].op = "task" /\ n = 0
  <2>1. CommitTeam(a) /\ call[a].op = "task" /\ Len(call[a].todo) = 1
    <3>1. n # 5 /\ n # 4 /\ n # 3 /\ n # 2 /\ n # 1 /\ 0 + 1 = 1
      BY <1>5
    <3> QED
      BY <1>5, <1>n, <3>1, TaskSteps DEF TaskGoesOn
  <2>2. ShowsTasks(work[c].board, work[c].deltas)
    BY <1>1, <2>1 DEF TaskShown
  <2>3. PICK r \in Branches : NewBranch(a, r) /\ r.tree = work[c]
    BY <2>1, CommitTeamDoes
  <2>4. branch'[c].tree = work[c] /\ work'[c] = work[c]
    BY <2>1, <2>3 DEF NewBranch, CommitTeam
  <2>5. ~(n = 2)
    BY <1>5
  <2> QED
    BY <1>n, <2>2, <2>4, <2>5 DEF TaskShown
<1>6. n > 2 \/ n = 2 \/ n = 1 \/ n = 0
  OBVIOUS
<1> QED
  BY <1>2, <1>3, <1>4, <1>5, <1>6

\* A pull that forwards the branch takes the remote board, or keeps its own where
\* the remote branch has not changed the board.
LEMMA PullShows ==
    ASSUME Typed, Files, Typed', Files', Synced, Written, Showing, NEW x \in Clones,
           ~branch[x].ahead, work'[x] = Forwarded(x), branch'[x].tree = hub.tree
    PROVE  Shows(work'[x].board, work'[x].deltas, returned) /\ Newer(work'[x], branch'[x].tree)
<1> DEFINE mine == work[x]
           old  == branch[x].tree
           new  == hub.tree
<1>1. work'[x].deltas = mine.deltas \cup new.deltas
      /\ work'[x].board = IF new.board # old.board THEN new.board ELSE mine.board
  BY DEF Forwarded
<1>2. /\ mine.board \in PartialRows /\ old.board \in PartialRows /\ new.board \in PartialRows
      /\ returned \subseteq BoardDeltas
  BY TreeTypes DEF Trees, Typed, TaskDeltas
<1>3. Fits(work'[x].deltas) => Fits(mine.deltas) /\ Fits(new.deltas)
  <2>1. IsFiniteSet(work'[x].deltas) /\ work'[x].deltas \subseteq BoardDeltas
    BY DEF Files, Typed, Trees
  <2>2. mine.deltas \subseteq work'[x].deltas /\ new.deltas \subseteq work'[x].deltas
    BY <1>1
  <2> QED
    BY <2>1, <2>2, FewerFit
<1>4. \A d \in returned : d \in work'[x].deltas => d \in new.deltas
  BY <1>1 DEF Written, Synced
<1>5. Fits(mine.deltas) => \A i \in DOMAIN old.board : /\ i \in DOMAIN mine.board
                                                       /\ ~Earlier(mine.board[i], old.board[i])
  BY DEF Showing, Newer
<1>6. Fits(new.deltas) => \A d \in returned : d \in new.deltas => Covered(new.board, d)
  BY DEF Showing, Shows
<1>7. CASE new.board # old.board
  <2>1. work'[x].board = branch'[x].tree.board
    BY <1>1, <1>7
  <2>2. Newer(work'[x], branch'[x].tree)
    <3>1. work'[x] \in Trees
      BY DEF Typed
    <3>2. Newer(work'[x], work'[x])
      BY <3>1, NewerItself
    <3> QED
      BY <2>1, <3>2 DEF Newer
  <2> QED
    BY <1>1, <1>3, <1>4, <1>6, <1>7, <2>2 DEF Shows
<1>8. CASE new.board = old.board
  <2>1. work'[x].board = mine.board
    BY <1>1, <1>8
  <2>2. ASSUME Fits(work'[x].deltas), NEW d \in returned, d \in work'[x].deltas
        PROVE  Covered(mine.board, d)
    <3>1. Covered(old.board, d) /\ d \in BoardDeltas
      BY <1>2, <1>3, <1>4, <1>6, <1>8, <2>2
    <3>2. d.id \in DOMAIN mine.board /\ ~Earlier(mine.board[d.id], old.board[d.id])
      BY <1>3, <1>5, <2>2, <3>1 DEF Covered
    <3> QED
      BY <1>2, <3>1, <3>2, StillCovered
  <2>3. Newer(work'[x], branch'[x].tree)
    BY <1>3, <1>5, <1>8, <2>1 DEF Newer
  <2> QED
    BY <2>1, <2>2, <2>3 DEF Shows
<1> QED
  BY <1>7, <1>8

\* The board of a worktree.
LEMMA WorkShows ==
    ASSUME Typed, Files, Typed', Files', Synced, Written, Rows, Showing,
           NEW a \in Agents, Acts(a), NEW x \in Clones
    PROVE  Shows(work'[x].board, work'[x].deltas, returned) /\ Newer(work'[x], branch'[x].tree)
<1>s. /\ Shows(work[x].board, work[x].deltas, returned)
      /\ Newer(work[x], branch[x].tree)
  BY DEF Showing
<1>t. work[x] \in Trees /\ branch[x].tree \in Trees /\ work'[x] \in Trees
  BY TreeTypes DEF Typed
<1>1. CASE work'[x] = Forwarded(x) /\ ~branch[x].ahead /\ branch'[x].tree = hub.tree
  BY <1>1, PullShows
<1>2. CASE UNCHANGED work /\ branch'[x].tree = work[x]
  BY <1>2, <1>s, <1>t, NewerItself
<1>3. CASE /\ x = CloneOf[a] /\ WriteBoard(a)
           /\ work'[x].deltas = work[x].deltas /\ work'[x].board = call[a].rows
           /\ call[a].op = "task" /\ Len(call[a].todo) = 2
  <2>1. branch'[x] = branch[x]
    BY <1>3 DEF WriteBoard
  <2>2. ShowsTasks(call[a].rows, work[x].deltas)
    BY <1>3 DEF Showing, TaskShown
  <2>3. Shows(call[a].rows, work[x].deltas, returned)
    BY <2>2 DEF Shows, ShowsTasks, Typed, TaskDeltas
  <2>4. ASSUME Fits(work[x].deltas), NEW i \in DOMAIN branch[x].tree.board
        PROVE  i \in DOMAIN call[a].rows /\ ~Earlier(call[a].rows[i], branch[x].tree.board[i])
    <3>1. branch[x].tree.board[i] \in branch[x].tree.deltas /\ branch[x].tree.board[i].id = i
      BY <2>4 DEF Rows, RowsIn
    <3>2. branch[x].tree.board[i] \in TaskDeltas
      BY <1>t, <2>4, RowTypes DEF Trees
    <3>3. branch[x].tree.board[i] \in work[x].deltas /\ branch[x].tree.board[i].kind = "task"
      BY <3>1, <3>2 DEF Files, TaskDeltas
    <3>4. Covered(call[a].rows, branch[x].tree.board[i])
      BY <2>2, <2>4, <3>3 DEF ShowsTasks
    <3> QED
      BY <3>1, <3>4 DEF Covered
  <2>5. Newer(work'[x], branch'[x].tree)
    BY <1>3, <2>1, <2>4 DEF Newer
  <2> QED
    BY <1>3, <2>3, <2>5
<1>4. CASE /\ work[x].deltas \subseteq work'[x].deltas /\ work'[x].board = work[x].board
           /\ \A d \in returned : d \in work'[x].deltas => d \in work[x].deltas
           /\ branch'[x].tree = branch[x].tree
  <2>1. Fits(work'[x].deltas) => Fits(work[x].deltas)
    <3>1. IsFiniteSet(work'[x].deltas) /\ work'[x].deltas \subseteq BoardDeltas
      BY <1>t DEF Files, Trees
    <3> QED
      BY <1>4, <3>1, FewerFit
  <2>2. Shows(work'[x].board, work'[x].deltas, returned)
    BY <1>4, <1>s, <2>1 DEF Shows
  <2>3. Newer(work'[x], branch'[x].tree)
    BY <1>4, <1>s, <2>1 DEF Newer
  <2> QED
    BY <2>2, <2>3
<1>5. CASE WriteDelta(a)
  <2>1. branch'[x] = branch[x]
    BY <1>5 DEF WriteDelta
  <2>2. PICK d \in BoardDeltas, t \in Trees :
          /\ NewWork(a, t)
          /\ t.deltas = work[CloneOf[a]].deltas \cup {d} /\ t.board = work[CloneOf[a]].board
          /\ d.kind = "task" => call[a].op = "task"
          /\ \A b \in Clones : d \notin work[b].deltas
    BY <1>5, NewDelta
  <2>3. d \notin returned
    <3>1. \A b \in Clones : d \notin work[b].deltas
      BY <2>2
    <3>2. \A f \in returned : CloneOf[f.w] \in Clones /\ f \in work[CloneOf[f.w]].deltas
      BY Limits DEF Written
    <3> QED
      BY <3>1, <3>2
  <2>4. \/ work'[x] = work[x]
        \/ work'[x].deltas = work[x].deltas \cup {d} /\ work'[x].board = work[x].board
    BY <2>2 DEF NewWork
  <2> QED
    BY <1>4, <2>1, <2>3, <2>4
<1>6. CASE PullTeam(a) /\ UNCHANGED work /\ UNCHANGED branch
  BY <1>4, <1>6
<1>7. CASE CommitTeam(a)
  <2>1. UNCHANGED work /\ (branch'[x].tree = branch[x].tree \/ branch'[x].tree = work[x])
    BY <1>7, BranchMoves DEF CommitTeam, PullTeam, At
  <2> QED
    BY <1>2, <1>4, <2>1
<1>8. CASE PullTeam(a) /\ Forwards(a) /\ ~branch[CloneOf[a]].ahead
  <2>1. PICK t \in Trees, r \in Branches :
          /\ NewWork(a, t) /\ NewBranch(a, r)
          /\ t = Forwarded(CloneOf[a]) /\ r.tree = hub.tree
    BY <1>8 DEF Forwards
  <2>2. CASE x = CloneOf[a]
    BY <1>1, <1>8, <2>1, <2>2 DEF NewWork, NewBranch
  <2>3. CASE x # CloneOf[a]
    BY <1>4, <2>1, <2>3 DEF NewWork, NewBranch
  <2> QED
    BY <2>2, <2>3
<1>9. CASE ~WriteDelta(a) /\ ~PullTeam(a) /\ ~CommitTeam(a)
  <2>1. branch'[x].tree = branch[x].tree
    BY <1>9, BranchMoves
  <2>2. CASE work'[x].deltas = work[x].deltas /\ work'[x].board = work[x].board
    BY <1>4, <2>1, <2>2
  <2> QED
    BY <1>3, <1>9, <2>2, WorkMoves
<1> QED
  BY <1>5, <1>6, <1>7, <1>8, <1>9, PullTeamDoes

\* The boards of the branches.
LEMMA BranchShows ==
    ASSUME Typed, Showing, NEW a \in Agents, Acts(a)
    PROVE  /\ Shows(hub'.tree.board, hub'.tree.deltas, returned)
           /\ \A x \in Clones : Shows(branch'[x].tree.board, branch'[x].tree.deltas, returned)
<1>1. Shows(hub'.tree.board, hub'.tree.deltas, returned)
  BY RemoteMoves, Limits DEF Showing
<1>2. ASSUME NEW x \in Clones
      PROVE  Shows(branch'[x].tree.board, branch'[x].tree.deltas, returned)
  BY BranchMoves DEF Showing
<1> QED
  BY <1>1, <1>2

\* A set_task that returns adds what every tree that has it shows.
LEMMA ReturnShows ==
    ASSUME Typed, Files, Written, Showing, NEW a \in Agents,
           call[a].op = "task", call[a].todo = <<>>,
           returned' = returned \cup call[a].delta, UNCHANGED <<hub, work, branch>>
    PROVE  /\ Shows(hub'.tree.board, hub'.tree.deltas, returned')
           /\ \A x \in Clones : /\ Shows(work'[x].board, work'[x].deltas, returned')
                                /\ Shows(branch'[x].tree.board, branch'[x].tree.deltas, returned')
                                /\ Newer(work'[x], branch'[x].tree)
<1> DEFINE c == CloneOf[a]
<1>n. PICK n : n = Len(call[a].todo)
  OBVIOUS
<1>0. n = 0 /\ n <= 1 /\ c \in Clones
  BY <1>n, Limits
<1>1. /\ ShowsTasks(work[c].board, work[c].deltas)
      /\ ShowsTasks(branch[c].tree.board, branch[c].tree.deltas)
  BY <1>n, <1>0 DEF Showing, TaskShown
<1>2. \A d \in call[a].delta :
         d \notin hub.tree.deltas /\ \A x \in Clones : x # c => d \notin work[x].deltas
  BY DEF Written, TaskWrote
<1>3. \A d \in returned \cup call[a].delta : d.kind = "task"
  BY DEF Typed, CallsFit, CallFits, TaskDeltas
<1>4. Shows(hub.tree.board, hub.tree.deltas, returned \cup call[a].delta)
  BY <1>2 DEF Showing, Shows
<1>5. ASSUME NEW x \in Clones
      PROVE  /\ Shows(work[x].board, work[x].deltas, returned \cup call[a].delta)
             /\ Shows(branch[x].tree.board, branch[x].tree.deltas, returned \cup call[a].delta)
  <2>1. CASE x = c
    BY <1>1, <1>3, <2>1 DEF Shows, ShowsTasks
  <2>2. CASE x # c
    <3>1. \A d \in call[a].delta : d \notin work[x].deltas /\ d \notin branch[x].tree.deltas
      BY <1>2, <2>2 DEF Files
    <3> QED
      BY <3>1 DEF Showing, Shows
  <2> QED
    BY <2>1, <2>2
<1> QED
  BY <1>4, <1>5 DEF Showing

\* Every step keeps on each board what has returned.
LEMMA ShowingStep ==
    ASSUME Typed, Files, Locking, Synced, Written, Rows, Showing, [BoardNext]_boardVars
    PROVE  Showing'
<1>1. CASE UNCHANGED boardVars
  BY <1>1 DEF boardVars, Showing
<1>2. CASE BoardTick
  BY <1>2 DEF BoardTick, Showing
<1>3. ASSUME NEW a \in Agents, Acts(a)
      PROVE  Showing'
  <2>0. Typed' /\ Files'
    BY BoardStepTyped
  <2>1. \A b \in Agents : TaskShown(call'[b], work'[CloneOf[b]], branch'[CloneOf[b]].tree)
    BY <1>3, <2>0, OthersShown, OwnShown
  <2>2. CASE UNCHANGED returned
    <3>1. \A x \in Clones : /\ Shows(work'[x].board, work'[x].deltas, returned')
                            /\ Newer(work'[x], branch'[x].tree)
      BY <1>3, <2>0, <2>2, WorkShows
    <3>2. /\ Shows(hub'.tree.board, hub'.tree.deltas, returned')
          /\ \A x \in Clones : Shows(branch'[x].tree.board, branch'[x].tree.deltas, returned')
      BY <1>3, <2>2, BranchShows
    <3> QED
      BY <2>1, <3>1, <3>2 DEF Showing
  <2>3. CASE /\ call[a].op = "task" /\ call[a].todo = <<>>
             /\ returned' = returned \cup call[a].delta /\ UNCHANGED <<hub, work, branch>>
    BY <2>1, <2>3, ReturnShows DEF Showing
  <2> QED
    BY <1>3, <2>2, <2>3, ReturnedGrows
<1> QED
  BY <1>1, <1>2, <1>3, NextActs

-----------------------------------------------------------------------------
\* The shared memory of a team.

\* The invariants hold in the first state.
LEMMA BoardBegins ==
    ASSUME BoardInit
    PROVE  /\ Locking /\ Synced /\ Posting /\ LockFiles /\ Claims
           /\ Written /\ Rows /\ Showing
<1>0. Typed /\ Files
  BY BoardInitTyped
<1>1. /\ FreshTree.deltas = {} /\ FreshTree.board = <<>>
      /\ \A l \in Lockable : FreshTree.locks[l] = 0
      /\ FreshTree \in Trees
  BY NoRows, Limits DEF FreshTree, Trees
<1>2. /\ hub = [version |-> 1, tree |-> PublishedTree]
      /\ work = [c \in Clones |-> IF c \in Behind THEN FreshTree ELSE PublishedTree]
      /\ branch = [c \in Clones |-> [base |-> IF c \in Behind THEN 0 ELSE 1, ahead |-> FALSE,
                                     tree |-> work[c]]]
      /\ call = [a \in Agents |-> NoCall] /\ held = [a \in Agents |-> {}]
      /\ returned = Published /\ posted = {}
  BY DEF BoardInit
<1>3. /\ PublishedTree.deltas = Published /\ PublishedTree.board = BoardRows(Published)
      /\ \A l \in Lockable : PublishedTree.locks[l] = 0
  BY <1>1 DEF PublishedTree, FreshTree
<1>4. \A c \in Clones :
         /\ branch[c].tree = work[c] /\ branch[c].ahead = FALSE
         /\ c \in Behind => work[c] = FreshTree /\ branch[c].base = 0
         /\ c \notin Behind => work[c] = PublishedTree /\ branch[c].base = 1
  BY <1>2
<1>5. hub.version = 1 /\ hub.tree = PublishedTree
  BY <1>2
<1>6. \A a \in Agents : call[a] = NoCall /\ held[a] = {} /\ call[a].op = "none"
  BY <1>2 DEF NoCall
<1>7. /\ \A c \in Clones, l \in Lockable : work[c].locks[l] = 0
      /\ \A l \in Lockable : hub.tree.locks[l] = 0
  BY <1>1, <1>3, <1>4, <1>5
<1>8. /\ IsFiniteSet(Published) /\ Published \subseteq TaskDeltas
      /\ \A d \in Published : d.w \in Agents /\ CloneOf[d.w] \notin Behind
  BY <1>0, <1>2, PublishedBefore DEF Typed
<1>9. Distinct(Published)
  <2>1. \A d, e \in Published : e # d => <<e.w, e.at, e.n>> # <<d.w, d.at, d.n>>
    BY PublishedBefore
  <2> QED
    BY <2>1 DEF Distinct
<1>10. /\ RowsIn(PublishedTree.board, Published)
       /\ \A d \in Published : Covered(PublishedTree.board, d)
  BY <1>3, <1>8, <1>9, RowsOfBoard DEF RowsIn
<1>11. \A c \in Clones : \/ work[c].deltas = {} /\ work[c].board = <<>>
                         \/ work[c].deltas = Published /\ work[c].board = PublishedTree.board
  BY <1>1, <1>3, <1>4
<1>12. Locking /\ Claims /\ LockFiles
  <2>1. Locking
    BY <1>6, LockAtValues, FreeOrFailed DEF Locking
  <2>2. Claims
    BY <1>6, OtherStage DEF Claims
  <2>3. LockFiles
    BY <1>4, <1>7, Limits DEF LockFiles
  <2> QED
    BY <2>1, <2>2, <2>3
<1>13. Synced /\ Posting
  <2>1. Synced
    BY <1>3, <1>4, <1>5, <1>11 DEF Synced
  <2>2. Posting
    BY <1>2, <1>6 DEF Posting, PostStage
  <2> QED
    BY <2>1, <2>2
<1>14. Written
  BY <1>2, <1>3, <1>4, <1>6, <1>8, Limits DEF Written, TaskWrote
<1>15. Rows
  <2>1. \A c \in Clones : RowsIn(work[c].board, work[c].deltas)
    BY <1>10, <1>11 DEF RowsIn
  <2> QED
    BY <1>3, <1>4, <1>5, <1>6, <1>10, <2>1 DEF Rows
<1>16. Showing
  <2>1. \A c \in Clones : Shows(work[c].board, work[c].deltas, returned)
    BY <1>2, <1>10, <1>11 DEF Shows
  <2>2. Shows(hub.tree.board, hub.tree.deltas, returned)
    BY <1>2, <1>5, <1>10 DEF Shows
  <2>3. \A c \in Clones : Newer(work[c], branch[c].tree)
    BY <1>0, <1>4, TreeTypes, NewerItself
  <2> QED
    BY <1>4, <1>6, <2>1, <2>2, <2>3 DEF Showing, TaskShown
<1> QED
  BY <1>12, <1>13, <1>14, <1>15, <1>16

BoardInv ==
    /\ Typed /\ Files /\ Locking /\ Synced /\ Posting
    /\ LockFiles /\ Claims /\ Written /\ Rows /\ Showing

\* The invariant is inductive.
LEMMA BoardSteps ==
    /\ BoardInit => BoardInv
    /\ BoardInv /\ [BoardNext]_boardVars => BoardInv'
<1>1. BoardInit => BoardInv
  BY BoardInitTyped, BoardBegins DEF BoardInv
<1>2. ASSUME BoardInv, [BoardNext]_boardVars
      PROVE  BoardInv'
  <2>1. Typed' /\ Files'
    BY <1>2, BoardStepTyped DEF BoardInv
  <2>2. Locking' /\ Synced'
    BY <1>2, LockingStep, SyncedStep DEF BoardInv
  <2>3. Posting' /\ LockFiles' /\ Claims'
    BY <1>2, PostingStep, ClaimsStep DEF BoardInv
  <2>4. Written' /\ Rows' /\ Showing'
    BY <1>2, WrittenStep, RowsStep, ShowingStep DEF BoardInv
  <2> QED
    BY <2>1, <2>2, <2>3, <2>4 DEF BoardInv
<1> QED
  BY <1>1, <1>2

\* The clock, the calls and the branches are within their bounds, the lock of a
\* clone is one of its agents' or free, and a board has rows for tasks only.
THEOREM BoardTyped == BoardSpec => []BoardTypeOK
<1>1. BoardInv => BoardTypeOK
  <2> SUFFICES ASSUME BoardInv PROVE BoardTypeOK
    OBVIOUS
  <2>1. Typed
    BY DEF BoardInv
  <2>2. ASSUME NEW c \in Clones
        PROVE  /\ branch[c].base \in 0 .. hub.version
               /\ gitlock[c] \in Agents \cup {0} /\ DOMAIN work[c].board \subseteq Ids
    <3>1. branch[c].base \in Nat /\ hub.version \in Nat /\ branch[c].base <= hub.version
      BY <2>1 DEF Typed, Branches
    <3>2. work[c].board \in PartialRows
      BY <2>1, TreeTypes DEF Trees
    <3> QED
      BY <2>1, <3>1, <3>2 DEF Typed, PartialRows
  <2>3. ASSUME NEW a \in Agents
        PROVE  held[a] \subseteq Lockable /\ call[a].op \in DOMAIN Plan \cup {"none", "failed"}
    BY <2>1 DEF Typed, CallsFit, CallRecords
  <2> QED
    BY <2>1, <2>2, <2>3 DEF BoardTypeOK, Typed
<1> QED
  BY <1>1, BoardSteps, PTL DEF BoardSpec

\* A task whose set_task has returned stays on the BOARD.md of its clone, a file
\* is told to be one agent's at most, and a returned post is in the remote branch.
THEOREM BoardHolds == BoardSpec => []BoardSound
<1>1. BoardInv => BoardSound
  <2> SUFFICES ASSUME BoardInv PROVE BoardSound
    OBVIOUS
  <2>1. ASSUME NEW d \in returned, Fits(work[CloneOf[d.w]].deltas)
        PROVE  Covered(work[CloneOf[d.w]].board, d)
    <3>1. CloneOf[d.w] \in Clones /\ d \in work[CloneOf[d.w]].deltas
      BY Limits DEF BoardInv, Written
    <3> QED
      BY <2>1, <3>1 DEF BoardInv, Showing, Shows
  <2>2. ASSUME NEW a \in Agents, NEW b \in Agents, a # b, CloneOf[a] = CloneOf[b]
        PROVE  held[a] \cap held[b] = {}
    BY <2>2 DEF BoardInv, Claims
  <2>3. posted \subseteq hub.tree.deltas
    BY DEF BoardInv, Posting
  <2> QED
    BY <2>1, <2>2, <2>3 DEF BoardSound, Fits, Covered
<1> QED
  BY <1>1, BoardSteps, PTL DEF BoardSpec
=============================================================================
