--------------------------- MODULE SharedHistory ---------------------------
(***************************************************************************)
(* What automatic Git synchronisation promises to a team: one shared       *)
(* history of commits that only ever grows at its end, and on every node a *)
(* copy that is changed in three ways only: the node records a commit of   *)
(* its own, adopts more of the shared history when it has nothing to add   *)
(* to it, or, by hand, replays its unpublished work on top of it.          *)
(***************************************************************************)
EXTENDS Sequences, SequencesExt

CONSTANTS Nodes, Commits

VARIABLES
    history, \* the shared history
    copies   \* [Nodes -> the node's copy, unpublished commits included]

sharedVars == <<history, copies>>

Init ==
    /\ history = <<>>
    /\ copies = [n \in Nodes |-> <<>>]

\* A node records a commit in its own copy.
Record(n) ==
    /\ \E c \in Commits : copies' = [copies EXCEPT ![n] = Append(@, c)]
    /\ UNCHANGED history

\* A node takes over commits of others; it had none that they lack.
Adopt(n) ==
    /\ \E c \in Prefixes(history) :
         /\ IsPrefix(copies[n], c)
         /\ copies' = [copies EXCEPT ![n] = c]
    /\ UNCHANGED history

\* A node's copy becomes the shared history, of which it has every commit.
Publish(n) ==
    /\ IsPrefix(history, copies[n])
    /\ history' = copies[n]
    /\ UNCHANGED copies

\* A person replays the node's unpublished work on top of the shared history.
Replay(n) ==
    /\ \E c \in Commits : copies' = [copies EXCEPT ![n] = Append(history, c)]
    /\ UNCHANGED history

Next == \E n \in Nodes : Record(n) \/ Adopt(n) \/ Publish(n) \/ Replay(n)

Spec == Init /\ [][Next]_sharedVars
=============================================================================
