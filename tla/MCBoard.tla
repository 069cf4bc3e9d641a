------------------------------- MODULE MCBoard ------------------------------
(***************************************************************************)
(* Two agents of one clone write tasks, and pull one of another writer: a  *)
(* directory and a file fill the limit of directory entries.               *)
(***************************************************************************)
EXTENDS TeamBoard, TLC

CONSTANTS cA, cB

MCCloneOf   == (1 :> cA) @@ (2 :> cA) @@ (3 :> cB)
MCAhead     == [c \in Clones |-> 0]
MCPublished == {[w |-> 3, at |-> 0, n |-> 0, kind |-> "task", id |-> 1]}
MCCalls     == (1 :> {"task"}) @@ (2 :> {"sync"}) @@ (3 :> {"goal", "fact"})
=============================================================================
