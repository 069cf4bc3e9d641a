------------------------------- MODULE MCNode -------------------------------
(***************************************************************************)
(* Two parts of a node's server that share no state, checked in one run: a *)
(* behaviour is one of the middleware or one of the executor, and its      *)
(* first state says of which.  The middleware has three requests, two of   *)
(* them copies of one that is signed and the third forged or anonymous,    *)
(* two slots and bodies of one byte; the signature may expire while they   *)
(* are in flight.  The executor has two tasks of one owner, one of another *)
(* owner with the same task id, all under one message id, two of which     *)
(* arrive, a cancellation, and room for two owners, one of whom may have   *)
(* been served before.                                                     *)
(***************************************************************************)
EXTENDS RpcIngress, TaskLifecycle

CONSTANTS r1, r2, r3, alice, bob, carol, t1, t2, mid, m1, m2, m3, x1

VARIABLE part   \* the part that runs

MCBy        == (m1 :> alice) @@ (m2 :> alice) @@ (m3 :> bob) @@ (x1 :> alice)
MCAbout     == (m1 :> t1) @@ (m2 :> t2) @@ (m3 :> t1) @@ (x1 :> t1)
MCMessageId == [m \in Messages |-> mid]
MCHttpExpires == [sig \in Genuine |-> 1]

nodeVars == <<part, ingressVars, taskVars>>

\* Two copies of the signed request, and one that is forged or anonymous.
TwoCopies == signed[r1] \notin Genuine /\ {signed[r2], signed[r3]} \subseteq Genuine

NodeInit ==
    /\ part \in {"ingress", "tasks"}
    /\ IngressInit /\ TaskInit
    /\ part = "ingress" => TwoCopies
    /\ part = "tasks" => signed = [r \in Requests |-> Unsigned]

NodeNext ==
    /\ UNCHANGED part
    /\ \/ part = "ingress" /\ UNCHANGED taskVars /\ IngressNext
       \/ part = "tasks" /\ UNCHANGED ingressVars /\ TaskNext

\* In the part that does not run nothing is ever enabled that has to be fair.
NodeSpec == NodeInit /\ [][NodeNext]_nodeVars /\ IngressFairness /\ TaskFairness

\* Every variable of the two parts has its type: no slot is given back twice,
\* and there are never more registries of owners than max_owners.
NodeTypeOK == IngressTypeOK /\ TaskTypeOK
=============================================================================
