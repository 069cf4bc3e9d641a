---------------------------- MODULE MCGitRelay ----------------------------
(***************************************************************************)
(* One sender, one receiver, and a process on each node that only syncs.   *)
(***************************************************************************)
EXTENDS GitRelay

CONSTANTS alice, bob, ask, serve, alice2, bob2

MCHome == [p \in Procs |-> IF p \in {ask, alice2} THEN alice ELSE bob]
MCPaths == Slots \X Tasks
MCContents == Envelopes
=============================================================================
