----------------------------- MODULE MCTeamGit -----------------------------
(***************************************************************************)
(* Two nodes, one of them with two processes that sync.  Two paths, which  *)
(* are written or removed: for nodes that fork, and for a pull that        *)
(* changes one file while another is being written.                        *)
(***************************************************************************)
EXTENDS TeamGit, TLC

CONSTANTS a, b, a1, a2, b1, f, g, x

MCHome == [p \in Procs |-> IF p = b1 THEN b ELSE a]

=============================================================================
