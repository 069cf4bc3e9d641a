------------------------------- MODULE MCTrust ------------------------------
(***************************************************************************)
(* The commands that write the trust files, raven-bind among them at any   *)
(* time: what rdap.py says of its interruption points does not hold.       *)
(***************************************************************************)
EXTENDS TrustFiles
=============================================================================
