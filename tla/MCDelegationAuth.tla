-------------------------- MODULE MCDelegationAuth --------------------------
(***************************************************************************)
(* Two worker threads and two peers.  s1 and s2 expire one after the       *)
(* other, within the clock's range, and s2 is dated one second later; s3   *)
(* fails the checks on its content and is left out of the run that counts  *)
(* what is executed.  The cache holds one row, so that housekeeping and    *)
(* the limit come into play.                                               *)
(***************************************************************************)
EXTENDS DelegationAuth, TLC

CONSTANTS alice, bob, s1, s2, s3

MCSender == (s1 :> alice) @@ (s2 :> bob)
MCIssued == (s1 :> 0) @@ (s2 :> 1)
MCExpires == (s1 :> 1) @@ (s2 :> 2)
MCIntact == (s1 :> TRUE) @@ (s2 :> TRUE)

MC3Sender == MCSender @@ (s3 :> alice)
MC3Issued == MCIssued @@ (s3 :> 0)
MC3Expires == MCExpires @@ (s3 :> 2)
MC3Intact == MCIntact @@ (s3 :> FALSE)
=============================================================================
