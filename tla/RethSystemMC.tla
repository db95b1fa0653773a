---------------------------- MODULE RethSystemMC ----------------------------
(***************************************************************************)
(* Instance of RethSystem.  alice signs a0 and its rival x0 with the same  *)
(* nonce, and a1 with the next one; a0 delivers the message m1.  t1 and t2 *)
(* compete; t3 carries two reth blobs, the second of which depends on a0   *)
(* or x0 having been executed.                                             *)
(***************************************************************************)
EXTENDS RethClaims

CONSTANTS t1, t2, t3, a0, x0, a1, b0, alice, bob, m1

MCTxs == {t1, t2, t3}
MCEvm == {a0, x0, a1, b0}
MCBlobs == t1 :> <<a0>> @@ t2 :> <<x0>> @@ t3 :> <<b0, a1>>
MCSender == a0 :> alice @@ x0 :> alice @@ a1 :> alice @@ b0 :> bob
MCNonce == a0 :> 0 @@ x0 :> 0 @@ a1 :> 1 @@ b0 :> 0
MCMessageOf == a0 :> m1 @@ x0 :> NoMessage @@ a1 :> NoMessage @@ b0 :> NoMessage
MCCommitments == {}

=============================================================================
