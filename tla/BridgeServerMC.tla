---------------------------- MODULE BridgeServerMC ----------------------------
(***************************************************************************)
(* Instances of BridgeServer, with the transactions of RethSystemMC: t1    *)
(* and t2 are built by eth_sendRawTransaction, and x0 is a deployment.     *)
(***************************************************************************)
EXTENDS BridgeServer

CONSTANTS t1, t2, t3, a0, x0, a1, b0, alice, bob, m1

MCTxs == {t1, t2, t3}
MCEvm == {a0, x0, a1, b0}
MCBlobs == t1 :> <<a0>> @@ t2 :> <<x0>> @@ t3 :> <<b0, a1>>
MCSender == a0 :> alice @@ x0 :> alice @@ a1 :> alice @@ b0 :> bob
MCNonce == a0 :> 0 @@ x0 :> 0 @@ a1 :> 1 @@ b0 :> 0
MCMessageOf == a0 :> m1 @@ x0 :> NoMessage @@ a1 :> NoMessage @@ b0 :> NoMessage
MCCommitments == {}
MCContracts == <<BridgeCn, HyperlaneCn>>

\* A smaller instance, for liveness: t1 and t3 alone.
SmallTxs == {t1, t3}
SmallEvm == {a0, a1, b0}
SmallBlobs == t1 :> <<a0>> @@ t3 :> <<b0, a1>>
SmallSender == a0 :> alice @@ a1 :> alice @@ b0 :> bob
SmallNonce == a0 :> 0 @@ a1 :> 1 @@ b0 :> 0
SmallMessageOf == a0 :> m1 @@ a1 :> NoMessage @@ b0 :> NoMessage

=============================================================================
