---------------------------- MODULE RethModuleMC ----------------------------
(***************************************************************************)
(* Instance of RethModule under an unconstrained listener: t1 carries one  *)
(* reth blob, t2 two.  alice signs a0 and a1; b0 is bob's transaction,     *)
(* whose execution fails.                                                  *)
(***************************************************************************)
EXTENDS RethModule

CONSTANTS t1, t2, a0, a1, b0, alice, bob, m1

MCTxs == {t1, t2}
MCEvm == {a0, a1, b0}
MCBlobs == t1 :> <<a0>> @@ t2 :> <<a1, b0>>
MCSender == a0 :> alice @@ a1 :> alice @@ b0 :> bob
MCNonce == a0 :> 0 @@ a1 :> 1 @@ b0 :> 0
MCMessageOf == a0 :> NoMessage @@ a1 :> m1 @@ b0 :> NoMessage

\* The root Hyli reports after t1 alone settled, whatever the server executed.
MCCommitments == {<<[tx |-> a0, ran |-> TRUE]>>}

=============================================================================
