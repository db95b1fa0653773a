--------------------------- MODULE EthChainStateMC ---------------------------
(***************************************************************************)
(* An instance for TLC: payloads that run, that fail and that do not       *)
(* decode, two of them of one sender.                                      *)
(***************************************************************************)
EXTENDS EthChainLoops

CONSTANTS a0, a1, bad, junk, alice, bob, t1

MCBlobs == t1 :> <<a0>>
MCSender == a0 :> alice @@ a1 :> alice @@ bad :> bob @@ junk :> bob
MCNonce == a0 :> 0 @@ a1 :> 1 @@ bad :> 0 @@ junk :> 0
MCMessageOf == [e \in {a0, a1, bad, junk} |-> NoMessage]

\* The empty state's root and one the server never computes.
MCRoots == {<<>>, <<[tx |-> junk, ran |-> TRUE]>>}

=============================================================================
