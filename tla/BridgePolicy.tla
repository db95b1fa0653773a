----------------------------- MODULE BridgePolicy -----------------------------
(***************************************************************************)
(* The bridge policy: contracts/hyperlane-bridge/src/lib.rs, and the       *)
(* handler with which the server's AutoProver runs it,                     *)
(* src/client/tx_executor_handler.rs.                                      *)
(*                                                                         *)
(* A Hyli transaction built by eth_sendRawTransaction carries, after its   *)
(* reth blob, a blob of the bridge contract, which succeeds when the EVM   *)
(* transaction passes the policy: it must not create a contract.  The      *)
(* contract's state is the name of the reth contract and never changes;    *)
(* its commitment is a hash of the name.                                   *)
(***************************************************************************)
EXTENDS EthChainState

CONSTANTS
    Deployments,      \* the EVM transactions that create a contract
    HasBridgeBlob,    \* the Hyli transactions with a blob of the bridge contract
    HyperlaneCn,      \* conf.hyperlane_cn, the name of the reth contract
    DefaultCn         \* the default state's name of it

ASSUME PolicyAssumption ==
    /\ Deployments \subseteq Evm
    /\ HasBridgeBlob \subseteq Txs

NoMetadata == {}

\* commit: injective.
Commit(state) == state

\* init_contracts registers the contract with this state and no constructor metadata,
InitialCommitment == Commit(HyperlaneCn)

\* from which the AutoProver constructs its own state.
ConstructState(metadata) == IF metadata = NoMetadata THEN DefaultCn ELSE metadata

\* decode_reth_tx: the first reth blob.  Those of a transaction are addressed to the reth
\* contract by the name it has.
DecodesRethTx(state, t) == state = HyperlaneCn /\ Blobs[t][1] \in Decodable

\* Mutant: deployments pass.
AcceptsAll(state, t) == DecodesRethTx(state, t)

\* reject_contract_deployment
IsCreate(t) == Blobs[t][1] \in Deployments

\* VerifyTransaction
Accepts(state, t) == DecodesRethTx(state, t) /\ ~IsCreate(t)

\* The AutoProver's proof for the bridge blob of t is one of success, and starts from the
\* commitment on the node.
PolicyProved(t) ==
    LET state == ConstructState(NoMetadata)
    IN  Commit(state) = InitialCommitment /\ Accepts(state, t)

=============================================================================
