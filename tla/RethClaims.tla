----------------------------- MODULE RethClaims -----------------------------
(***************************************************************************)
(* Claims that comments, docs and tests of src/server make about           *)
(* RethModule, and that its code does not keep.  Each is the property of a *)
(* run that shows a behaviour of RethSystem violating it.                  *)
(***************************************************************************)
EXTENDS RethViews

SameRun == restarts' = restarts

\* "If the tx is absent from state_history (proof building failed and rollback_and_replay
\* removed it before settlement), push a fallback block so that
\* settled_eth_chain_state.block_number still advances" (reth_module.rs:511-515).
\* The rollback also removed the transaction from tx_chain, so handle_settled_tx returns
\* before that branch.
SettlementAdvancesBlockNumber ==
    [][SameRun /\ told' # told => settled'.block_number > settled.block_number]_vars

\* "Index messageId for every reth blob so the frontend can poll before settlement"
\* (reth_module.rs:213).  Each settlement replaces the settled state by one that descends
\* from genesis without the index.
IndexedUntilSettled ==
    \A t \in ToSet(txChain) : heard[t] = "sequenced" =>
        \A i \in DOMAIN Blobs[t] :
            MessageOf[Blobs[t][i]] # NoMessage =>
                GetTxByMessageId(MessageOf[Blobs[t][i]]) # None

\* "Maps EVM tx hash [..] to the Hyli blob tx hash returned by the node when the
\* transaction was submitted.  Used by `hyli_getHyliHash` so the frontend can build correct
\* Hyli explorer links" (eth_chain_state.rs:89-91).  Settlement removes the submission and
\* nothing writes the map of the settled state, where hyli_getHyliHash looks next.
SettledHashResolvable ==
    [][\A t \in Txs : \A e \in ToSet(Blobs[t]) :
        ReportSuccess(t) /\ submitted[e] = t =>
            GetHyliHash(e)' = t]_vars

\* A failed transaction is evicted from submitted_txs: test
\* failed_tx_evicted_from_submitted_cache (reth_module.rs:965-987).  When the failure is
\* that of building its proof, pending_proofs does not hold it yet and it stays.
FailedTxEvicted ==
    [][\A t \in Txs :
        heard'[t] = "sequenced" /\ heard[t] = "nothing" /\ t \notin ToSet(txChain') =>
            \A e \in ToSet(Blobs[t]) : submitted'[e] = None]_vars

\* "Published pending/speculative EVM snapshot exposed via RPC" (reth_module.rs:58): when
\* the server is ready and idle, the snapshot is the speculative state.
\* handle_backfill_complete replays the buffered transactions and publishes nothing.
SnapshotIsSpeculative ==
    isReady /\ Idle /\ DOMAIN stateHistory # {} =>
        pending.accounts = CurrentState(stateHistory).accounts

=============================================================================
