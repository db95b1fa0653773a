----------------------------- MODULE RethModule -----------------------------
(***************************************************************************)
(* The core of the bridge server: server/src/reth_module.rs.               *)
(*                                                                         *)
(* RethModule follows the Hyli transactions that touch the reth contract.  *)
(* It executes each one speculatively when Hyli sequences it, proves it    *)
(* against the state before it, and settles it or rolls it back when Hyli  *)
(* reports its outcome.  It starts in catch-up mode, in which it only      *)
(* buffers sequenced transactions and applies settled ones.                *)
(*                                                                         *)
(* One task serves the events of the contract listener, one event at a     *)
(* time.  Its handlers run without yielding except at the submission of a  *)
(* proof.  Those that replay transactions take several steps: they leave   *)
(* the transactions still to replay in todo, and ReplayTx replays one.     *)
(* handle_sequenced_tx submits a proof per blob, too, but nothing that it  *)
(* changed by then is visible to other tasks except the message index,     *)
(* which it writes first and which no step of theirs depends on: it is one *)
(* step.  JSON-RPC handlers run on other tasks; eth_sendRawTransaction     *)
(* yields between the submission of the blob transaction and the insertion *)
(* into submitted_txs.                                                     *)
(*                                                                         *)
(* Here the listener is only assumed to report a transaction at most once  *)
(* as sequenced and once as settled; RethSystem restricts it to what Hyli  *)
(* produces.                                                               *)
(***************************************************************************)
EXTENDS EthChainState

CONSTANTS
    Commitments,   \* state commitments a settled transaction may carry
    NoCommitment   \* no 32-byte commitment for this contract in the event

ASSUME CommitmentAssumption ==
    /\ Commitments \subseteq Accounts
    /\ NoCommitment \notin Accounts

VARIABLES
    settled,        \* settled_eth_chain_state, behind a lock shared with the RPC tasks
    pending,        \* pending_eth_chain_state, the published speculative snapshot
    submitted,      \* submitted_txs: EVM tx hash -> Hyli tx of a local submission
    pendingProofs,  \* the keys of pending_proofs, in insertion order
    catchingUp,     \* catching_up
    isReady,        \* is_ready: JSON-RPC requests are served
    txChain,        \* tx_chain
    stateHistory,   \* state_history: [state, rank]; rank is the IndexMap position
    todo,           \* transactions the running handler has still to replay
    replay,         \* which handler is replaying: "none", "backfill" or "rollback"
    proofs,         \* ProofTransactions submitted to the node
    sending,        \* eth_sendRawTransaction calls between submission and insertion
    heard           \* what the listener reported of each transaction

moduleVars == <<settled, pending, submitted, pendingProofs, catchingUp, isReady,
                txChain, stateHistory, todo, replay, proofs, sending, heard>>

EmptyHistory == [t \in {} |-> Genesis]

HistoryEntry == [state : EthState, rank : Nat]

TypeOK ==
    /\ settled \in EthState
    /\ pending \in EthState
    /\ submitted \in [Evm -> Txs \cup {None}]
    /\ pendingProofs \in Seq(Txs)
    /\ catchingUp \in BOOLEAN
    /\ isReady \in BOOLEAN
    /\ txChain \in Seq(Txs)
    /\ DOMAIN stateHistory \subseteq Txs
    /\ stateHistory \in [DOMAIN stateHistory -> HistoryEntry]
    /\ todo \in Seq(Txs)
    /\ replay \in {"none", "backfill", "rollback"}
    /\ proofs \subseteq Proof
    /\ sending \subseteq Txs
    /\ heard \in [Txs -> {"nothing", "sequenced", "settled"}]

\* build: everything starts from genesis, catching up and not ready.  The proofs the
\* node holds outlive the server.
Start ==
    /\ settled = Genesis
    /\ pending = Genesis
    /\ submitted = [e \in Evm |-> None]
    /\ pendingProofs = <<>>
    /\ catchingUp = TRUE
    /\ isReady = FALSE
    /\ txChain = <<>>
    /\ stateHistory = EmptyHistory
    /\ todo = <<>>
    /\ replay = "none"
    /\ sending = {}
    /\ heard = [t \in Txs |-> "nothing"]

ModuleInit == Start /\ proofs = {}

-----------------------------------------------------------------------------
\* tx_chain and pending_proofs never hold a transaction twice (NoDuplicates), so that
\* retain, remove and shift_remove all remove the one occurrence.

Position(seq, t) == CHOOSE i \in DOMAIN seq : seq[i] = t

\* Mutant: the only element stays.
DropNotOnly(seq, t) ==
    IF t \in ToSet(seq) /\ Len(seq) > 1 THEN RemoveAt(seq, Position(seq, t)) ELSE seq

Drop(seq, t) == IF t \in ToSet(seq) THEN RemoveAt(seq, Position(seq, t)) ELSE seq

\* state_history, an insertion-ordered map.

\* Mutant: the oldest entry.
IsOldest(h, t) == \A u \in DOMAIN h : h[u].rank >= h[t].rank

IsLatest(h, t) == \A u \in DOMAIN h : h[u].rank <= h[t].rank

\* get_current_state: the last entry's state, or genesis.
CurrentState(h) ==
    IF \E t \in DOMAIN h : IsLatest(h, t)
    THEN h[CHOOSE t \in DOMAIN h : IsLatest(h, t)].state
    ELSE Genesis

NextRank(h) ==
    IF \E t \in DOMAIN h : IsLatest(h, t)
    THEN h[CHOOSE t \in DOMAIN h : IsLatest(h, t)].rank + 1
    ELSE 1

\* IndexMap::insert: in place for a known key, at the end for a new one.
Insert(h, t, s) ==
    [u \in DOMAIN h \cup {t} |->
        IF u # t THEN h[u]
        ELSE [state |-> s, rank |-> IF t \in DOMAIN h THEN h[t].rank ELSE NextRank(h)]]

\* IndexMap::shift_remove, for every transaction of S.
Without(h, S) == Restrict(h, DOMAIN h \ S)

\* publish_pending_rpc_state, given the values of the fields it reads.
Published(h, rpcState, local) ==
    LET current == IF DOMAIN h = {} THEN rpcState ELSE CurrentState(h)
    IN  [current EXCEPT
            !.message_id_index = rpcState.message_id_index,
            !.evm_to_hyli_hash = Extend(rpcState.evm_to_hyli_hash, local)]

WithoutPayloads(t) == [e \in Evm |-> IF e \in ToSet(Blobs[t]) THEN None ELSE submitted[e]]

\* remove_submitted_txs_for: the payloads are looked up in pending_proofs.
Forgotten(known, t) ==
    IF t \in ToSet(known) THEN WithoutPayloads(t) ELSE submitted

Idle == todo = <<>>

Hear(t, what) == heard' = [heard EXCEPT ![t] = what]

-----------------------------------------------------------------------------
\* handle_sequenced_tx

HearSequenced(t) == Idle /\ heard[t] = "nothing" /\ Hear(t, "sequenced")

\* Catching up: buffer.
SequencedCatchingUp(t) ==
    /\ HearSequenced(t)
    /\ catchingUp
    /\ txChain' = Append(txChain, t)
    /\ settled' = IndexMessages(settled, t)
    /\ pendingProofs' = Append(pendingProofs, t)
    /\ UNCHANGED <<pending, submitted, catchingUp, isReady, stateHistory, todo, replay,
                   proofs, sending>>

\* Live, and every blob's proof is built: prove, execute, record, publish.
SequencedLive(t) ==
    /\ HearSequenced(t)
    /\ ~catchingUp
    /\ LET before == CurrentState(stateHistory)
           b == Blobs[t]
       IN  /\ \A i \in DOMAIN b : BuildsProof(before, b, i)
           /\ proofs' = proofs \cup ProofsOf(before, t, DOMAIN b)
           /\ stateHistory' = Insert(stateHistory, t, ApplySpeculative(before, b))
    /\ txChain' = Append(txChain, t)
    /\ settled' = IndexMessages(settled, t)
    /\ pendingProofs' = Append(pendingProofs, t)
    /\ pending' = Published(stateHistory', settled', submitted)
    /\ UNCHANGED <<submitted, catchingUp, isReady, todo, replay, sending>>

\* Live, and the proof of some blob cannot be built: the transaction is rolled back at
\* once.  It is the last of tx_chain, so nothing is replayed.  It leaves tx_chain and
\* state_history as they were; pending_proofs does not hold it yet.
SequencedUnprovable(t) ==
    /\ HearSequenced(t)
    /\ ~catchingUp
    /\ LET before == CurrentState(stateHistory)
           b == Blobs[t]
           built == {i \in DOMAIN b : \A j \in 1..i : BuildsProof(before, b, j)}
       IN  /\ built # DOMAIN b
           /\ proofs' = proofs \cup ProofsOf(before, t, built)
    /\ settled' = IndexMessages(settled, t)
    /\ submitted' = Forgotten(pendingProofs, t)
    /\ pending' = Published(stateHistory, settled', submitted')
    /\ UNCHANGED <<pendingProofs, catchingUp, isReady, txChain, stateHistory, todo,
                   replay, sending>>

-----------------------------------------------------------------------------
\* Mutant: the buffered transactions are put through handle_sequenced_tx, which enters them
\* into tx_chain once more.
BackfillCompleteAgain ==
    /\ Idle
    /\ catchingUp
    /\ catchingUp' = FALSE
    /\ isReady' = TRUE
    /\ txChain' = txChain \o pendingProofs
    /\ todo' = pendingProofs
    /\ replay' = IF pendingProofs = <<>> THEN "none" ELSE "backfill"
    /\ UNCHANGED <<settled, pending, submitted, pendingProofs, stateHistory, proofs, sending,
                   heard>>

\* Mutant: the RPC stays closed when there is nothing to replay.
BackfillCompleteClosed ==
    /\ Idle
    /\ catchingUp
    /\ catchingUp' = FALSE
    /\ isReady' = (pendingProofs # <<>>)
    /\ todo' = pendingProofs
    /\ replay' = IF pendingProofs = <<>> THEN "none" ELSE "backfill"
    /\ UNCHANGED <<settled, pending, submitted, pendingProofs, txChain, stateHistory,
                   proofs, sending, heard>>

\* handle_backfill_complete: go live, then replay what is still pending.  The RPC is
\* open before the replay, and nothing is published after it.
BackfillComplete ==
    /\ Idle
    /\ catchingUp
    /\ catchingUp' = FALSE
    /\ isReady' = TRUE
    /\ todo' = pendingProofs
    /\ replay' = IF pendingProofs = <<>> THEN "none" ELSE "backfill"
    /\ UNCHANGED <<settled, pending, submitted, pendingProofs, txChain, stateHistory,
                   proofs, sending, heard>>

\* Replay the next transaction: prove what can be proved, execute regardless.
\* A transaction without pending proofs is skipped.
ReplayTx ==
    /\ todo # <<>>
    /\ LET t == Head(todo)
           before == CurrentState(stateHistory)
           b == Blobs[t]
       IN  IF t \in ToSet(pendingProofs)
           THEN /\ proofs' = proofs \cup
                     ProofsOf(before, t, {i \in DOMAIN b : BuildsProof(before, b, i)})
                /\ stateHistory' = Insert(stateHistory, t, ApplySpeculative(before, b))
                /\ settled' = IF replay = "backfill" THEN IndexMessages(settled, t) ELSE settled
           ELSE UNCHANGED <<proofs, stateHistory, settled>>
    /\ todo' = Tail(todo)
    /\ replay' = IF todo' = <<>> THEN "none" ELSE replay
    /\ pending' = IF todo' = <<>> /\ replay = "rollback"
                  THEN Published(stateHistory', settled', submitted)
                  ELSE pending
    /\ UNCHANGED <<submitted, pendingProofs, catchingUp, isReady, txChain, sending, heard>>

-----------------------------------------------------------------------------
\* handle_settled_tx.  While catching up, a transaction settled before the server
\* started was never reported as sequenced; it is tracked on the spot.

HearSettled(t) ==
    /\ Idle
    /\ heard[t] \in {"sequenced"} \cup (IF catchingUp THEN {"nothing"} ELSE {})
    /\ Hear(t, "settled")

\* Mutant: the length of the commitment is not looked at.
SettledSuccessCatchingUpUnchecked(t, canonical) ==
    /\ HearSettled(t)
    /\ catchingUp
    /\ settled' = ApplySettled(CurrentState(stateHistory), Blobs[t], canonical)
    /\ stateHistory' = Insert(stateHistory, t, settled')
    /\ submitted' = WithoutPayloads(t)
    /\ txChain' = Drop(txChain, t)
    /\ pendingProofs' = Drop(pendingProofs, t)
    /\ pending' = Published(stateHistory', settled', submitted')
    /\ UNCHANGED <<catchingUp, isReady, todo, replay, proofs, sending>>

\* settle_success_catching_up: execute the transaction on the last state, seal it with
\* Hyli's root, and make it the settled state.
SettledSuccessCatchingUp(t, canonical) ==
    /\ HearSettled(t)
    /\ catchingUp
    /\ LET after == ApplySettled(CurrentState(stateHistory), Blobs[t], canonical)
       IN  IF canonical # NoCommitment
           THEN /\ stateHistory' = Insert(stateHistory, t, after)
                /\ settled' = after
           ELSE UNCHANGED <<stateHistory, settled>>
    /\ submitted' = WithoutPayloads(t)
    /\ txChain' = Drop(txChain, t)
    /\ pendingProofs' = Drop(pendingProofs, t)
    /\ pending' = Published(stateHistory', settled', submitted')
    /\ UNCHANGED <<catchingUp, isReady, todo, replay, proofs, sending>>

\* settle_failed_catching_up
SettledFailedCatchingUp(t) ==
    /\ HearSettled(t)
    /\ catchingUp
    /\ submitted' = WithoutPayloads(t)
    /\ txChain' = Drop(txChain, t)
    /\ pendingProofs' = Drop(pendingProofs, t)
    /\ pending' = Published(stateHistory, settled, submitted')
    /\ UNCHANGED <<settled, catchingUp, isReady, stateHistory, todo, replay, proofs, sending>>

\* Mutant: split_off's result, the rest of the chain, is not the one kept.
UpToAnchor(chain, pos) == SubSeq(chain, 1, pos)

\* split_off: the settled transaction and those after it.
FromAnchor(chain, pos) == SubSeq(chain, pos, Len(chain))

\* settle_success_live: the state recorded when t was executed becomes the settled
\* state, with Hyli's root; t stays in tx_chain as the anchor of later rollbacks.
SettledSuccessLive(t, canonical) ==
    /\ HearSettled(t)
    /\ ~catchingUp
    /\ t \in ToSet(txChain)
    /\ LET pos == Position(txChain, t)
           previous == IF pos > 1 THEN {txChain[pos - 1]} ELSE {}
           corrected ==
               IF t \in DOMAIN stateHistory
               THEN [stateHistory EXCEPT ![t].state.state_root = canonical]
               ELSE stateHistory
       IN  IF canonical # NoCommitment
           THEN /\ settled' = IF t \in DOMAIN stateHistory
                              THEN corrected[t].state
                              ELSE FallbackBlock(settled, canonical)
                /\ stateHistory' = Without(corrected, previous)
                /\ txChain' = FromAnchor(txChain, pos)
           ELSE UNCHANGED <<settled, stateHistory, txChain>>
    /\ submitted' = Forgotten(pendingProofs, t)
    /\ pendingProofs' = Drop(pendingProofs, t)
    /\ pending' = Published(stateHistory', settled', submitted')
    /\ UNCHANGED <<catchingUp, isReady, todo, replay, proofs, sending>>

\* Mutant: the states of the subsequent transactions are kept.
InvalidatedAlone(t, subsequent) == {t}

\* Mutant: the state of the failed transaction is kept.
InvalidatedOthers(t, subsequent) == ToSet(subsequent)

\* The failure of t invalidates its own state and those built on it.
Invalidated(t, subsequent) == {t} \cup ToSet(subsequent)

\* rollback_and_replay: forget t and the states of everything after it, then replay
\* what follows it.
SettledFailedLive(t) ==
    /\ HearSettled(t)
    /\ ~catchingUp
    /\ t \in ToSet(txChain)
    /\ LET pos == Position(txChain, t)
           subsequent == SubSeq(txChain, pos + 1, Len(txChain))
       IN  /\ stateHistory' = Without(stateHistory, Invalidated(t, subsequent))
           /\ txChain' = RemoveAt(txChain, pos)
           /\ todo' = subsequent
           /\ replay' = IF subsequent = <<>> THEN "none" ELSE "rollback"
    /\ submitted' = Forgotten(pendingProofs, t)
    /\ pendingProofs' = Drop(pendingProofs, t)
    /\ pending' = IF todo' = <<>> THEN Published(stateHistory', settled, submitted')
                  ELSE pending
    /\ UNCHANGED <<settled, catchingUp, isReady, proofs, sending>>

\* Live, and the transaction is not tracked: the event is ignored, whatever it says.
SettledUntracked(t) ==
    /\ HearSettled(t)
    /\ ~catchingUp
    /\ t \notin ToSet(txChain)
    /\ UNCHANGED <<settled, pending, submitted, pendingProofs, catchingUp, isReady,
                   txChain, stateHistory, todo, replay, proofs, sending>>

-----------------------------------------------------------------------------
\* eth_sendRawTransaction.  The payload is decoded, wrapped into a one-blob Hyli
\* transaction and submitted; the handler waits for the node's answer ...
SendRawTransaction(t) ==
    /\ isReady
    /\ Len(Blobs[t]) = 1 /\ Blobs[t][1] \in Decodable
    /\ t \notin sending
    /\ sending' = sending \cup {t}
    /\ UNCHANGED <<settled, pending, submitted, pendingProofs, catchingUp, isReady,
                   txChain, stateHistory, todo, replay, proofs, heard>>

\* ... and records the submission.
RecordSubmission(t) ==
    /\ t \in sending
    /\ submitted' = [submitted EXCEPT ![Blobs[t][1]] = t]
    /\ sending' = sending \ {t}
    /\ UNCHANGED <<settled, pending, pendingProofs, catchingUp, isReady, txChain,
                   stateHistory, todo, replay, proofs, heard>>

\* The server stops and starts again; it persists nothing, and the listener replays
\* settled transactions from the start.
Restart ==
    /\ settled' = Genesis
    /\ pending' = Genesis
    /\ submitted' = [e \in Evm |-> None]
    /\ pendingProofs' = <<>>
    /\ catchingUp' = TRUE
    /\ isReady' = FALSE
    /\ txChain' = <<>>
    /\ stateHistory' = EmptyHistory
    /\ todo' = <<>>
    /\ replay' = "none"
    /\ sending' = {}
    /\ heard' = [t \in Txs |-> "nothing"]
    /\ UNCHANGED proofs

-----------------------------------------------------------------------------
ModuleNext ==
    \/ \E t \in Txs :
        \/ SequencedCatchingUp(t)
        \/ SequencedLive(t)
        \/ SequencedUnprovable(t)
        \/ \E c \in Commitments \cup {NoCommitment} :
            \/ SettledSuccessCatchingUp(t, c)
            \/ SettledSuccessLive(t, c)
        \/ SettledFailedCatchingUp(t)
        \/ SettledFailedLive(t)
        \/ SettledUntracked(t)
        \/ SendRawTransaction(t)
        \/ RecordSubmission(t)
    \/ BackfillComplete
    \/ ReplayTx
    \/ Restart

ModuleSpec == ModuleInit /\ [][ModuleNext]_moduleVars

-----------------------------------------------------------------------------
\* Properties of the module under any listener that reports a transaction at most once as
\* sequenced and once as settled.

ServedStates == {settled, pending} \cup {stateHistory[t].state : t \in DOMAIN stateHistory}

\* Every state the server proves against or serves has the headers of its last blocks,
\* whatever mix of executed, fallback and settled blocks, rollbacks and replays produced
\* it: the next proof chains from the most recent block (push_fallback_header).
HeadersChained == \A s \in ServedStates : Chained(s)

\* A block contains exactly one transaction: no two receipts of a state name the same
\* block (eth_getLogs numbers the transaction of every block 0).
OneTxPerBlock == \A s \in ServedStates : DistinctBlocks(s)

\* Neither tx_chain nor pending_proofs ever holds a transaction twice.
NoDuplicates == IsInjective(txChain) /\ IsInjective(pendingProofs)

=============================================================================
