------------------------------ MODULE RethViews ------------------------------
(***************************************************************************)
(* What the JSON-RPC interface shows of RethModule's states, and what its  *)
(* readers rely on: server/src/reth_module/handlers.rs.  A request reads   *)
(* the settled state or submitted_txs at one moment, and only when the     *)
(* server is ready.                                                        *)
(*                                                                         *)
(* Requests change nothing, so the views are operators on the state.       *)
(* Formatting and the decoding of parameters are left out.                 *)
(***************************************************************************)
EXTENDS RethSystem

\* eth_getTransactionReceipt, eth_getTransactionByHash: the settled receipt, if any; a
\* submission that has not settled has none.
GetTransactionReceipt(e) == settled.settled_receipts[e]

\* Mutant: any number without a header is served as a copy of the last block.
GetBlockByNumberOrLast(n) ==
    LET kept == {h \in ToSet(settled.header_history) : h.number = n}
    IN  IF kept # {} THEN CHOOSE h \in kept : TRUE
        ELSE [LatestHeader(settled) EXCEPT !.number = n]

\* eth_getBlockByNumber for a number: the block after the last settled one is announced by
\* eth_blockNumber, and served as a copy of the last one.
GetBlockByNumber(n) ==
    LET kept == {h \in ToSet(settled.header_history) : h.number = n}
    IN  IF kept # {} THEN CHOOSE h \in kept : TRUE
        ELSE IF n = settled.block_number + 1
             THEN [LatestHeader(settled) EXCEPT !.number = n]
        ELSE None

\* hyli_getTxByMessageId reads the settled state.
GetTxByMessageId(m) == settled.message_id_index[m]

\* hyli_getHyliHash: submitted_txs first, then the settled state.
GetHyliHash(e) == IF submitted[e] # None THEN submitted[e] ELSE settled.evm_to_hyli_hash[e]

\* state_for_view: "pending" is the published snapshot, everything else the settled state.
StateFor(view) == IF view = "pending" THEN pending ELSE settled

\* The nonces that the submissions without a settled receipt use.
SubmittedNonce(a) ==
    Max({0} \cup {Nonce[e] + 1 : e \in
                    {f \in Keys(submitted) \cap Decodable :
                        Sender[f] = a /\ settled.settled_receipts[f] = None}})

\* eth_getTransactionCount
GetTransactionCount(a, view) ==
    Max({AccountNonce(StateFor(view).accounts, a),
         IF view = "pending" THEN SubmittedNonce(a) ELSE 0})

-----------------------------------------------------------------------------
\* Properties.

\* Receipts are final: a transaction has one exactly when Hyli executed it, and its block
\* is the transaction's place in the canonical chain, whether it was settled live, while
\* catching up, or again after a restart.
ReceiptsAreCanonical ==
    isReady /\ ~skipped =>
        \A e \in Evm :
            LET places == {i \in DOMAIN told : told[i].tx = e}
            IN  GetTransactionReceipt(e) =
                    IF places = {} THEN None
                    ELSE [block_number |-> Max(places), logs |-> TRUE]

\* A settled block is Hyli's: none is ahead of Hyli's chain, and up to the last settled number,
\* the recent ones are answered with the root that chain has at that place, the older ones not
\* at all.  The chain only grows, and no stop of the server touches it: a block is the same
\* before and after a restart.  The next number, which eth_blockNumber announces, is left out:
\* its answer is a copy of the last block, root included, and is replaced by another one when
\* that block is made (handlers.rs:219-225).
BlocksAreCanonical ==
    isReady /\ ~skipped =>
        /\ settled.block_number <= Len(ledger)
        /\ \A n \in 0..settled.block_number :
            GetBlockByNumber(n) =
                IF n + HeaderCap > settled.block_number
                THEN [number |-> n, state_root |-> SubSeq(ledger, 1, n)]
                ELSE None

\* Settled blocks are final: while the server answers, no step of anyone - a settlement, a
\* rollback, the replay after it - lets a client find another block under a number it had
\* found a settled one under; at most the block is no longer kept.
BlocksAreFinal ==
    [][isReady /\ isReady' /\ ~skipped' =>
        \A n \in 0..settled.block_number :
            GetBlockByNumber(n)' \in {GetBlockByNumber(n), None}]_vars

\* A wallet that asks for its next nonce is told one that is not used up: between two events,
\* the "pending" count, which is read from another snapshot and from the submissions, is
\* behind the "latest" one only while a transaction in flight signed with a used nonce forces
\* it back; rollbacks, replays and settlements never leave it behind.  (While a rollback is
\* being replayed, the snapshot still shows what the rollback takes back.)
NonceBehindOnlyIfStale ==
    isReady /\ Idle /\ ~skipped =>
        \A a \in Senders :
            LET latest == GetTransactionCount(a, "latest")
            IN  GetTransactionCount(a, "pending") < latest =>
                    \E t \in ToSet(InFlight) : \E e \in ToSet(Blobs[t]) :
                        Sender[e] = a /\ Nonce[e] < latest

\* The memory of the speculation is bounded by what is in flight: once live, a settled
\* transaction keeps its state only as the anchor of tx_chain, and nothing that left
\* tx_chain leaves a state behind, so only what was settled during catch-up stays.
Leftovers == DOMAIN stateHistory \ ToSet(txChain)

LiveLeavesNothing == [][~catchingUp => Leftovers' \subseteq Leftovers]_vars

\* tx_chain holds what is in flight, in Hyli's order, and before it at most one settled
\* transaction, the anchor ("sequenced but not yet settled", reth_module.rs:69).
OneAnchor ==
    ~skipped =>
        /\ \A i \in DOMAIN txChain : i > 1 => heard[txChain[i]] # "settled"
        /\ catchingUp => InFlight = txChain
        /\ \A i, j \in DOMAIN txChain : i < j => txChain[i] \in Before(txChain[j])

\* Every state the server has speculated is the execution of its transaction on that of the
\* transaction before it in tx_chain, and the oldest one on the settled state, whatever was
\* rolled back, replayed or settled in between, and whichever of them fail.
SpeculationIsChained ==
    ~catchingUp /\ Idle /\ ~skipped =>
        \A i \in DOMAIN txChain :
            /\ txChain[i] \in DOMAIN stateHistory
            /\ heard[txChain[i]] # "settled" =>
                LET base == IF i = 1 THEN settled ELSE stateHistory[txChain[i - 1]].state
                    executed == ApplySpeculative(base, Blobs[txChain[i]])
                IN  [stateHistory[txChain[i]].state EXCEPT !.message_id_index = <<>>]
                        = [executed EXCEPT !.message_id_index = <<>>]

=============================================================================
