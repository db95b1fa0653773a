---------------------------- MODULE EthChainLoops ----------------------------
(***************************************************************************)
(* The loops of the code over the blobs of one Hyli transaction, as they   *)
(* run, for comparison with the closed forms of EthChainState: on every    *)
(* state that a mix of speculative, settled and fallback blocks reaches,   *)
(* and for every sequence of blobs, repeated and failing ones included.    *)
(***************************************************************************)
EXTENDS EthChainState

CONSTANTS
    Roots,     \* roots that Hyli may report, right or wrong
    MaxBatch,  \* blobs of one transaction
    MaxBlock   \* no block is built on a state with this many blocks

ASSUME LoopsAssumption ==
    /\ Roots \subseteq Accounts
    /\ MaxBatch \in Nat
    /\ MaxBlock \in Nat

-----------------------------------------------------------------------------
\* The code's loops.

Push(headers, h) ==
    IF Len(headers) + 1 > HeaderCap THEN Append(Tail(headers), h) ELSE Append(headers, h)

\* apply_transaction_speculative, and the fallback of its callers when it fails.
ApplyOne(s, e) ==
    LET ran == e \in Executable
        acc == Append(s.accounts, [tx |-> e, ran |-> ran])
        root == IF ran THEN acc ELSE s.state_root
    IN  [s EXCEPT
            !.accounts = acc,
            !.state_root = root,
            !.block_number = @ + 1,
            !.header_history = Push(@, [number |-> s.block_number + 1, state_root |-> root])]

\* apply_transaction, or the fallback with Hyli's root.
ApplyLast(s, e, canonical) ==
    [s EXCEPT
        !.accounts = Append(@, [tx |-> e, ran |-> e \in Executable]),
        !.state_root = canonical,
        !.block_number = @ + 1,
        !.header_history = Push(@, [number |-> s.block_number + 1, state_root |-> canonical])]

Record(s, e) ==
    [s EXCEPT !.settled_receipts[e] =
        [block_number |-> s.block_number, logs |-> e \in Executable]]

\* The state after each blob of handle_sequenced_tx: a receipt for those that ran.
SpeculativeLoop(s, b) ==
    LET after[i \in 0..Len(b)] ==
            IF i = 0 THEN s
            ELSE IF b[i] \in Executable THEN Record(ApplyOne(after[i - 1], b[i]), b[i])
            ELSE ApplyOne(after[i - 1], b[i])
    IN  after[Len(b)]

\* The state after each blob of settle_success_catching_up: Hyli's root with the last one.
SettledLoop(s, b, canonical) ==
    LET after[i \in 0..Len(b)] ==
            IF i = 0 THEN s
            ELSE IF i = Len(b) THEN Record(ApplyLast(after[i - 1], b[i], canonical), b[i])
            ELSE Record(ApplyOne(after[i - 1], b[i]), b[i])
    IN  after[Len(b)]

\* The nonce the account map holds: forced before every execution, one more after it.
NonceLoop(accounts, a) ==
    LET nonce[i \in 0..Len(accounts)] ==
            IF i = 0 THEN 0
            ELSE IF accounts[i].tx \in Decodable /\ Sender[accounts[i].tx] = a
                 THEN Nonce[accounts[i].tx] + (IF accounts[i].ran THEN 1 ELSE 0)
                 ELSE nonce[i - 1]
    IN  nonce[Len(accounts)]

-----------------------------------------------------------------------------
Batches == UNION {[1..n -> Evm] : n \in 1..MaxBatch}

VARIABLE state

Init == state = Genesis

Speculate == \E b \in Batches : state' = ApplySpeculative(state, b)

Settle == \E b \in Batches, c \in Roots : state' = ApplySettled(state, b, c)

Fallback == \E c \in Roots : state' = FallbackBlock(state, c)

Next ==
    /\ state.block_number < MaxBlock
    /\ Speculate \/ Settle \/ Fallback

Spec == Init /\ [][Next]_state

-----------------------------------------------------------------------------
\* Properties.

\* Executing the blobs of a transaction at once is executing them one after the other, as
\* handle_sequenced_tx does.
SpeculativeIsLoop == \A b \in Batches : ApplySpeculative(state, b) = SpeculativeLoop(state, b)

\* Settling the blobs at once is the loop of settle_success_catching_up.
SettledIsLoop ==
    \A b \in Batches, c \in Roots : ApplySettled(state, b, c) = SettledLoop(state, b, c)

\* Every nonce is the one a pass over the executed transactions leaves.
NonceIsLoop == \A a \in Senders : AccountNonce(state.accounts, a) = NonceLoop(state.accounts, a)

\* The state a proof of the i-th blob starts from, and the header it chains from, are those
\* the speculative execution of the blobs before it leaves: "blob[i+1] is proved against
\* the post-state of blob[i]" (reth_module.rs:227).
ProvedAgainstPostState ==
    \A b \in Batches : \A i \in 2..Len(b) :
        LET after == SpeculativeLoop(state, SubSeq(b, 1, i - 1))
        IN  /\ BuildsProof(state, b, i) <=> Provable(after.accounts, b[i])
            /\ ParentRoot(state, b, i) = LatestHeader(after).state_root

=============================================================================
