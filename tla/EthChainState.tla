---------------------------- MODULE EthChainState ----------------------------
(***************************************************************************)
(* The EVM chain state the bridge server keeps for the Hyli-hosted reth    *)
(* contract: server/src/reth_module/eth_chain_state.rs.                    *)
(*                                                                         *)
(* Data is abstracted to what the server's bookkeeping can tell apart:     *)
(*   - an EVM transaction (a raw EIP-2718 payload) is a member of Evm;     *)
(*   - the account map is the sequence of EVM transactions it absorbed     *)
(*     since genesis (a Mark each), which determines its content;          *)
(*   - a state root is the account map it commits to (an injective hash);  *)
(*   - a header keeps its number and its state root.                       *)
(* The block clock is abstracted: executing a transaction is a function of *)
(* the account map and the transaction.                                    *)
(*                                                                         *)
(* The loops over the blobs of one Hyli transaction are given in closed    *)
(* form; EthChainLoops compares them with the loops of the code.           *)
(***************************************************************************)
EXTENDS Integers, FiniteSets, SequencesExt

CONSTANTS
    Txs,         \* Hyli blob transactions, named by their TxId
    Evm,         \* EVM transactions: the payloads of reth blobs
    Blobs,       \* [Txs -> Seq(Evm)]: the reth blobs of a Hyli transaction, in blob order
    Senders,     \* EVM accounts that sign transactions
    Sender,      \* [Evm -> Senders]: the recovered signer
    Nonce,       \* [Evm -> Nat]: the signed nonce
    Decodable,   \* the payloads that decode and whose signer is recovered
    Executable,  \* those the EVM executes when the nonce is right
    Messages,    \* Hyperlane message ids
    MessageOf,   \* [Evm -> Messages \cup {NoMessage}]: the id a process() call delivers
    NoMessage,
    None,        \* no value
    HeaderCap    \* headers kept for BLOCKHASH (256 in the code)

ASSUME EthAssumption ==
    /\ Blobs \in [Txs -> Seq(Evm) \ {<<>>}]
    /\ Sender \in [Evm -> Senders]
    /\ Nonce \in [Evm -> Nat]
    /\ Executable \subseteq Decodable
    /\ Decodable \subseteq Evm
    /\ NoMessage \notin Messages
    /\ MessageOf \in [Evm -> Messages \cup {NoMessage}]
    /\ \A e \in Evm : MessageOf[e] # NoMessage => e \in Decodable
    /\ None \notin Txs /\ None \notin [block_number : Nat, logs : BOOLEAN]
    /\ HeaderCap \in Nat \ {0}

-----------------------------------------------------------------------------
\* A hash map is a total function whose value is None at the keys it does not hold.

Keys(f) == {k \in DOMAIN f : f[k] # None}

\* HashMap::extend: f updated with every binding of g.
Extend(f, g) == [k \in DOMAIN f |-> IF g[k] # None THEN g[k] ELSE f[k]]

-----------------------------------------------------------------------------
\* Types.

\* One transaction absorbed by the account map: executed, or only its sender's
\* nonce overwritten before an execution that failed.
Mark == [tx : Evm, ran : BOOLEAN]

Accounts == Seq(Mark)

Header == [number : Nat, state_root : Accounts]

\* The receipt's success flag is always recorded as true; `logs` tells the logs of
\* an execution from the empty list of a fallback block.
Receipt == [block_number : Nat, logs : BOOLEAN]

EthState == [
    accounts         : Accounts,
    state_root       : Accounts,
    block_number     : Nat,
    header_history   : Seq(Header),
    settled_receipts : [Evm -> Receipt \cup {None}],
    message_id_index : [Messages -> Txs \cup {None}],
    evm_to_hyli_hash : [Evm -> Txs \cup {None}]]

Genesis == [
    accounts         |-> <<>>,
    state_root       |-> <<>>,
    block_number     |-> 0,
    header_history   |-> <<[number |-> 0, state_root |-> <<>>]>>,
    settled_receipts |-> [e \in Evm |-> None],
    message_id_index |-> [m \in Messages |-> None],
    evm_to_hyli_hash |-> [e \in Evm |-> None]]

LatestHeader(s) == Last(s.header_history)

-----------------------------------------------------------------------------
\* Executing the blobs b of one Hyli transaction, in order.

Marks(b) == [i \in 1..Len(b) |-> [tx |-> b[i], ran |-> b[i] \in Executable]]

\* The account map after the first i blobs. Every decodable transaction leaves a
\* mark, executed or not: the nonce is forced before the execution that may fail.
AccountsAfter(s, b, i) == s.accounts \o SubSeq(Marks(b), 1, i)

\* The last blob among the first i that was executed.
LastRun(b, i, j) ==
    /\ b[j] \in Executable
    /\ \A k \in (j + 1)..i : b[k] \notin Executable

\* Mutant: a fallback block, too, gets the root of the accounts.
RootAfterAlways(s, b, i) == AccountsAfter(s, b, i)

\* The state root after the first i blobs: a fallback block keeps the root.
RootAfter(s, b, i) ==
    IF \E j \in 1..i : LastRun(b, i, j)
    THEN AccountsAfter(s, b, CHOOSE j \in 1..i : LastRun(b, i, j))
    ELSE s.state_root

\* Mutant: one header too many.
TrimLate(headers) ==
    IF Len(headers) > HeaderCap + 1
    THEN SubSeq(headers, Len(headers) - HeaderCap, Len(headers))
    ELSE headers

\* Only the last HeaderCap headers are kept.
Trim(headers) ==
    IF Len(headers) > HeaderCap
    THEN SubSeq(headers, Len(headers) - HeaderCap + 1, Len(headers))
    ELSE headers

\* One header per blob, executed or fallback.
NewHeaders(s, b) ==
    [i \in 1..Len(b) |-> [number |-> s.block_number + i, state_root |-> RootAfter(s, b, i)]]

\* Mutant: the first receipt of a payload stays.
FirstOccurrence(b, at, e, i) == i \in at /\ b[i] = e /\ \A j \in at : j < i => b[j] # e

\* The last position of payload e among those of `at`: receipts are keyed by EVM hash,
\* so a payload that occurs twice keeps the later one.
LastOccurrence(b, at, e, i) == i \in at /\ b[i] = e /\ \A j \in at : j > i => b[j] # e

\* Mutant: the receipts are recorded after the last blob, all with its block.
ReceiptsAtEnd(s, b, at) ==
    [e \in Evm |-> IF \E i \in at : b[i] = e
                   THEN [block_number |-> s.block_number + Len(b), logs |-> e \in Executable]
                   ELSE None]

\* record_settled_receipt for the blobs at the positions of `at`.
ReceiptsAt(s, b, at) ==
    [e \in Evm |->
        IF \E i \in at : LastOccurrence(b, at, e, i)
        THEN [block_number |-> s.block_number + (CHOOSE i \in at : LastOccurrence(b, at, e, i)),
              logs         |-> e \in Executable]
        ELSE None]

\* apply_transaction_speculative on each blob, with a fallback block for a blob that
\* fails; a receipt only for those that ran.
ApplySpeculative(s, b) ==
    [s EXCEPT
        !.accounts         = AccountsAfter(s, b, Len(b)),
        !.state_root       = RootAfter(s, b, Len(b)),
        !.block_number     = s.block_number + Len(b),
        !.header_history   = Trim(s.header_history \o NewHeaders(s, b)),
        !.settled_receipts = Extend(s.settled_receipts,
                                ReceiptsAt(s, b, {i \in DOMAIN b : b[i] \in Executable}))]

\* Apply the blobs of a transaction known to have settled: as above, except that the
\* last block is sealed with Hyli's root and that every blob gets a receipt.
ApplySettled(s, b, canonical) ==
    [s EXCEPT
        !.accounts         = AccountsAfter(s, b, Len(b)),
        !.state_root       = canonical,
        !.block_number     = s.block_number + Len(b),
        !.header_history   = Trim(s.header_history \o
                                [NewHeaders(s, b) EXCEPT ![Len(b)].state_root = canonical]),
        !.settled_receipts = Extend(s.settled_receipts, ReceiptsAt(s, b, DOMAIN b))]

\* A block without a transaction, carrying Hyli's root.
FallbackBlock(s, canonical) ==
    [s EXCEPT
        !.state_root     = canonical,
        !.block_number   = s.block_number + 1,
        !.header_history = Trim(Append(s.header_history,
                              [number |-> s.block_number + 1, state_root |-> canonical]))]

-----------------------------------------------------------------------------
\* What a state owes to the functions that read it.

\* A header for each of the last HeaderCap blocks, numbered without gap up to block_number.
Chained(s) ==
    LET n == Len(s.header_history)
    IN  /\ n = IF s.block_number < HeaderCap THEN s.block_number + 1 ELSE HeaderCap
        /\ \A i \in 1..n : s.header_history[i].number = s.block_number - n + i

\* No two receipts name the same block, and none a block the state has not reached.
DistinctBlocks(s) ==
    /\ \A e \in Keys(s.settled_receipts) :
        s.settled_receipts[e].block_number \in 1..s.block_number
    /\ \A e, f \in Keys(s.settled_receipts) :
        s.settled_receipts[e].block_number = s.settled_receipts[f].block_number => e = f

-----------------------------------------------------------------------------
\* Proving.

\* Mutant: a failed execution, too, uses its nonce up.
AccountNonceUsed(accounts, a) ==
    LET own == {i \in DOMAIN accounts :
                  accounts[i].tx \in Decodable /\ Sender[accounts[i].tx] = a}
    IN  IF own = {} THEN 0
        ELSE Nonce[accounts[CHOOSE i \in own : \A j \in own : j <= i].tx] + 1

\* The nonce of account a: one past the last transaction it ran, or the nonce a
\* failed execution left behind.
AccountNonce(accounts, a) ==
    LET own == {i \in DOMAIN accounts :
                  accounts[i].tx \in Decodable /\ Sender[accounts[i].tx] = a}
        last == accounts[CHOOSE i \in own : \A j \in own : j <= i]
    IN  IF own = {} THEN 0
        ELSE Nonce[last.tx] + (IF last.ran THEN 1 ELSE 0)

\* build_stateless_input does not force the nonce: a wrong one fails the build.
Provable(accounts, e) ==
    /\ e \in Executable
    /\ Nonce[e] = AccountNonce(accounts, Sender[e])

\* build_proof_payload succeeds for the i-th blob of b, the blobs before it applied.
BuildsProof(s, b, i) == Provable(AccountsAfter(s, b, i - 1), b[i])

\* Mutant: every blob is proved from the header before the transaction.
ParentRootOfTx(s, b, i) == LatestHeader(s).state_root

\* The header a proof for the i-th blob chains from carries this root.
ParentRoot(s, b, i) ==
    IF i = 1 THEN LatestHeader(s).state_root ELSE RootAfter(s, b, i - 1)

\* The ProofTransactions submitted for the blobs of t at the positions of `at`.
ProofsOf(s, t, at) ==
    {[tx |-> t, blob |-> i, pre |-> AccountsAfter(s, Blobs[t], i - 1),
      parent |-> ParentRoot(s, Blobs[t], i)] : i \in at}

Proof == [tx : Txs, blob : Nat, pre : Accounts, parent : Accounts]

-----------------------------------------------------------------------------
\* Indexes.

\* index_process_message_id for every blob of t: messageId -> Hyli tx hash.
IndexMessages(s, t) ==
    LET delivered == {MessageOf[Blobs[t][i]] : i \in DOMAIN Blobs[t]}
    IN  [s EXCEPT !.message_id_index =
            Extend(@, [m \in Messages |-> IF m \in delivered THEN t ELSE None])]

=============================================================================
