----------------------------- MODULE RethSystem -----------------------------
(***************************************************************************)
(* RethModule with what surrounds it: the Hyli node, the contract listener *)
(* that reports the node's transactions, and a JSON-RPC client.            *)
(*                                                                         *)
(* The node and the listener are external and modelled from how            *)
(* src/server uses them.  Hyli sequences transactions one after the other  *)
(* and settles those of one contract in that order: each succeeds, fails   *)
(* or times out (the server treats the last two alike).  A transaction     *)
(* succeeds only if every reth blob has a proof that starts from the       *)
(* contract's committed state.  The listener reports sequencing and        *)
(* settlement in order; a (re)started listener first replays the settled   *)
(* transactions, then ends the backfill.                                   *)
(*                                                                         *)
(* The client is an event indexer, such as the Hyperlane relayer: it asks  *)
(* for the block number, then for the logs up to that block.               *)
(***************************************************************************)
EXTENDS RethModule

CONSTANTS
    OtherProvers,  \* TRUE: proofs may also come from elsewhere on the network
    MaxRestarts    \* how often the server restarts

ASSUME SystemAssumption ==
    /\ OtherProvers \in BOOLEAN
    /\ MaxRestarts \in Nat

VARIABLES
    order,       \* the transactions Hyli sequenced, in order
    status,      \* what became of each transaction
    ledger,      \* the reth contract's state: the transactions executed since genesis
    commitment,  \* the state commitment reported with a successful transaction
    backlog,     \* transactions Hyli had sequenced when the listener (re)started
    told,        \* the last commitment reported to this run of the server
    skipped,     \* this run of the server was told of a success and ignored it
    restarts,
    tip,         \* the client: the last eth_blockNumber answer
    cursor,      \* the client: the first block it has not asked the logs of
    indexed      \* the client: the EVM transactions whose logs it received

hyliVars == <<order, status, ledger, commitment>>
listenerVars == <<backlog, told, skipped, restarts>>
clientVars == <<tip, cursor, indexed>>
vars == <<moduleVars, hyliVars, listenerVars, clientVars>>

Settled == {"success", "failed"}

SystemTypeOK ==
    /\ TypeOK
    /\ order \in Seq(Txs)
    /\ status \in [Txs -> {"unknown", "sequenced"} \cup Settled]
    /\ ledger \in Accounts
    /\ commitment \in [Txs -> Accounts \cup {NoCommitment}]
    /\ backlog \subseteq Txs
    /\ told \in Accounts
    /\ skipped \in BOOLEAN
    /\ restarts \in 0..MaxRestarts
    /\ tip \in Nat
    /\ cursor \in Nat
    /\ indexed \subseteq Evm

Init ==
    /\ ModuleInit
    /\ order = <<>>
    /\ status = [t \in Txs |-> "unknown"]
    /\ ledger = <<>>
    /\ commitment = [t \in Txs |-> NoCommitment]
    /\ backlog = {}
    /\ told = <<>>
    /\ skipped = FALSE
    /\ restarts = 0
    /\ tip = 0
    /\ cursor = 0
    /\ indexed = {}

-----------------------------------------------------------------------------
\* The Hyli node.

Before(t) == {order[j] : j \in {j \in DOMAIN order : \E i \in DOMAIN order : order[i] = t /\ j < i}}

\* Every blob of t has a proof that starts from the state the blobs before it left and
\* chains from a header with that state's root.
Proved(t) ==
    \A i \in DOMAIN Blobs[t] :
        LET pre == ledger \o SubSeq(Marks(Blobs[t]), 1, i - 1)
        IN  [tx |-> t, blob |-> i, pre |-> pre, parent |-> pre] \in proofs

\* Another prover can prove the blobs of t on the committed state.
ProvableAnywhere(t) ==
    \A i \in DOMAIN Blobs[t] :
        Provable(ledger \o SubSeq(Marks(Blobs[t]), 1, i - 1), Blobs[t][i])

HyliSequences(t) ==
    /\ status[t] = "unknown"
    /\ order' = Append(order, t)
    /\ status' = [status EXCEPT ![t] = "sequenced"]
    /\ UNCHANGED <<moduleVars, ledger, commitment, listenerVars, clientVars>>

NextToSettle(t) ==
    /\ status[t] = "sequenced"
    /\ \A u \in Before(t) : status[u] \in Settled

HyliSettlesSuccess(t) ==
    /\ NextToSettle(t)
    /\ Proved(t) \/ (OtherProvers /\ ProvableAnywhere(t))
    /\ status' = [status EXCEPT ![t] = "success"]
    /\ ledger' = ledger \o Marks(Blobs[t])
    /\ commitment' = [commitment EXCEPT ![t] = ledger']
    /\ UNCHANGED <<moduleVars, order, listenerVars, clientVars>>

HyliSettlesFailed(t) ==
    /\ NextToSettle(t)
    /\ status' = [status EXCEPT ![t] = "failed"]
    /\ UNCHANGED <<moduleVars, order, ledger, commitment, listenerVars, clientVars>>

-----------------------------------------------------------------------------
\* The listener reports to RethModule.

\* During the backfill only transactions still in 'sequenced' state are reported so.
ReportSequenced(t) ==
    /\ status[t] \in {"sequenced"} \cup (IF catchingUp THEN {} ELSE Settled)
    /\ \A u \in Before(t) : heard[u] # "nothing"
    /\ SequencedCatchingUp(t) \/ SequencedLive(t) \/ SequencedUnprovable(t)
    /\ UNCHANGED <<hyliVars, listenerVars, clientVars>>

ReportSuccess(t) ==
    /\ status[t] = "success"
    /\ \A u \in Before(t) : heard[u] = "settled"
    /\ \/ SettledSuccessCatchingUp(t, commitment[t]) /\ UNCHANGED skipped
       \/ SettledSuccessLive(t, commitment[t]) /\ UNCHANGED skipped
       \/ SettledUntracked(t) /\ skipped' = TRUE
    /\ told' = commitment[t]
    /\ UNCHANGED <<hyliVars, backlog, restarts, clientVars>>

ReportFailed(t) ==
    /\ status[t] = "failed"
    /\ \A u \in Before(t) : heard[u] = "settled"
    /\ SettledFailedCatchingUp(t) \/ SettledFailedLive(t) \/ SettledUntracked(t)
    /\ UNCHANGED <<hyliVars, listenerVars, clientVars>>

\* The backfill ends after every transaction sequenced before it began was reported: as
\* settled, or as sequenced if it had not settled.
EndBackfill ==
    /\ \A t \in backlog : heard[t] # "nothing"
    /\ BackfillComplete
    /\ UNCHANGED <<hyliVars, listenerVars, clientVars>>

Replay ==
    /\ ReplayTx
    /\ UNCHANGED <<hyliVars, listenerVars, clientVars>>

ServerRestart ==
    /\ restarts < MaxRestarts
    /\ Restart
    /\ restarts' = restarts + 1
    /\ backlog' = ToSet(order)
    /\ told' = <<>>
    /\ skipped' = FALSE
    /\ UNCHANGED <<hyliVars, clientVars>>

-----------------------------------------------------------------------------
\* The JSON-RPC client.

\* A wallet submits a transaction the network does not know yet.
Submit(t) ==
    /\ status[t] = "unknown"
    /\ SendRawTransaction(t)
    /\ UNCHANGED <<hyliVars, listenerVars, clientVars>>

Record(t) ==
    /\ RecordSubmission(t)
    /\ UNCHANGED <<hyliVars, listenerVars, clientVars>>

\* Mutants: a number behind the last settled block; a request served before the server is
\* ready.
PollTipBehind ==
    /\ isReady
    /\ tip' = settled.block_number - 1
    /\ UNCHANGED <<moduleVars, hyliVars, listenerVars, cursor, indexed>>

PollTipUnguarded ==
    /\ tip' = settled.block_number + 1
    /\ UNCHANGED <<moduleVars, hyliVars, listenerVars, cursor, indexed>>

\* eth_blockNumber: one more than the last settled block.
PollTip ==
    /\ isReady
    /\ tip' = settled.block_number + 1
    /\ UNCHANGED <<moduleVars, hyliVars, listenerVars, cursor, indexed>>

\* Mutant: the first block asked for is left out.
LogsAfter(s, from, to) ==
    {e \in Keys(s.settled_receipts) :
        /\ s.settled_receipts[e].block_number + 1 > from
        /\ s.settled_receipts[e].block_number < to
        /\ s.settled_receipts[e].logs}

\* The logs of the blocks from..to: reported block numbers, too, are one more.
LogsOf(s, from, to) ==
    {e \in Keys(s.settled_receipts) :
        /\ s.settled_receipts[e].block_number + 1 >= from
        /\ s.settled_receipts[e].block_number < to
        /\ s.settled_receipts[e].logs}

\* eth_getLogs on the settled state, for the blocks up to the tip.
PollLogs ==
    /\ isReady
    /\ cursor <= tip
    /\ indexed' = indexed \cup LogsOf(settled, cursor, tip)
    /\ cursor' = tip + 1
    /\ UNCHANGED <<moduleVars, hyliVars, listenerVars, tip>>

-----------------------------------------------------------------------------
Next ==
    \/ \E t \in Txs :
        \/ HyliSequences(t)
        \/ HyliSettlesSuccess(t)
        \/ HyliSettlesFailed(t)
        \/ ReportSequenced(t)
        \/ ReportSuccess(t)
        \/ ReportFailed(t)
        \/ Submit(t)
        \/ Record(t)
    \/ EndBackfill
    \/ Replay
    \/ ServerRestart
    \/ PollTip
    \/ PollLogs

Spec == Init /\ [][Next]_vars

-----------------------------------------------------------------------------
\* Properties.

\* The elements of seq that are in S, in order.
Kept(seq, S) ==
    LET kept[i \in 0..Len(seq)] ==
            IF i = 0 THEN <<>>
            ELSE IF seq[i] \in S THEN Append(kept[i - 1], seq[i])
            ELSE kept[i - 1]
    IN  kept[Len(seq)]

\* The settled state is the committed state Hyli reported last, in every respect the
\* server and its clients rely on: the accounts, the root, the root in the header the next
\* proof chains from, and a block number that counts the settled EVM transactions.
SettledIsCanonical ==
    ~skipped =>
        /\ settled.accounts = told
        /\ settled.state_root = told
        /\ LatestHeader(settled).state_root = told
        /\ settled.block_number = Len(told)

\* The transactions in flight: tracked and not settled, in sequencing order.
InFlight == Kept(txChain, {t \in Txs : heard[t] # "settled"})

\* Once live and between two events, the speculative state is the committed state
\* followed by exactly the transactions in flight, in order: a rolled-back transaction
\* leaves no trace and none in flight is lost, whatever was replayed.
SpeculationIsInFlight ==
    ~catchingUp /\ Idle /\ ~skipped =>
        LET current == IF DOMAIN stateHistory = {} THEN Genesis ELSE CurrentState(stateHistory)
        IN  current.accounts =
                told \o FlattenSeq([i \in DOMAIN InFlight |-> Marks(Blobs[InFlight[i]])])

\* Once live and between two events, the next transaction to settle has been proved from
\* the committed state, if it can be: rollbacks re-prove what they invalidate.
NextInFlightProved ==
    ~catchingUp /\ Idle /\ ~skipped /\ InFlight # <<>> =>
        LET t == Head(InFlight)
            pre(i) == told \o SubSeq(Marks(Blobs[t]), 1, i - 1)
        IN  (\A i \in DOMAIN Blobs[t] : Provable(pre(i), Blobs[t][i])) =>
                \A i \in DOMAIN Blobs[t] :
                    [tx |-> t, blob |-> i, pre |-> pre(i), parent |-> pre(i)] \in proofs

\* When the server is the only prover, it tracks every transaction that succeeds: the
\* ones it drops because no proof can be built never settle successfully.
NeverSkips == ~skipped

\* An indexer that follows eth_blockNumber and asks eth_getLogs for each block once has
\* the logs of every transaction in the blocks behind its cursor, across rollbacks and
\* restarts of the server: settled block numbers are final.
IndexerMissesNothing ==
    \A i \in DOMAIN ledger : i + 1 < cursor => ledger[i].tx \in indexed

\* eth_blockNumber never goes backwards, not even across a restart.
TipNeverDecreases == [][tip' >= tip]_vars

\* The settled state implements the abstract chain: only whole transactions that succeeded,
\* in Hyli's order, none twice and none left out; only a restart takes it back.
ExecutionOf(t) == Marks(Blobs[t])

Ledger == INSTANCE EvmLedger WITH
    Effect   <- ExecutionOf,
    log      <- Kept(order, {t \in Txs : status[t] = "success"}),
    accounts <- settled.accounts,
    open     <- isReady

ImplementsLedger == Ledger!LedgerSpec

=============================================================================
