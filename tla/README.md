# Verification of hyli-hyperlane-bridge

TLA+ models of the Hyli–Hyperlane bridge, the TLC configurations that check
them on small instances, and TLAPS proofs. Paths are relative to the
repository root.

## 1. The system

The bridge hosts an EVM chain as a contract of the Hyli network. Hyli sequences
and settles *blob transactions*; each reth blob of one carries an EVM
transaction, and a transaction that touches the contract settles only with a
proof, made by re-executing the EVM transaction on the state it starts from.
The server in `server/` follows Hyli, executes and proves, and shows the result
as an ordinary Ethereum JSON-RPC endpoint, which Hyperlane's agents and a web
page in `front/` use.

### Components

| component | source | state | operations |
|---|---|---|---|
| **EthChainState** | `server/src/reth_module/eth_chain_state.rs` | accounts, state root, block number, last 256 headers, receipts, message index, EVM→Hyli hash map | execute speculatively, build a proof, record a settled receipt, push a fallback block, index messages, read views |
| **RethModule** | `server/src/reth_module.rs` | settled state (locked, shared), published pending snapshot, `submitted_txs`, `pending_proofs`, `tx_chain`, `state_history`, `catching_up`, `is_ready` | `handle_sequenced_tx`, `handle_backfill_complete`, `handle_settled_tx` (success and failure, catching up and live), `rollback_and_replay`, `try_prove`, `publish_pending_rpc_state` |
| **JSON-RPC handlers** | `server/src/reth_module/handlers.rs` | none of their own; they share the module's locks | `eth_sendRawTransaction` and reads of the settled and pending states |
| **Start-up** | `server/src/main.rs`, `init.rs`, `conf.rs` | none persisted | register two contracts if missing, build the modules, run |
| **Bridge policy** | `contracts/hyperlane-bridge/` | a contract name, constant | a stateless check (no contract creation), proved in a zkVM by an external AutoProver |
| **useBridge** | `front/src/hooks/useBridge.ts`, `front/src/components/` | the status of one transfer, a ref with its hashes, timers and loops | `bridge`, `reset`, swap of direction, four React effects |
| Hyli node, contract listener | external crates | sequencing order, settled states | report sequenced and settled transactions, replay settled ones after a restart |
| Hyperlane relayer and validator | external | | follow `eth_blockNumber` and `eth_getLogs`, submit `process()` |

### Interaction

The listener's events (`SequencedTx`, `BackfillComplete`, `SettledTx`) reach
`RethModule` through the module bus, one at a time; the handlers await only
the submission of proofs. JSON-RPC handlers run on other tasks and share
`settled_eth_chain_state`, `pending_eth_chain_state`, `submitted_txs` and
`is_ready` with it. `RethModule` sends proofs to the node, which decides the
outcome and, through the listener, tells. The front end talks to the source
chain through the wallet, to the bridge server, to Hyli's indexer (another
server) and to a Sepolia node; it polls all of them.

### What is hard

* Speculation: every proof is made on a state that supposes all earlier
  transactions in flight succeed; any of them may fail or time out.
* Two modes: while catching up, settled transactions are applied directly and
  others buffered; live, states computed at sequencing are promoted at
  settlement. A transaction may be sequenced in one mode and settle in the other.
* Several EVM transactions in one Hyli transaction: all settle or none, but each
  has its own proof and its own block.
* Nothing is persisted: a restart rebuilds chain, block numbers and receipts,
  while clients remember old ones.
* Before any of this the server must find its two contracts registered, by itself or by
  another server, through requests that fail and a wait that times out; Hyli goes on
  meanwhile.
* A handler waits in the middle of a replay, and `eth_sendRawTransaction`
  between submission and recording, while other tasks read and write.
* In the front end, answers to cancelled requests, timers and React's effects
  race each other over one status.

### What makes each component correct

* EthChainState: the loops over a transaction's blobs leave gapless headers, one
  transaction per block, and a parent header that matches the pre-state of every
  proof.
* RethModule: the settled state is Hyli's committed state; the speculative state is
  that state plus exactly the transactions in flight, in order; the next
  transaction to settle is proved on the right state; buffers drain.
* The settled chain, to its readers: an execution of whole, successful
  transactions in Hyli's order which only a restart takes back; an indexer
  misses no log; the block number never goes down.
* Start-up: the modules run only on registered contracts, registered in order; a server
  that is down comes up.
* Bridge policy: what it rejects leaves no trace in the settled state, though the server
  executes it first.
* useBridge: what is shown belongs to the transfer on display, success and
  failure are true, and every wait ends.

`PROJECT.json` lists the hazards, each at its line, with the properties aimed at it.

## 2. Modules

| module | models | extends / composes |
|---|---|---|
| `EthChainState` | `eth_chain_state.rs`: states and operators | |
| `EthChainLoops` | the code's loops over the blobs, compared with the closed forms of `EthChainState` | `EthChainState` |
| `EthChainStateMC` | its instance | `EthChainLoops` |
| `RethModule` | `reth_module.rs`: state machine under a listener that reports each transaction at most once as sequenced and once as settled | `EthChainState` |
| `RethModuleMC` | instance | `RethModule` |
| `EvmLedger` | abstract specification of the settled chain | |
| `RethSystem` | `RethModule` with Hyli, the listener, restarts and an indexing client; properties; refinement of `EvmLedger` | `RethModule`, `INSTANCE EvmLedger` |
| `RethViews` | what JSON-RPC requests read of those states, and what readers rely on | `RethSystem` |
| `RethClaims` | what comments and tests say and the code does not do | `RethViews` |
| `RethSystemMC` | instance of both | `RethClaims` |
| `InitContracts` | `init.rs`: the registration of the contracts, the life of the process | |
| `BridgePolicy` | the policy contract and its prover's handler | `EthChainState` |
| `BridgeServer` | `main.rs`: start-up, modules, node and policy together; liveness | `RethViews`, `InitContracts`, `BridgePolicy` |
| `BridgeServerMC` | its instances | `BridgeServer` |
| `UseBridge`, `UseBridgeMC` | `useBridge.ts`, its instance | |
| `EthChainState_proofs`, `EthChainLoops_proofs`, `RethModule_proofs` | theorems on single states, on the loops, on the module | the module of the name, `TLAPS` |
| `RethSystem_proofs` | theorems on types, the node and the listener | `RethSystem`, `RethModule_proofs` |
| `RethTracking_proofs` | on what is tracked against what Hyli sequenced | `RethViews`, `RethSystem_proofs` |
| `RethCanonical_proofs` | on the settled and the speculative states; the refinement | `RethTracking_proofs` |
| `BridgeServer_proofs` | on the start-up, the deployed server, the policy | `BridgeServer`, `RethCanonical_proofs` |
| `UseBridge_proofs` | on the hook | `UseBridge`, `TLAPS` |

Definitions whose comment begins with *Mutant*, or that stand directly before
the definition they vary, are plausible bugs used to test the properties: each
property is violated when its mutant replaces the definition.

### EthChainState

The EVM is not modelled. An account map is *the sequence of EVM transactions it
absorbed*, a mark each: executed, or only the nonce overwritten (the code forces
`accounts[signer].nonce = tx.nonce()` before an execution that may then fail). A
root is the map it commits to, that is, roots are injective and execution is a
function of map and transaction; the block clock is abstracted. Whether an execution with the
nonce forced succeeds is a constant of the transaction (`Executable`): what the bridge
itself computes with the account map is the nonce, and that is modelled. A payload that
does not decode leaves a mark that changes no nonce. A header is its number and
root. `HeaderCap` stands for 256. A receipt keeps its block number and whether
it has logs; its success flag is always true in the code.

`Provable` is what `build_stateless_input` requires: the payload decodes, and the
execution on the *unforced* account map succeeds, so the nonce must be right.
`ApplySpeculative`, `ApplySettled` and `ProofsOf` give the loops over the blobs
of a transaction in closed form, which the other modules and their proofs use.
`EthChainLoops` has the loops as the code runs them (recursive functions) and a chain of
speculative, settled and fallback blocks, on which run `eth_loops` compares the two.

### RethModule

One action per handler and mode:

| action | code |
|---|---|
| `SequencedCatchingUp`, `SequencedLive`, `SequencedUnprovable` | `handle_sequenced_tx`: buffer; prove and execute; give up and roll back |
| `BackfillComplete`, then `ReplayTx` per buffered transaction | `handle_backfill_complete` |
| `SettledSuccessCatchingUp`, `SettledFailedCatchingUp` | `settle_*_catching_up`, also for transactions never reported as sequenced |
| `SettledSuccessLive` | `settle_success_live`: promote the history entry, trim |
| `SettledFailedLive`, then `ReplayTx` | `rollback_and_replay` |
| `SettledUntracked` | the early return of `handle_settled_tx` |
| `SendRawTransaction`, `RecordSubmission` | `eth_sendRawTransaction`, before and after the node's answer |
| `Restart` | a new process |

The replays await the submission of each transaction's proofs: `todo` holds what is left,
and other tasks' actions interleave. The live `handle_sequenced_tx` awaits that of each blob,
too (`reth_module.rs:232`), and is one step all the same: until it publishes at its end, other
tasks see nothing of what it changed but the message index, which it writes first; the
listener's next event waits for it; and what the node does with the first proofs in the
meantime it may as well do after the step. A crash in the middle leaves at most some of the
proofs, which the next process makes again. The other handlers do not wait.

`stateHistory` is a function with ranks, the positions of the
`IndexMap`, so that `get_current_state` (last entry, else genesis) is exact.
Transactions without reth blobs change nothing and are left out.

### RethSystem

Hyli sequences blob transactions (from this server or anyone), settles those of one
contract in that order, each with success, failure or timeout. Success needs,
for every blob, a proof from the committed state, or, with `OtherProvers`, that
such a proof can be made at all. That Hyli may always fail or time out a
transaction covers lost proof submissions and a bridge policy that rejects. The
listener reports in order; after a (re)start it reports everything settled or
sequenced before, then the end of the backfill. The client polls
`eth_blockNumber` and `eth_getLogs`.

`told` and `skipped` are history variables: the last commitment the listener
reported, and whether the server ignored a success.

### RethViews

Requests change nothing, so a view is an operator on the state at one moment: receipts
(`GetTransactionReceipt`), blocks by number with the synthetic one that `eth_blockNumber`
announces as a copy of the last one (`GetBlockByNumber`), the next nonce of an account (`GetTransactionCount`, from the
settled state, or from the pending snapshot and the submissions), and the two `hyli_` lookups. A block is its number and
root; hashes are not modelled. Settled blocks are Hyli's (`BlocksAreCanonical`, across
restarts) and final (`BlocksAreFinal`, over every step). The announced one is neither: when the
next transaction settles, another block takes its number, with another root
(`handlers.rs:219-225`). A client that reads the announced block sees it replaced; that its
number is overridden "so ethers-rs doesn't see a fake reorg" (`handlers.rs:204-206`) holds of
the number only.

### InitContracts

`boot` is where the process is and `step` the contract it deals with. `get_contract` may
fail at any time, and any error leads to a registration; a registration that is refused and
a wait that times out end the process. The node (`requests`, `registered`) carries out an
accepted registration later or loses it, and other servers register the same contracts. A
wait that polls in vain changes nothing, so `WaitTimeout` may come at any time.

### BridgePolicy and BridgeServer

The policy looks at the first reth blob of a transaction and rejects one that creates a
contract. Its state, a contract name, is constructed by the AutoProver
(`ConstructState`, the default name as no metadata is registered) and must have the commitment
that `init_contracts` registered (`InitialCommitment`).

`BridgeServer` conjoins the steps of `RethSystem`, `InitContracts` and the node: the listener,
the replays and the RPC exist only while the process runs; a restart is a stop, and the way up leads
through the registration again; the listener then starts with what Hyli sequenced
by that time (`StartsUp`). A transaction is sequenced once the contracts of its blobs exist, and
one that carries a bridge blob succeeds only with the policy's proof (`Succeeds`).

### UseBridge

The hook's status, its ref (`relayInfo`, an object per transfer), the calls in
progress and the loops of the two polling effects. `Flush` is React running
cleanups and effects after a render, at any time after the status or direction
changed; a cancelled loop still receives the answer it waits for. Render and
effects are one step, so a status that React renders while the effects of the
previous one are still due is not distinguished. User actions are those that the
buttons offer for the rendered status. Chains, servers and relayer may answer
anything true at any time, or nothing. One page; it is not unmounted.

`intruded` is a history variable. A loop that was cancelled may still set the status when it
is told of a failure (`useBridge.ts:251` does not look at `cancelled`); if a `bridge()` call
is waiting for the wallet at that moment, the form becomes usable under it, and the call
interferes with what the user does next: after a swap the transfer is watched on the wrong
chain, and two calls may run at once. `WatchIsLive`, `OwnStatus` and `OwnDirection` fail
in those runs and are stated of the others.

## 3. Runs

| run | module, configuration | checks | what it shows |
|---|---|---|---|
| `eth_loops` | `EthChainStateMC` | `SpeculativeIsLoop` `SettledIsLoop` `NonceIsLoop` `ProvedAgainstPostState` | the closed forms are the code's loops, for all batches of up to 3 blobs (repeated, failing and undecodable ones too) on all states of two blocks; every blob is proved on the post-state and header of the one before |
| `module` | `RethModuleMC` | `TypeOK` `HeadersChained` `OneTxPerBlock` `NoDuplicates` | whatever the order and the outcomes the listener reports, and with any commitment, states stay well formed; each transaction is reported at most once as sequenced and once as settled |
| `system` | `RethSystemMC` | `SystemTypeOK` `SettledIsCanonical` `SpeculationIsInFlight` `NextInFlightProved` `NeverSkips` `IndexerMissesNothing` `ReceiptsAreCanonical` `BlocksAreCanonical` `BlocksAreFinal` `NonceBehindOnlyIfStale` `OneAnchor` `SpeculationIsChained` `TipNeverDecreases` `LiveLeavesNothing` `ImplementsLedger` | the server as the only prover, one restart: it follows Hyli exactly, re-executes and re-proves what a rollback invalidates, each state on the one before it, keeps nothing else, receipts and settled blocks are Hyli's and stay, a pending nonce is behind the settled one only on account of a transaction in flight that signed with a used one, and clients lose nothing |
| `any_prover` | `BridgeServerMC` | `InitTypeOK` `RunningHasContracts` `RegisteredInOrder` `DeploymentsNeverSettle` `SettledIsCanonical` `SpeculationIsInFlight` `NextInFlightProved` | from the first start on, with the policy and with proofs from elsewhere: the server runs on registered contracts only, a deployment never settles, and the settled state is Hyli's as long as no success of a dropped transaction was ignored |
| `liveness` | `BridgeServerMC`, `BridgeLiveness.cfg` | `ComesUp` `PendingDrains` `ServedEventually` `IndexedEventually` | the server comes up, buffers drain, and settled transactions are in the end served and indexed, also those that settled while it was down |
| `hook` | `UseBridgeMC` | `HookTypeOK` `SuccessIsTrue` `WatchIsLive` `OwnStatus` `OwnDirection` `SourceWatchEnds` | two transfers: no mix-up but those below and those after an intrusion; the wait for a Hyli source ends |

Runs that show a disagreement (`expect: violation`), each with a finding in
`PROJECT.json`:

| run | property | what happens |
|---|---|---|
| `advance` | `SettlementAdvancesBlockNumber` | the fallback block of `settle_success_live` is not reachable as its comment says: the rollback also removes the transaction from `tx_chain`, so its later success is ignored and the settled state stays behind (needs another prover) |
| `message_index` | `IndexedUntilSettled` | a settlement overwrites the message index that sequencing wrote |
| `hyli_hash` | `SettledHashResolvable` | the settled state's `evm_to_hyli_hash` is never written, so a settled transaction's Hyli hash is forgotten |
| `evict` | `FailedTxEvicted` | a transaction whose proof cannot be built is never removed from `submitted_txs` |
| `snapshot` | `SnapshotIsSpeculative` | the replay at the end of the backfill is not published |
| `reverted_claim` | `RevertedIsTrue` | a receipt the server does not have yet is displayed as "transaction reverted" |

### Bounds

* `system`: three Hyli transactions with four EVM transactions. Two are rivals for
  one nonce, so one of them must fail or lose its proof; the third has two blobs, the
  second depending on the others. Three is enough for a failure with one
  transaction before and one after it, in both modes. One restart
  (`MaxRestarts`), 421,174 states. Every EVM transaction can be executed here and in the two runs
  that follow, so a blob without a proof is executed in a replay all the same; fallback blocks for failed
  executions are reached in `eth_loops` and `module`, and the theorems on the composition hold for
  any `Executable`. Nor do the roots of the server and of Hyli ever differ in the
  composition, execution being a function: the correction of a root at settlement
  (`reth_module.rs:519-526`) is taken in `module` only.
* `any_prover`: the same transactions, one of the rivals a deployment; both contracts still to
  be registered; no stop of a running server, but as many failed starts as there may be; 208,127 states.
* `liveness`: two transactions (one of two blobs), the registration, and one stop; 14,249 states.
* `module`: two transactions; commitments include a foreign one; `HeaderCap = 2`, so the
  headers are trimmed.
* `eth_loops`: two settled or executed blocks, `MaxBatch = 3` blobs.
* `hook`: two transfers and one attempt of the relayer, 377,322 states; with two attempts
  (527,907 states under symmetry) the invariants hold as well. The theorems of
  `UseBridge_proofs` cover any number of both. A third transfer is needed only for two calls
  that overlap, which `intruded` excludes.

Deadlock is not checked: the instances have finitely many transactions and all may
be settled.

### Fairness

`FairSpec` of `BridgeServer` assumes weak fairness of: the process, which whoever deploys it
starts again when it exits (the repository has no supervisor of its own); Hyli settling (or timing out) each sequenced
transaction, as its timeout windows ensure; the listener delivering; the end of the backfill;
the server's task continuing a replay; the client polling. It assumes strong fairness of
`get_contract` and `register_contract` succeeding and of an accepted registration taking
effect: of attempts repeated for ever not all fail, and not always just after the
timeout. Nothing is assumed of sequencing, of a proof being accepted, of other servers, or of
stops, which are finitely many.
`UseBridge` assumes that React runs its effects and that timers fire, and of no
server that it answers.

## 4. Proofs

All theorems hold for any sets of transactions, blobs, senders, messages and
commitments, any header cap and any number of restarts, from `EthAssumption`,
`CommitmentAssumption`, `SystemAssumption`, `PolicyAssumption`, `InitAssumption`,
`ServerAssumption` and `LoopsAssumption`, which TLC evaluates in the runs; those of
`UseBridge` for any sets of transfers and attempts. Each invariant was checked by TLC
before it was proved. Four theorems have one hypothesis more, that the server is the only prover
(`ASSUME ~OtherProvers`, the case of run `system`): `NeverSkipsAlone`, `IndexerFollows`,
`TipMonotonic` and `LedgerRefined`. With other provers they are false: run `advance` shows how.

### One state: `EthChainState_proofs`, `EthChainLoops_proofs`

A state is *sound* when it has its type, its headers are
chained up to its block number (`Chained`) and its receipts name distinct, already
existing blocks (`DistinctBlocks`). `ApplySpeculativeSound` and `ApplySettledSound`
show that every batch of blobs keeps it so, from lemmas on the parts: the
headers pushed and trimmed, the receipts inserted, the positions of a repeated payload.
A state is *canonical* for a chain when every field is what that chain determines; executing
a provable transaction on such a state, or settling it, gives the canonical state of
the longer chain (`CanonicalSpeculative`, `SettledIsSpeculative`).

`EthChainLoops_proofs` shows that the closed forms are the loops, for any number of
blobs. `Part` is the state in the middle of a transaction; a turn of a loop makes one blob more of
it (`PartNext`, `PartRecorded`), and the loop function equals the function of parts
(`SpeculativeLoopIs`, `SettledLoopIs`, `NonceLoopIs`). `SpeculationIsItsLoop`,
`SettlementIsItsLoop`, `NonceIsItsLoop` and `ProofsUsePostState` state it of every state of the chain.

Induction is by the least number for which a claim fails (`LeastNat`, `CountUp`, `GreatestNat`,
themselves proved from the well-foundedness of `<`), since the library's induction theorems
take an operator as a parameter; recursion is in functions for the same reason.

### The module: `RethModule_proofs`

The inductive invariant is `Inv == TypeOK /\ AllSound /\ Tracking`.
`AllSound` speaks of the settled state, the snapshot and every entry of
`state_history`, because each of them may become the settled one. `NoDuplicates` alone is not inductive:
`Tracking` adds that a tracked transaction has been reported, so a
new report cannot add it again. One lemma per action; `ModuleInvariant` combines them, and
`ModuleTypeCorrect`, `ModuleHeadersChained`, `ModuleOneTxPerBlock` and
`ModuleNoDuplicates` follow. It holds under any
listener that reports a transaction at most once as sequenced and once as settled, one that reports out of order included.

### The composed system: `RethSystem_proofs`, `RethTracking_proofs`, `RethCanonical_proofs`

Five layers, each proved from the ones before it, one lemma per action:

1. `SystemInv`: the actions of the composition restrict those of the module, so its
   invariant carries over, with the types of the environment (`SystemTypeCorrect`,
   `SystemStatesServable`).
2. `NodeInv` and `ListenerInv`: Hyli settles a prefix of its order, and each
   commitment is that of the success before it continued by executions that succeed;
   what the listener reported is a prefix of the order, what it reported as settled a prefix of
   that, and `told` is the commitment of the last success in it.
3. `ChainInv`: `tx_chain`, `pending_proofs`, `state_history` and the replay under way agree on what is in
   flight and keep Hyli's order. Of the settled transactions in `state_history`, which stay there
   after a catch-up, only the newest may be in `tx_chain`, at its head. With 2 it is
   `TrackingInvariant`; `OneAnchorHolds` and `MemoryBounded` follow.
4. `ProverInv`: proofs are of transactions that were reported; a transaction given up when it was
   sequenced has a blob that nobody proved. With the server as the only prover such a
   transaction cannot succeed, so none is ignored: `NeverSkipsAlone`. It needs layer 3, to
   know that what is settled as untracked was given up and not lost.
5. `SpeculationInv`: the settled state is canonical for `told`; the newest settled entry of the history
   agrees with it; and *every entry of an open transaction is its execution on the newest entry of what
   comes before it in Hyli's order*, with the proofs that can be built there submitted. This
   relation between entries, rather than between entries and the chain, is what
   survives: a settlement promotes an entry without touching the later ones, a rollback removes
   a suffix, and a replay, interrupted anywhere, extends a prefix. It is stated while
   `~skipped`: after a success is ignored the states are of no chain.

From 5 (`SpeculationInvariant`): `SettledStateCanonical`, `ReceiptsCanonical`,
`BlocksCanonical`, `SpeculationChained`, `NextProved`, and, by induction along the transactions in flight,
`SpeculationFollows`. These hold with other provers, too.

`BlocksFinal` compares two states of a step. Both answer a settled number from the chain they are told of
(`AnswersInv`, `HeadersFound`), and Hyli's chain only grows (`ChainsGrow`), so two answers under one number
agree (`SamePrefix`) or the header is no longer kept.

`PendingInv` says of the published snapshot that its accounts are those speculated or, until
something is published after the backfill, those settled; nothing while a rollback is being replayed, for
then it still shows what is taken back. A wallet's next nonce (`NonceFollows`) needs more:
when executions set an account's nonce back, the first of them that does has a blob
signed with a used nonce (`NonceOfLast`, `NonceForced`, `StaleInFlight`). The proof attempt
showed that the property must leave the replay of a rollback out: with three transactions in
flight, the first settled and the second failed, the snapshot's nonce is behind the settled one and
what set it back is no longer in flight.

For the readers (`IndexerFollows`, `TipMonotonic`) `ReaderInv` adds that the tip and the
cursor are never past the block of a settled transaction that the server will show again after
a restart.

`LedgerRefined` is the refinement of `EvmLedger`. The log it maps to is the successful part of Hyli's order,
which never changes but at its end (`LogFacts`); the account map after its first *i* transactions is
the commitment of the *i*-th (`LogCommitments`), so the settled state is that of a prefix of it. A report
of a success is a step of the abstract chain to the next prefix, a restart its reset, and everything else a
stutter (`SystemSteps`, `LedgerStep`).

### The deployed server: `BridgeServer_proofs`

For the start-up alone, with any sequence of distinct contracts: `RunningHasContracts` is
inductive with `InitInv`, which says that the contracts before the current one exist
(`Behind`), and that a requested contract has its predecessors registered: `StartUpTypeCorrect`,
`StartUpRegisters`, `StartUpInOrder`.

Each step of the server is a step or a stutter of `RethSystem` and of
`InitContracts`, but for two: the end of the start-up, which hands the listener what Hyli has sequenced by then, and a stop.
That these two keep all layers above (`StartsUpCanonical`, `ServerStepsNext`) carries the rest over:
`ServerRunsOnContracts`, `ServerRegistersInOrder`, `ServerStatesServable`,
`ServerCanonical`, `ServerSettledCanonical`, `ServerNextProved`, `ServerSpeculationFollows`,
`ServerNonceFollows`.

`ServerRejectsDeployments` has no condition, an ignored success included, so it cannot rest on
layer 5. `MadeInv` says only where a state's marks and receipts come from: the settled state's from
transactions that succeeded, an entry's from those and the ones sequenced up to it. Together with what the policy
lets succeed (`PolicyInv`) and what clients have read (`IndexedInv`) it is inductive.

### The hook: `UseBridge_proofs`

`HookInv` says who may tell the user something. A loop that is not
cancelled belongs to the transfer of `relayInfo` and to the status that was rendered last
(`Attached`), a call keeps its status until the wallet has answered (`OneCall`), and a
status that is watched names the transfer of `relayInfo` (`Current`); a loop knows only
attempts that were made (`Delivered`). From it: `HookTypeCorrect`, `HookTellsTruth`
(without any condition), `HookWatches`, `HookKeepsToItsTransfer` and `HookKeepsItsDirection`.

### Only model-checked

Every invariant and action property of the passing runs is stated by a theorem. What stays with
TLC is liveness: `ComesUp`, `PendingDrains`, `ServedEventually`, `IndexedEventually` and
`SourceWatchEnds` rest on fairness, hence on ENABLED, which the provers do not
handle; and the six violations, which are counterexamples.

`EthChainLoops_proofs` proves the loops for transactions of any number of blobs; that the loops
are those of the code, and that an execution may be abstracted to a mark, is the
correspondence of section 2 and not a theorem.

## 5. Not modelled

* The EVM, tries, proofs and signatures as data; gas; block contents.
* `eth_call`, `eth_estimateGas`, `eth_feeHistory`, `eth_getTransactionByHash`, blocks by hash
  and other reads without bookkeeping of their own; parsing and formatting of JSON.
* Configuration: its values are constants. `noinit`, with which the server does not look for its
  contracts, is off, and the genesis of the EVM configuration can be parsed. Logging, the REST
  wiring, deployment scripts.
* Which blobs the policy should look at: it checks the first reth blob of a transaction, and
  `DeploymentsNeverSettle` is stated of transactions with one, as `eth_sendRawTransaction`
  builds them.
* The AutoProver's batching, working window and retries (an external module): a proof for the
  bridge blob arrives or the transaction times out.
* The front end's rendering, wallet connection and balance polling.

## 6. Plan

In order of importance; 1 to 10 are done.

1. `EthChainState` with its loops; 2. `RethModule`; 3. `RethSystem` with
   `EvmLedger`; 4. type correctness and the state invariants as theorems;
   5. `UseBridge` and its theorems.
6. `eth_getTransactionCount`; the shape of `tx_chain` and `state_history`.
7. `InitContracts` and its theorems.
8. `BridgePolicy`, and `BridgeServer` as the composition of all server parts.
9. Theorems: the layers of section 4, the refinement of `EvmLedger`, and the loops.
10. The published snapshot (`PendingInv`) and the nonces read from it.
11. `eth_call` and gas estimation on the pending state; a client that tracks blocks by hash.
