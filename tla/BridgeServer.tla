----------------------------- MODULE BridgeServer -----------------------------
(***************************************************************************)
(* The server as it is deployed: main.rs runs init_contracts, and only     *)
(* then builds RethModule, the contract listener and the AutoProver, which *)
(* live until the process stops.  The system of RethSystem is composed     *)
(* with the start-up of InitContracts and with the bridge policy.          *)
(*                                                                         *)
(* Hyli goes on while the server is down: the listener finds what happened *)
(* meanwhile when the server is up again.  A transaction can be sequenced  *)
(* once the contracts of its blobs exist, and one with a bridge blob       *)
(* succeeds only with the policy's proof.                                  *)
(***************************************************************************)
EXTENDS RethViews, InitContracts, BridgePolicy

CONSTANT BridgeCn  \* conf.bridge_cn

ASSUME ServerAssumption == Contracts = <<BridgeCn, HyperlaneCn>>

serverVars == <<vars, initVars>>

ServerInit == Init /\ StartUpInit

Running == boot = "running"

-----------------------------------------------------------------------------
\* The process.  RethModule is built, and its state that of ModuleInit, when the start-up is
\* over; the listener starts with what Hyli has sequenced by then.

StartsUp ==
    /\ StartUp
    /\ backlog' = IF Running' THEN ToSet(order) ELSE backlog
    /\ UNCHANGED <<moduleVars, hyliVars, told, skipped, restarts, clientVars>>

Crashes == ServerRestart /\ Stop

Reports(t) ==
    /\ Running
    /\ ReportSequenced(t) \/ ReportSuccess(t) \/ ReportFailed(t)
    /\ UNCHANGED initVars

EndsBackfill == Running /\ EndBackfill /\ UNCHANGED initVars

Replays == Running /\ Replay /\ UNCHANGED initVars

Answers ==
    /\ Running
    /\ (\E t \in Txs : Submit(t) \/ Record(t)) \/ PollTip \/ PollLogs
    /\ UNCHANGED initVars

-----------------------------------------------------------------------------
\* The node.

NodeSteps == Node /\ UNCHANGED vars

Sequences(t) ==
    /\ HyperlaneCn \in registered
    /\ t \in HasBridgeBlob => BridgeCn \in registered
    /\ HyliSequences(t)
    /\ UNCHANGED initVars

Succeeds(t) ==
    /\ t \in HasBridgeBlob => PolicyProved(t)
    /\ HyliSettlesSuccess(t)
    /\ UNCHANGED initVars

Fails(t) == HyliSettlesFailed(t) /\ UNCHANGED initVars

-----------------------------------------------------------------------------
ServerNext ==
    \/ StartsUp
    \/ Crashes
    \/ EndsBackfill
    \/ Replays
    \/ Answers
    \/ NodeSteps
    \/ \E t \in Txs : Reports(t) \/ Sequences(t) \/ Succeeds(t) \/ Fails(t)

ServerSpec == ServerInit /\ [][ServerNext]_serverVars

\* A process that exited is started again and does not hang; of requests for the same contract
\* that are made again and again not all fail, nor are all their registrations lost.  Hyli
\* settles or times out every transaction, the listener delivers every event, the server's
\* task goes on with a replay it began, and the client keeps polling.  Nothing obliges a
\* proof to be accepted, a transaction to be sequenced, another server to register anything,
\* or the server to stop.
Fairness ==
    /\ WF_serverVars(StartsUp)
    /\ \A i \in DOMAIN Contracts :
        /\ SF_serverVars(step = i /\ CheckOk /\ StartsUp)
        /\ SF_serverVars(step = i /\ RegisterOk /\ StartsUp)
        /\ SF_serverVars(NodeRegisters(Contracts[i]) /\ UNCHANGED vars)
    /\ \A t \in Txs : WF_serverVars(Succeeds(t) \/ Fails(t)) /\ WF_serverVars(Reports(t))
    /\ WF_serverVars(EndsBackfill)
    /\ WF_serverVars(Replays)
    /\ WF_serverVars(Running /\ PollTip /\ UNCHANGED initVars)
    /\ WF_serverVars(Running /\ PollLogs /\ UNCHANGED initVars)

FairSpec == ServerSpec /\ Fairness

-----------------------------------------------------------------------------
\* Properties.

Executes(accounts, e) == \E i \in DOMAIN accounts : accounts[i].tx = e

\* Every Hyli transaction that carries e is one that eth_sendRawTransaction built.
OnlyThroughPolicy(e) ==
    \A t \in Txs : e \in ToSet(Blobs[t]) => t \in HasBridgeBlob /\ Blobs[t] = <<e>>

\* "Reject CREATE transactions (contract deployments are not permitted on this chain)"
\* (lib.rs:135): the server executes a deployment speculatively, before the policy is proved,
\* but no settled state, receipt or log ever shows it.
DeploymentsNeverSettle ==
    \A e \in Deployments : OnlyThroughPolicy(e) =>
        /\ ~Executes(settled.accounts, e)
        /\ GetTransactionReceipt(e) = None
        /\ e \notin indexed

\* A server that is down comes up, however its registrations and the node's answers
\* interleave with its timeouts and with other servers.
ComesUp == boot = "exited" ~> Running

\* Every transaction buffered or in flight leaves pending_proofs: no outcome, order of
\* events or replay leaves one behind.
PendingDrains == \A t \in Txs : t \in ToSet(pendingProofs) ~> t \notin ToSet(pendingProofs)

\* What Hyli settled is in the end served for good, through start-up, catch-up and restarts.
ServedEventually ==
    \A t \in Txs :
        status[t] = "success" ~>
            [](isReady /\ \A e \in ToSet(Blobs[t]) : Executes(settled.accounts, e))

\* An indexer that keeps polling gets the logs of every settled transaction.
IndexedEventually == \A t \in Txs : status[t] = "success" ~> ToSet(Blobs[t]) \subseteq indexed

=============================================================================
