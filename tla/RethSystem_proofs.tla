-------------------------- MODULE RethSystem_proofs --------------------------
(***************************************************************************)
(* The composed system: its types, then the node and the listener.         *)
(*                                                                         *)
(* The invariants of RethModule hold here too: Hyli may report any account *)
(* map as the commitment of a transaction, whether the server proved it or *)
(* another prover did, and the server may restart any number of times.     *)
(*                                                                         *)
(*   NodeInv: the node settles in order, each commitment continues that of *)
(*     the success before it, and only executions that succeed are proved; *)
(*   ListenerInv: what was reported is a prefix of the order, and what was *)
(*     reported as settled is a prefix of that.                            *)
(***************************************************************************)
EXTENDS RethSystem, RethModule_proofs

\* The system's own variables.  A transaction that succeeded has a commitment.
SystemTypes ==
    /\ order \in Seq(Txs)
    /\ status \in [Txs -> {"unknown", "sequenced"} \cup Settled]
    /\ ledger \in Accounts
    /\ commitment \in [Txs -> Accounts \cup {NoCommitment}]
    /\ \A t \in Txs : status[t] = "success" => commitment[t] \in Accounts
    /\ backlog \subseteq Txs
    /\ told \in Accounts
    /\ skipped \in BOOLEAN
    /\ restarts \in 0..MaxRestarts
    /\ tip \in Nat
    /\ cursor \in Nat
    /\ indexed \subseteq Evm

SystemInv == Inv /\ SystemTypes

\* The composed system starts in the invariant.
LEMMA InitSystemInv == Init => SystemInv
    <1> SUFFICES ASSUME Init PROVE SystemInv OBVIOUS
    <1>1. Inv BY StartInv DEF Init, ModuleInit
    <1>2. <<>> \in Accounts /\ <<>> \in Seq(Txs) BY EmptySeq DEF Accounts
    <1>3. /\ order \in Seq(Txs) /\ ledger \in Accounts /\ told \in Accounts
          /\ backlog \subseteq Txs /\ skipped \in BOOLEAN
          /\ tip \in Nat /\ cursor \in Nat /\ indexed \subseteq Evm
        BY <1>2 DEF Init
    <1>4. restarts \in 0..MaxRestarts BY SystemAssumption DEF Init
    <1>5. /\ status \in [Txs -> {"unknown", "sequenced"} \cup Settled]
          /\ commitment \in [Txs -> Accounts \cup {NoCommitment}]
          /\ \A t \in Txs : status[t] # "success"
        BY DEF Init, Settled
    <1>6. SystemTypes BY <1>3, <1>4, <1>5 DEF SystemTypes
    <1> QED BY <1>1, <1>6 DEF SystemInv

-----------------------------------------------------------------------------
\* Steps of the node leave the module alone.

\* A step of the node leaves RethModule alone: Hyli sequences a transaction,
LEMMA HyliSequencesInv ==
    ASSUME SystemInv, NEW t \in Txs, HyliSequences(t)
    PROVE  SystemInv'
    <1> USE DEF HyliSequences
    <1>1. Inv' BY StutterInv DEF SystemInv
    <1>2. order' \in Seq(Txs) BY AppendProperties DEF SystemInv, SystemTypes
    <1>3. SystemTypes'
        BY <1>2 DEF SystemInv, SystemTypes, Settled, listenerVars, clientVars
    <1> QED BY <1>1, <1>3 DEF SystemInv

\* settles one successfully,
LEMMA HyliSettlesSuccessInv ==
    ASSUME SystemInv, NEW t \in Txs, HyliSettlesSuccess(t)
    PROVE  SystemInv'
    <1> USE DEF HyliSettlesSuccess
    <1>1. Inv' BY StutterInv DEF SystemInv
    <1>2. ledger' \in Accounts
        BY BlobsType, MarksType, ConcatProperties DEF SystemInv, SystemTypes, Accounts
    <1>3. SystemTypes'
        BY <1>2 DEF SystemInv, SystemTypes, Settled, listenerVars, clientVars
    <1> QED BY <1>1, <1>3 DEF SystemInv

\* or lets one fail or time out.
LEMMA HyliSettlesFailedInv ==
    ASSUME SystemInv, NEW t \in Txs, HyliSettlesFailed(t)
    PROVE  SystemInv'
    <1> USE DEF HyliSettlesFailed
    <1>1. Inv' BY StutterInv DEF SystemInv
    <1>2. SystemTypes' BY DEF SystemInv, SystemTypes, Settled, listenerVars, clientVars
    <1> QED BY <1>1, <1>2 DEF SystemInv

-----------------------------------------------------------------------------
\* Reports are steps of the module.

\* A report of the listener is a step of RethModule: of a sequenced transaction,
LEMMA ReportSequencedInv ==
    ASSUME SystemInv, NEW t \in Txs, ReportSequenced(t)
    PROVE  SystemInv'
    <1>1. Inv'
        BY SequencedCatchingUpInv, SequencedLiveInv, SequencedUnprovableInv
        DEF SystemInv, ReportSequenced
    <1>2. SystemTypes'
        BY DEF SystemInv, SystemTypes, ReportSequenced, hyliVars, listenerVars, clientVars
    <1> QED BY <1>1, <1>2 DEF SystemInv

\* of a success,
LEMMA ReportSuccessInv ==
    ASSUME SystemInv, NEW t \in Txs, ReportSuccess(t)
    PROVE  SystemInv'
    <1>1. commitment[t] \in Accounts BY DEF SystemInv, SystemTypes, ReportSuccess
    <1>2. Inv'
        BY <1>1, SettledSuccessCatchingUpInv, SettledSuccessLiveInv, SettledUntrackedInv
        DEF SystemInv, ReportSuccess
    <1>3. SystemTypes'
        BY <1>1 DEF SystemInv, SystemTypes, ReportSuccess, hyliVars, clientVars
    <1> QED BY <1>2, <1>3 DEF SystemInv

\* or of a failure.
LEMMA ReportFailedInv ==
    ASSUME SystemInv, NEW t \in Txs, ReportFailed(t)
    PROVE  SystemInv'
    <1>1. Inv'
        BY SettledFailedCatchingUpInv, SettledFailedLiveInv, SettledUntrackedInv
        DEF SystemInv, ReportFailed
    <1>2. SystemTypes'
        BY DEF SystemInv, SystemTypes, ReportFailed, hyliVars, listenerVars, clientVars
    <1> QED BY <1>1, <1>2 DEF SystemInv

\* The end of the backfill and a step of a replay are the server's own.
LEMMA ServerStepInv ==
    ASSUME SystemInv, EndBackfill \/ Replay
    PROVE  SystemInv'
    <1>1. Inv' BY BackfillCompleteInv, ReplayTxInv DEF SystemInv, EndBackfill, Replay
    <1>2. SystemTypes'
        BY DEF SystemInv, SystemTypes, EndBackfill, Replay, hyliVars, listenerVars, clientVars
    <1> QED BY <1>1, <1>2 DEF SystemInv

\* A restart resets the server and what the listener told it.
LEMMA ServerRestartInv ==
    ASSUME SystemInv, ServerRestart
    PROVE  SystemInv'
    <1> USE DEF ServerRestart
    <1>1. Inv' BY RestartInv DEF SystemInv
    <1>2. ToSet(order) \subseteq Txs
        BY LenProperties, ElementOfSeq DEF SystemInv, SystemTypes, ToSet
    <1>3. <<>> \in Accounts BY EmptySeq DEF Accounts
    <1>4. restarts' \in 0..MaxRestarts BY SystemAssumption DEF SystemInv, SystemTypes
    <1>5. SystemTypes'
        BY <1>2, <1>3, <1>4 DEF SystemInv, SystemTypes, hyliVars, clientVars
    <1> QED BY <1>1, <1>5 DEF SystemInv

-----------------------------------------------------------------------------
\* The client.

\* A wallet only reaches submitted_txs.
LEMMA WalletInv ==
    ASSUME SystemInv, NEW t \in Txs, Submit(t) \/ Record(t)
    PROVE  SystemInv'
    <1>1. Inv' BY SendRawTransactionInv, RecordSubmissionInv DEF SystemInv, Submit, Record
    <1>2. SystemTypes'
        BY DEF SystemInv, SystemTypes, Submit, Record, hyliVars, listenerVars, clientVars
    <1> QED BY <1>1, <1>2 DEF SystemInv

\* A poll of the indexer leaves the server alone.
LEMMA IndexerInv ==
    ASSUME SystemInv, PollTip \/ PollLogs
    PROVE  SystemInv'
    <1> USE DEF PollTip, PollLogs
    <1>1. Inv' BY StutterInv DEF SystemInv
    <1>2. settled \in EthState BY InvFacts DEF SystemInv, Sound
    <1>3. settled.block_number + 1 \in Nat /\ LogsOf(settled, cursor, tip) \subseteq Evm
        BY <1>2 DEF EthState, LogsOf, Keys
    <1>4. SystemTypes'
        BY <1>3 DEF SystemInv, SystemTypes, hyliVars, listenerVars
    <1> QED BY <1>1, <1>4 DEF SystemInv

-----------------------------------------------------------------------------

\* The module's inductive invariant holds in every state of the composed system.
THEOREM SystemInvariant == Spec => []SystemInv
    <1>1. SystemInv /\ Next => SystemInv'
        BY HyliSequencesInv, HyliSettlesSuccessInv, HyliSettlesFailedInv, ReportSequencedInv,
           ReportSuccessInv, ReportFailedInv, ServerStepInv, ServerRestartInv, WalletInv,
           IndexerInv DEF Next
    <1>2. SystemInv /\ UNCHANGED vars => SystemInv'
        BY StutterInv
        DEF SystemInv, SystemTypes, vars, hyliVars, listenerVars, clientVars
    <1> QED BY <1>1, <1>2, InitSystemInv, PTL DEF Spec

\* Every variable of the composed system has its type.
THEOREM SystemTypeCorrect == Spec => []SystemTypeOK
    <1>1. SystemInv => SystemTypeOK BY DEF SystemInv, SystemTypes, SystemTypeOK, Inv
    <1> QED BY <1>1, SystemInvariant, PTL

\* Whatever Hyli settles and whoever proves it, every state served or proved against has
\* the headers of its last blocks and at most one transaction in a block.
THEOREM SystemStatesServable == Spec => [](HeadersChained /\ OneTxPerBlock)
    <1>1. SystemInv => HeadersChained /\ OneTxPerBlock
        BY DEF SystemInv, Inv, AllSound, SoundHistory, HeadersChained, OneTxPerBlock,
               ServedStates, Sound
    <1> QED BY <1>1, SystemInvariant, PTL

-----------------------------------------------------------------------------
\* Hyli's order.

HyliSettled == {t \in Txs : status[t] \in Settled}

HeardSettled == {t \in Txs : heard[t] = "settled"}

HeardSequenced == {t \in Txs : heard[t] = "sequenced"}

\* What it means to come before.
LEMMA BeforeIs ==
    \A t, u : u \in Before(t) <=>
        \E i, j \in DOMAIN order : order[j] = u /\ order[i] = t /\ j < i
    BY DEF Before

\* Hyli's order is a strict total order of the transactions it sequenced.
LEMMA BeforeOrder ==
    ASSUME Distinct(order)
    PROVE  /\ ToSet(order) \subseteq Txs
           /\ \A t : Before(t) \subseteq ToSet(order)
           /\ \A t, u : u \in Before(t) => t \in ToSet(order) /\ t \notin Before(u)
           /\ \A t : t \notin Before(t)
           /\ \A t, u, v : u \in Before(t) /\ v \in Before(u) => v \in Before(t)
           /\ \A t, u \in ToSet(order) : t = u \/ t \in Before(u) \/ u \in Before(t)
    <1>1. /\ order \in Seq(Txs) /\ Len(order) \in Nat /\ DOMAIN order = 1..Len(order)
          /\ \A i \in 1..Len(order) : order[i] \in Txs
          /\ \A i, j \in 1..Len(order) : order[i] = order[j] => i = j
        BY LenProperties, ElementOfSeq DEF Distinct, IsInjective
    <1>2. ToSet(order) = {order[i] : i \in 1..Len(order)} BY <1>1 DEF ToSet
    <1>3. ToSet(order) \subseteq Txs BY <1>1, <1>2
    <1>4. \A t, u : u \in Before(t) <=>
            \E i, j \in 1..Len(order) : order[j] = u /\ order[i] = t /\ j < i
        BY <1>1, BeforeIs
    <1>5. \A t, u : u \in Before(t) => t \in ToSet(order) /\ u \in ToSet(order)
        BY <1>2, <1>4
    <1>6. ASSUME NEW t, NEW u, u \in Before(t), t \in Before(u) PROVE FALSE
        <2>1. PICK i, j \in 1..Len(order) : order[j] = u /\ order[i] = t /\ j < i
            BY <1>4, <1>6
        <2>2. PICK k, l \in 1..Len(order) : order[l] = t /\ order[k] = u /\ l < k
            BY <1>4, <1>6
        <2>3. k = j /\ l = i BY <1>1, <2>1, <2>2
        <2> QED BY <1>1, <2>1, <2>2, <2>3
    <1>7. ASSUME NEW t, NEW u, NEW v, u \in Before(t), v \in Before(u) PROVE v \in Before(t)
        <2>1. PICK i, j \in 1..Len(order) : order[j] = u /\ order[i] = t /\ j < i
            BY <1>4, <1>7
        <2>2. PICK k, l \in 1..Len(order) : order[l] = v /\ order[k] = u /\ l < k
            BY <1>4, <1>7
        <2>3. k = j BY <1>1, <2>1, <2>2
        <2>4. l < i BY <1>1, <2>1, <2>2, <2>3
        <2> QED BY <1>4, <2>1, <2>2, <2>4
    <1>8. ASSUME NEW t \in ToSet(order), NEW u \in ToSet(order)
          PROVE  t = u \/ t \in Before(u) \/ u \in Before(t)
        <2>1. PICK i, j \in 1..Len(order) : order[i] = t /\ order[j] = u BY <1>2
        <2>2. i = j \/ i < j \/ j < i BY <1>1
        <2> QED BY <1>4, <2>1, <2>2
    <1> QED BY <1>3, <1>5, <1>6, <1>7, <1>8

\* What Hyli sequences comes after everything before, and moves nothing.
LEMMA BeforeAppend ==
    ASSUME Distinct(order), NEW t \in Txs, t \notin ToSet(order), order' = Append(order, t)
    PROVE  /\ Before(t)' = ToSet(order)
           /\ \A u : u # t => Before(u)' = Before(u)
           /\ ToSet(order)' = ToSet(order) \cup {t}
           /\ Distinct(order)'
    <1>1. Distinct(order)' /\ ToSet(order)' = ToSet(order) \cup {t} BY AppendDistinct
    <1> DEFINE n == Len(order)
    <1>2. /\ order \in Seq(Txs) /\ n \in Nat /\ DOMAIN order = 1..n
          /\ DOMAIN order' = 1..(n + 1) /\ order'[n + 1] = t
          /\ \A i \in 1..n : order'[i] = order[i]
        BY LenProperties, AppendProperties DEF Distinct
    <1>3. \A i \in 1..n : order[i] # t BY <1>2 DEF ToSet
    <1>4. \A u, v : u \in Before(v)' <=>
            \E i, j \in 1..(n + 1) : order'[j] = u /\ order'[i] = v /\ j < i
        BY <1>2 DEF Before
    <1>5. \A u, v : u \in Before(v) <=> \E i, j \in 1..n : order[j] = u /\ order[i] = v /\ j < i
        BY <1>2, BeforeIs
    <1> HIDE DEF n
    <1>6. ASSUME NEW u PROVE u \in Before(t)' <=> u \in ToSet(order)
        <2>1. ASSUME u \in Before(t)' PROVE u \in ToSet(order)
            <3>1. PICK i, j \in 1..(n + 1) : order'[j] = u /\ order'[i] = t /\ j < i
                BY <1>2, <2>1 DEF Before
            <3>2. j \in 1..n BY <1>2, <3>1
            <3> QED BY <1>2, <3>1, <3>2 DEF ToSet
        <2>2. ASSUME u \in ToSet(order) PROVE u \in Before(t)'
            <3>1. PICK j \in 1..n : order[j] = u BY <1>2, <2>2 DEF ToSet
            <3>2. j \in 1..(n + 1) /\ n + 1 \in 1..(n + 1) /\ j < n + 1 BY <1>2
            <3> QED BY <1>2, <1>4, <3>1, <3>2
        <2> QED BY <2>1, <2>2
    <1>7. ASSUME NEW v, v # t, NEW u PROVE u \in Before(v)' <=> u \in Before(v)
        <2>1. ASSUME u \in Before(v)' PROVE u \in Before(v)
            <3>1. PICK i, j \in 1..(n + 1) : order'[j] = u /\ order'[i] = v /\ j < i
                BY <1>2, <2>1 DEF Before
            <3>2. i # n + 1 BY <1>2, <1>7, <3>1
            <3>3. i \in 1..n /\ j \in 1..n BY <1>2, <3>1, <3>2
            <3> QED BY <1>2, <1>5, <3>1, <3>3
        <2>2. ASSUME u \in Before(v) PROVE u \in Before(v)'
            <3>1. PICK i, j \in 1..n : order[j] = u /\ order[i] = v /\ j < i
                BY <1>5, <2>2
            <3>2. i \in 1..(n + 1) /\ j \in 1..(n + 1) BY <1>2
            <3> QED BY <1>2, <1>4, <3>1, <3>2
        <2> QED BY <2>1, <2>2
    <1>8. Before(t)' = ToSet(order) BY <1>6
    <1>9. ASSUME NEW v, v # t PROVE Before(v)' = Before(v)
        <2>1. \A u : u \in Before(v)' <=> u \in Before(v) BY <1>7, <1>9
        <2>2. Before(v)' \subseteq Before(v) /\ Before(v) \subseteq Before(v)' BY <2>1
        <2> QED BY <2>2
    <1> QED BY <1>1, <1>8, <1>9

\* Nothing else moves anything.
LEMMA BeforeSame ==
    ASSUME order' = order
    PROVE  \A t : Before(t)' = Before(t)
    BY DEF Before

-----------------------------------------------------------------------------
\* The committed state a set of transactions leads to: the commitment of its last success.

TipOf(S, c) ==
    LET won == {u \in S : status[u] = "success"}
    IN  \/ won = {} /\ c = <<>>
        \/ \E u \in won : c = commitment[u] /\ \A v \in won : v = u \/ v \in Before(u)

\* There is only one.
LEMMA TipUnique ==
    ASSUME Distinct(order), NEW S, NEW c, NEW d, TipOf(S, c), TipOf(S, d)
    PROVE  c = d
    BY BeforeOrder DEF TipOf

\* After a step, the last success of all is the tip,
LEMMA TipAdd ==
    ASSUME NEW t, status'[t] = "success", NEW S, S \subseteq Before(t)',
           NEW c, c = commitment'[t]
    PROVE  TipOf(S \cup {t}, c)'
    BY DEF TipOf

\* a failure changes nothing,
LEMMA TipFailed ==
    ASSUME NEW t, status'[t] # "success", NEW S, NEW c
    PROVE  TipOf(S \cup {t}, c)' <=> TipOf(S, c)'
    <1>1. {u \in S \cup {t} : status'[u] = "success"} = {u \in S : status'[u] = "success"}
        OBVIOUS
    <1> QED BY <1>1 DEF TipOf

\* nor does what happens to other transactions.
LEMMA TipSame ==
    ASSUME NEW S, NEW c, \A u \in S : Before(u)' = Before(u),
           \A u \in S : status'[u] = "success" <=> status[u] = "success",
           \A u \in S : status[u] = "success" => commitment'[u] = commitment[u]
    PROVE  TipOf(S, c)' <=> TipOf(S, c)
    <1> DEFINE won == {u \in S : status[u] = "success"}
    <1>1. {u \in S : status'[u] = "success"} = won OBVIOUS
    <1>2. TipOf(S, c)' <=>
            \/ won = {} /\ c = <<>>
            \/ \E u \in won : c = commitment'[u] /\ \A v \in won : v = u \/ v \in Before(u)'
        BY <1>1 DEF TipOf
    <1>3. \A u \in won : commitment'[u] = commitment[u] /\ Before(u)' = Before(u) OBVIOUS
    <1> HIDE DEF won
    <1>4. TipOf(S, c)' <=>
            \/ won = {} /\ c = <<>>
            \/ \E u \in won : c = commitment[u] /\ \A v \in won : v = u \/ v \in Before(u)
        BY <1>2, <1>3
    <1> QED BY <1>4 DEF TipOf, won

-----------------------------------------------------------------------------
\* The node.

OrderInv ==
    /\ Distinct(order)
    /\ \A t \in Txs : status[t] # "unknown" <=> t \in ToSet(order)
    /\ \A t \in HyliSettled : Before(t) \subseteq HyliSettled

\* The blobs of t run one after the other from the account map c, each provable.
Runs(c, t) ==
    \A i \in DOMAIN Blobs[t] : Provable(c \o SubSeq(Marks(Blobs[t]), 1, i - 1), Blobs[t][i])

\* The ledger is the last success's commitment, and each success ran on the commitment of
\* the success before it.
LedgerInv ==
    /\ TipOf(HyliSettled, ledger)
    /\ \A t \in Txs : status[t] = "success" =>
        \E c \in Accounts :
            /\ TipOf(Before(t), c)
            /\ commitment[t] = c \o Marks(Blobs[t])
            /\ Runs(c, t)

\* A proof is only ever submitted of an execution that succeeded.
ProofsInv ==
    \A p \in proofs :
        p.blob \in DOMAIN Blobs[p.tx] /\ Provable(p.pre, Blobs[p.tx][p.blob])

NodeInv == OrderInv /\ LedgerInv /\ ProofsInv

\* What has settled when t is the next is what came before t.
LEMMA SettledIsBefore ==
    ASSUME OrderInv, NEW t \in Txs, NextToSettle(t)
    PROVE  HyliSettled = Before(t)
    <1>1. t \in ToSet(order) /\ t \notin HyliSettled
        BY DEF OrderInv, NextToSettle, HyliSettled, Settled
    <1>2. Before(t) \subseteq HyliSettled
        BY BeforeOrder DEF OrderInv, NextToSettle, HyliSettled
    <1>3. ASSUME NEW u \in HyliSettled PROVE u \in Before(t)
        <2>1. u \in ToSet(order) BY DEF OrderInv, HyliSettled, Settled
        <2>2. t \notin Before(u) BY <1>1 DEF OrderInv
        <2> QED BY <1>1, <2>1, <2>2, BeforeOrder DEF OrderInv
    <1> QED BY <1>2, <1>3

\* A step that neither the node nor the provers take.
LEMMA NodeSame ==
    ASSUME NodeInv, UNCHANGED hyliVars,
           \A p \in proofs' \ proofs :
                p.blob \in DOMAIN Blobs[p.tx] /\ Provable(p.pre, Blobs[p.tx][p.blob])
    PROVE  NodeInv'
    <1> USE DEF hyliVars
    <1>1. \A t : Before(t)' = Before(t) BY BeforeSame
    <1>2. HyliSettled' = HyliSettled BY DEF HyliSettled
    <1>3. OrderInv' BY <1>1, <1>2 DEF NodeInv, OrderInv, Distinct
    <1>4. \A S, c : TipOf(S, c)' <=> TipOf(S, c) BY <1>1, TipSame
    <1>5. LedgerInv' BY <1>1, <1>2, <1>4 DEF NodeInv, LedgerInv
    <1>6. ProofsInv' BY DEF NodeInv, ProofsInv
    <1> QED BY <1>3, <1>5, <1>6 DEF NodeInv

\* Sequencing a transaction keeps the node's invariant,
LEMMA HyliSequencesNode ==
    ASSUME NodeInv, SystemInv, NEW t \in Txs, HyliSequences(t)
    PROVE  NodeInv'
    <1> USE DEF HyliSequences, NodeInv, moduleVars
    <1>1. /\ Distinct(order) /\ t \notin ToSet(order) /\ order' = Append(order, t)
          /\ status \in [Txs -> {"unknown", "sequenced"} \cup Settled]
        BY DEF OrderInv, SystemInv, SystemTypes
    <1>2. /\ Before(t)' = ToSet(order) /\ \A u : u # t => Before(u)' = Before(u)
          /\ ToSet(order)' = ToSet(order) \cup {t} /\ Distinct(order)'
        BY <1>1, BeforeAppend
    <1>3. /\ status' = [status EXCEPT ![t] = "sequenced"]
          /\ \A u \in Txs : status'[u] = IF u = t THEN "sequenced" ELSE status[u]
        BY <1>1
    <1>4. HyliSettled' = HyliSettled /\ t \notin HyliSettled BY <1>3 DEF HyliSettled, Settled
    <1>5. OrderInv' BY <1>1, <1>2, <1>3, <1>4 DEF OrderInv
    <1>6. ASSUME NEW S \in SUBSET Txs, t \notin S, NEW c
          PROVE  TipOf(S, c)' <=> TipOf(S, c)
        <2>1. \A u \in S : Before(u)' = Before(u) /\ status'[u] = status[u]
            BY <1>2, <1>3, <1>6
        <2> QED BY <2>1, TipSame
    <1>7. \A u \in Txs : t \notin Before(u) /\ Before(u) \subseteq Txs
        BY <1>1, BeforeOrder
    <1>8. TipOf(HyliSettled, ledger)'
        <2>1. HyliSettled \in SUBSET Txs BY DEF HyliSettled
        <2>2. TipOf(HyliSettled, ledger) BY DEF LedgerInv
        <2> QED BY <1>4, <1>6, <2>1, <2>2
    <1>9. ASSUME NEW u \in Txs, status'[u] = "success"
          PROVE  \E c \in Accounts :
                    /\ TipOf(Before(u), c)'
                    /\ commitment'[u] = c \o Marks(Blobs[u])
                    /\ Runs(c, u)
        <2>1. u # t /\ status[u] = "success" BY <1>3, <1>9
        <2>2. PICK c \in Accounts : /\ TipOf(Before(u), c)
                                    /\ commitment[u] = c \o Marks(Blobs[u])
                                    /\ Runs(c, u)
            BY <2>1 DEF LedgerInv
        <2>3. Before(u)' = Before(u) BY <1>2, <2>1
        <2>4. TipOf(Before(u), c)' BY <1>6, <1>7, <2>2, <2>3
        <2> QED BY <2>2, <2>4
    <1>10. LedgerInv' BY <1>8, <1>9 DEF LedgerInv
    <1>11. ProofsInv' BY DEF ProofsInv
    <1> QED BY <1>5, <1>10, <1>11

\* What a settlement leaves as it was.
LEMMA SettlesFacts ==
    ASSUME NodeInv, SystemInv, NEW t \in Txs, NextToSettle(t), order' = order,
           NEW what \in Settled, status' = [status EXCEPT ![t] = what],
           \A u \in Txs : u # t => commitment'[u] = commitment[u]
    PROVE  /\ \A u : Before(u)' = Before(u)
           /\ HyliSettled = Before(t)
           /\ HyliSettled' = HyliSettled \cup {t}
           /\ OrderInv'
           /\ \A u \in Txs : status'[u] = IF u = t THEN what ELSE status[u]
           /\ \A S \in SUBSET Txs : \A c : t \notin S => (TipOf(S, c)' <=> TipOf(S, c))
    <1>1. /\ OrderInv /\ Distinct(order) /\ status[t] = "sequenced"
          /\ status \in [Txs -> {"unknown", "sequenced"} \cup Settled]
        BY DEF NodeInv, OrderInv, SystemInv, SystemTypes, NextToSettle
    <1>2. \A u : Before(u)' = Before(u) BY BeforeSame
    <1>3. HyliSettled = Before(t) BY <1>1, SettledIsBefore
    <1>4. \A u \in Txs : status'[u] = IF u = t THEN what ELSE status[u] BY <1>1
    <1>5. HyliSettled' = HyliSettled \cup {t} BY <1>4 DEF HyliSettled
    <1>6. what # "unknown" BY DEF Settled
    <1>7. OrderInv'
        <2>1. \A u \in Txs : status'[u] # "unknown" <=> u \in ToSet(order)'
            BY <1>1, <1>4, <1>6 DEF OrderInv
        <2>2. \A u \in HyliSettled' : Before(u)' \subseteq HyliSettled'
            BY <1>1, <1>2, <1>3, <1>5 DEF OrderInv
        <2> QED BY <1>1, <2>1, <2>2 DEF OrderInv, Distinct
    <1>8. ASSUME NEW S \in SUBSET Txs, NEW c, t \notin S
          PROVE  TipOf(S, c)' <=> TipOf(S, c)
        <2>1. \A u \in S : u \in Txs /\ u # t BY <1>8
        <2> QED BY <1>2, <1>4, <2>1, TipSame
    <1> QED BY <1>2, <1>3, <1>4, <1>5, <1>7, <1>8

\* settling one successfully, which needs a proof of every blob on the ledger,
LEMMA HyliSettlesSuccessNode ==
    ASSUME NodeInv, SystemInv, NEW t \in Txs, HyliSettlesSuccess(t)
    PROVE  NodeInv'
    <1> USE DEF HyliSettlesSuccess, moduleVars
    <1>1. /\ commitment \in [Txs -> Accounts \cup {NoCommitment}] /\ ledger \in Accounts
          /\ Distinct(order) /\ LedgerInv /\ ProofsInv
        BY DEF SystemInv, SystemTypes, NodeInv, OrderInv
    <1>2. \A u \in Txs : commitment'[u] = IF u = t THEN ledger' ELSE commitment[u] BY <1>1
    <1>3. /\ \A u : Before(u)' = Before(u)
          /\ HyliSettled = Before(t) /\ HyliSettled' = HyliSettled \cup {t}
          /\ OrderInv'
          /\ \A u \in Txs : status'[u] = IF u = t THEN "success" ELSE status[u]
          /\ \A S \in SUBSET Txs : \A c : t \notin S => (TipOf(S, c)' <=> TipOf(S, c))
        BY <1>2, SettlesFacts DEF Settled
    <1>4. Runs(ledger, t)
        <2>1. CASE Proved(t)
            <3> SUFFICES ASSUME NEW i \in DOMAIN Blobs[t]
                         PROVE  Provable(ledger \o SubSeq(Marks(Blobs[t]), 1, i - 1), Blobs[t][i])
                BY DEF Runs
            <3> DEFINE pre == ledger \o SubSeq(Marks(Blobs[t]), 1, i - 1)
                       p == [tx |-> t, blob |-> i, pre |-> pre, parent |-> pre]
            <3>1. p \in proofs BY <2>1 DEF Proved
            <3>2. p.tx = t /\ p.blob = i /\ p.pre = pre OBVIOUS
            <3> QED BY <1>1, <3>1, <3>2 DEF ProofsInv
        <2>2. CASE ProvableAnywhere(t) BY <2>2 DEF ProvableAnywhere, Runs
        <2> QED BY <2>1, <2>2
    <1>5. Before(t) \in SUBSET Txs /\ t \notin Before(t) /\ \A u \in Txs : Before(u) \in SUBSET Txs
        BY <1>1, BeforeOrder
    <1>6. TipOf(Before(t), ledger) BY <1>1, <1>3 DEF LedgerInv
    <1>7. TipOf(HyliSettled, ledger)'
        <2>1. /\ HyliSettled' = Before(t)' \cup {t} /\ status'[t] = "success"
              /\ commitment'[t] = ledger'
            BY <1>2, <1>3
        <2>2. \A S, c : S \subseteq Before(t)' /\ c = ledger' => TipOf(S \cup {t}, c)'
            BY <2>1, TipAdd
        <2> QED BY <2>1, <2>2
    <1>8. ASSUME NEW u \in Txs, status'[u] = "success"
          PROVE  \E c \in Accounts :
                    /\ TipOf(Before(u), c)'
                    /\ commitment'[u] = c \o Marks(Blobs[u])
                    /\ Runs(c, u)
        <2>1. CASE u = t
            <3>1. commitment'[t] = ledger \o Marks(Blobs[t]) BY <1>2
            <3>2. \A c : TipOf(Before(t), c)' <=> TipOf(Before(t), c) BY <1>3, <1>5
            <3> QED BY <1>1, <1>4, <1>6, <2>1, <3>1, <3>2
        <2>2. CASE u # t
            <3>1. status[u] = "success" /\ commitment'[u] = commitment[u]
                BY <1>2, <1>3, <1>8, <2>2
            <3>2. PICK c \in Accounts : /\ TipOf(Before(u), c)
                                        /\ commitment[u] = c \o Marks(Blobs[u])
                                        /\ Runs(c, u)
                BY <1>1, <3>1 DEF LedgerInv
            <3>3. u \in HyliSettled BY <3>1 DEF HyliSettled, Settled
            <3>4. t \notin Before(u) BY <1>1, <1>3, <3>3, BeforeOrder
            <3>5. TipOf(Before(u), c)' BY <1>3, <1>5, <3>2, <3>4
            <3> QED BY <3>1, <3>2, <3>5
        <2> QED BY <2>1, <2>2
    <1>9. LedgerInv' BY <1>7, <1>8 DEF LedgerInv
    <1>10. ProofsInv' BY <1>1 DEF ProofsInv
    <1> QED BY <1>3, <1>9, <1>10 DEF NodeInv

\* or unsuccessfully.
LEMMA HyliSettlesFailedNode ==
    ASSUME NodeInv, SystemInv, NEW t \in Txs, HyliSettlesFailed(t)
    PROVE  NodeInv'
    <1> USE DEF HyliSettlesFailed, moduleVars
    <1>1. Distinct(order) /\ LedgerInv /\ ProofsInv BY DEF NodeInv, OrderInv
    <1>2. /\ \A u : Before(u)' = Before(u)
          /\ HyliSettled = Before(t) /\ HyliSettled' = HyliSettled \cup {t}
          /\ OrderInv'
          /\ \A u \in Txs : status'[u] = IF u = t THEN "failed" ELSE status[u]
          /\ \A S \in SUBSET Txs : \A c : t \notin S => (TipOf(S, c)' <=> TipOf(S, c))
        BY SettlesFacts DEF Settled
    <1>3. Before(t) \in SUBSET Txs /\ t \notin Before(t) /\ \A u \in Txs : Before(u) \in SUBSET Txs
        BY <1>1, BeforeOrder
    <1>4. TipOf(HyliSettled, ledger)'
        <2>1. status'[t] # "success" BY <1>2
        <2>2. \A c : TipOf(Before(t), c)' <=> TipOf(Before(t), c) BY <1>2, <1>3
        <2>3. TipOf(Before(t), ledger)' BY <1>1, <1>2, <2>2 DEF LedgerInv
        <2>4. \A S, c : TipOf(S \cup {t}, c)' <=> TipOf(S, c)'
            BY <2>1, TipFailed
        <2>5. HyliSettled' = Before(t)' \cup {t} BY <1>2
        <2> QED BY <2>3, <2>4, <2>5
    <1>5. ASSUME NEW u \in Txs, status'[u] = "success"
          PROVE  \E c \in Accounts :
                    /\ TipOf(Before(u), c)'
                    /\ commitment'[u] = c \o Marks(Blobs[u])
                    /\ Runs(c, u)
        <2>1. status[u] = "success" BY <1>2, <1>5
        <2>2. PICK c \in Accounts : /\ TipOf(Before(u), c)
                                    /\ commitment[u] = c \o Marks(Blobs[u])
                                    /\ Runs(c, u)
            BY <1>1, <2>1 DEF LedgerInv
        <2>3. u \in HyliSettled BY <2>1 DEF HyliSettled, Settled
        <2>4. t \notin Before(u) BY <1>1, <1>2, <2>3, BeforeOrder
        <2>5. TipOf(Before(u), c)' BY <1>2, <1>3, <2>2, <2>4
        <2> QED BY <2>2, <2>5
    <1>6. LedgerInv' BY <1>4, <1>5 DEF LedgerInv
    <1>7. ProofsInv' BY <1>1 DEF ProofsInv
    <1> QED BY <1>2, <1>6, <1>7 DEF NodeInv

-----------------------------------------------------------------------------
\* The listener.

\* What was reported is a prefix of the order; what was reported as settled is a prefix of
\* that, and has settled; the commitment told last is that of its last success.
ListenerInv ==
    /\ \A t \in Txs : heard[t] # "nothing" =>
            t \in ToSet(order) /\ \A u \in Before(t) : heard[u] # "nothing"
    /\ \A t \in HeardSettled : status[t] \in Settled /\ Before(t) \subseteq HeardSettled
    /\ TipOf(HeardSettled, told)

\* What was reported as settled when t is the next is what came before t.
LEMMA HeardIsBefore ==
    ASSUME OrderInv, ListenerInv, NEW t \in Txs, status[t] # "unknown", heard[t] # "settled",
           \A u \in Before(t) : heard[u] = "settled"
    PROVE  HeardSettled = Before(t)
    <1>1. t \in ToSet(order) /\ t \notin HeardSettled BY DEF OrderInv, HeardSettled
    <1>2. Before(t) \subseteq HeardSettled BY BeforeOrder DEF OrderInv, HeardSettled
    <1>3. ASSUME NEW u \in HeardSettled PROVE u \in Before(t)
        <2>1. u \in ToSet(order) BY DEF ListenerInv, HeardSettled
        <2>2. t \notin Before(u) BY <1>1 DEF ListenerInv
        <2> QED BY <1>1, <2>1, <2>2, BeforeOrder DEF OrderInv
    <1> QED BY <1>2, <1>3

\* The next success continues what was told.
LEMMA NextCommitment ==
    ASSUME NodeInv, ListenerInv, SystemInv, NEW t \in Txs, status[t] = "success",
           heard[t] # "settled", \A u \in Before(t) : heard[u] = "settled"
    PROVE  commitment[t] = told \o Marks(Blobs[t]) /\ Runs(told, t)
    <1>1. HeardSettled = Before(t) BY HeardIsBefore DEF NodeInv
    <1>2. PICK c \in Accounts : /\ TipOf(Before(t), c)
                                /\ commitment[t] = c \o Marks(Blobs[t])
                                /\ Runs(c, t)
        BY DEF NodeInv, LedgerInv
    <1>3. c = told BY <1>1, <1>2, TipUnique DEF ListenerInv, NodeInv, OrderInv
    <1> QED BY <1>2, <1>3

\* A step without a report, of which what was settled before takes no notice.
LEMMA ListenerSame ==
    ASSUME ListenerInv, OrderInv, heard' = heard, told' = told,
           ToSet(order) \subseteq ToSet(order)',
           \A u \in ToSet(order) : Before(u)' = Before(u),
           \A u \in HyliSettled : status'[u] = status[u] /\ commitment'[u] = commitment[u]
    PROVE  ListenerInv'
    <1>1. HeardSettled' = HeardSettled BY DEF HeardSettled
    <1>2. \A t \in HeardSettled : t \in HyliSettled /\ t \in ToSet(order)
        BY DEF ListenerInv, HeardSettled, HyliSettled
    <1>3. TipOf(HeardSettled, told)'
        <2>1. \A u \in HeardSettled : /\ Before(u)' = Before(u)
                                      /\ status'[u] = status[u] /\ commitment'[u] = commitment[u]
            BY <1>2
        <2>2. \A c : TipOf(HeardSettled, c)' <=> TipOf(HeardSettled, c)
            BY <1>1, <2>1, TipSame
        <2> QED BY <2>2 DEF ListenerInv
    <1>4. \A t \in Txs : heard'[t] # "nothing" =>
            t \in ToSet(order)' /\ \A u \in Before(t)' : heard'[u] # "nothing"
        BY DEF ListenerInv
    <1>5. \A t \in HeardSettled' : status'[t] \in Settled /\ Before(t)' \subseteq HeardSettled'
        BY <1>1, <1>2 DEF ListenerInv
    <1> QED BY <1>3, <1>4, <1>5 DEF ListenerInv

\* The node goes on without the listener.
LEMMA HyliListener ==
    ASSUME NodeInv, ListenerInv, SystemInv, NEW t \in Txs,
           HyliSequences(t) \/ HyliSettlesSuccess(t) \/ HyliSettlesFailed(t)
    PROVE  ListenerInv'
    <1>1. OrderInv /\ Distinct(order) BY DEF NodeInv, OrderInv
    <1>2. /\ status \in [Txs -> {"unknown", "sequenced"} \cup Settled]
          /\ commitment \in [Txs -> Accounts \cup {NoCommitment}]
        BY DEF SystemInv, SystemTypes
    <1>3. heard' = heard /\ told' = told
        BY DEF HyliSequences, HyliSettlesSuccess, HyliSettlesFailed, moduleVars, listenerVars
    <1>4. t \notin HyliSettled
        BY DEF HyliSequences, HyliSettlesSuccess, HyliSettlesFailed, NextToSettle, HyliSettled,
               Settled
    <1>5. \A u \in HyliSettled : status'[u] = status[u] /\ commitment'[u] = commitment[u]
        <2>1. \A u \in HyliSettled : u \in Txs /\ u # t BY <1>4 DEF HyliSettled
        <2> QED BY <1>2, <2>1 DEF HyliSequences, HyliSettlesSuccess, HyliSettlesFailed
    <1>6. ToSet(order) \subseteq ToSet(order)' /\ \A u \in ToSet(order) : Before(u)' = Before(u)
        <2>1. CASE HyliSequences(t)
            <3>1. t \notin ToSet(order) /\ order' = Append(order, t)
                BY <1>1, <2>1 DEF HyliSequences, OrderInv
            <3> QED BY <1>1, <3>1, BeforeAppend
        <2>2. CASE order' = order BY <2>2, BeforeSame
        <2> QED BY <2>1, <2>2 DEF HyliSettlesSuccess, HyliSettlesFailed
    <1> QED BY <1>1, <1>3, <1>5, <1>6, ListenerSame

\* A report that a transaction was sequenced.
LEMMA ReportSequencedListener ==
    ASSUME NodeInv, ListenerInv, SystemInv, NEW t \in Txs, ReportSequenced(t)
    PROVE  ListenerInv'
    <1>1. /\ order' = order /\ status' = status /\ commitment' = commitment /\ told' = told
          /\ heard[t] = "nothing" /\ heard' = [heard EXCEPT ![t] = "sequenced"]
          /\ status[t] # "unknown" /\ \A u \in Before(t) : heard[u] # "nothing"
        BY DEF ReportSequenced, SequencedCatchingUp, SequencedLive, SequencedUnprovable,
               HearSequenced, Hear, hyliVars, listenerVars, Settled
    <1>2. /\ OrderInv /\ Distinct(order) /\ \A u : Before(u)' = Before(u)
          /\ heard \in [Txs -> {"nothing", "sequenced", "settled"}]
        BY <1>1, BeforeSame DEF NodeInv, OrderInv, SystemInv, Inv, TypeOK
    <1>3. \A u \in Txs : heard'[u] = IF u = t THEN "sequenced" ELSE heard[u] BY <1>1, <1>2
    <1>4. HeardSettled' = HeardSettled BY <1>1, <1>3 DEF HeardSettled
    <1>5. \A u \in Txs : Before(u) \subseteq Txs BY <1>2, BeforeOrder
    <1>6. \A u \in Txs : heard'[u] # "nothing" =>
            u \in ToSet(order)' /\ \A v \in Before(u)' : heard'[v] # "nothing"
        BY <1>1, <1>2, <1>3, <1>5 DEF ListenerInv, OrderInv
    <1>7. TipOf(HeardSettled, told)'
        <2>1. \A c : TipOf(HeardSettled, c)' <=> TipOf(HeardSettled, c)
            BY <1>1, <1>2, <1>4, TipSame
        <2> QED BY <1>1, <2>1 DEF ListenerInv
    <1> QED BY <1>1, <1>2, <1>4, <1>6, <1>7 DEF ListenerInv

\* A report that one settled.
LEMMA ReportSettledListener ==
    ASSUME NodeInv, ListenerInv, SystemInv, NEW t \in Txs, ReportSuccess(t) \/ ReportFailed(t)
    PROVE  ListenerInv'
    <1>1. /\ order' = order /\ status' = status /\ commitment' = commitment
          /\ heard[t] # "settled" /\ heard' = [heard EXCEPT ![t] = "settled"]
          /\ status[t] \in Settled /\ \A u \in Before(t) : heard[u] = "settled"
          /\ \/ status[t] = "success" /\ told' = commitment[t]
             \/ status[t] # "success" /\ told' = told
        BY DEF ReportSuccess, ReportFailed, SettledSuccessCatchingUp, SettledSuccessLive,
               SettledFailedCatchingUp, SettledFailedLive, SettledUntracked, HearSettled, Hear,
               hyliVars, listenerVars, Settled
    <1>2. /\ OrderInv /\ Distinct(order) /\ \A u : Before(u)' = Before(u)
          /\ heard \in [Txs -> {"nothing", "sequenced", "settled"}]
        BY <1>1, BeforeSame DEF NodeInv, OrderInv, SystemInv, Inv, TypeOK
    <1>3. \A u \in Txs : heard'[u] = IF u = t THEN "settled" ELSE heard[u] BY <1>1, <1>2
    <1>4. HeardSettled' = HeardSettled \cup {t} BY <1>3 DEF HeardSettled
    <1>5. status[t] # "unknown" /\ t \in ToSet(order) BY <1>1, <1>2 DEF OrderInv, Settled
    <1>6. HeardSettled = Before(t) BY <1>1, <1>2, <1>5, HeardIsBefore
    <1>7. \A u \in Txs : Before(u) \subseteq Txs BY <1>2, BeforeOrder
    <1>8. \A u \in Txs : heard'[u] # "nothing" =>
            u \in ToSet(order)' /\ \A v \in Before(u)' : heard'[v] # "nothing"
        BY <1>1, <1>2, <1>3, <1>5, <1>7 DEF ListenerInv
    <1>9. \A u \in HeardSettled' : status'[u] \in Settled /\ Before(u)' \subseteq HeardSettled'
        BY <1>1, <1>2, <1>4, <1>6 DEF ListenerInv
    <1>10. TipOf(HeardSettled, told)'
        <2>1. CASE status[t] = "success" /\ told' = commitment[t]
            <3>1. \A S, c : S \subseteq Before(t)' /\ c = commitment'[t] => TipOf(S \cup {t}, c)'
                BY <1>1, <2>1, TipAdd
            <3>2. HeardSettled' = Before(t)' \cup {t} /\ told' = commitment'[t]
                BY <1>1, <1>2, <1>4, <1>6, <2>1
            <3> QED BY <3>1, <3>2
        <2>2. CASE status[t] # "success" /\ told' = told
            <3>1. \A S, c : TipOf(S \cup {t}, c)' <=> TipOf(S, c)'
                BY <1>1, <2>2, TipFailed
            <3>2. \A S, c : TipOf(S, c)' <=> TipOf(S, c) BY <1>1, <1>2, TipSame
            <3>3. TipOf(HeardSettled, told) BY DEF ListenerInv
            <3> QED BY <1>4, <2>2, <3>1, <3>2, <3>3
        <2> QED BY <1>1, <2>1, <2>2
    <1> QED BY <1>8, <1>9, <1>10 DEF ListenerInv

\* A restart forgets every report.
LEMMA RestartListener ==
    ASSUME ServerRestart
    PROVE  ListenerInv'
    <1>1. HeardSettled' = {} /\ told' = <<>> /\ \A t \in Txs : heard'[t] = "nothing"
        BY DEF ServerRestart, Restart, HeardSettled
    <1>2. TipOf(HeardSettled, told)' BY <1>1 DEF TipOf
    <1> QED BY <1>1, <1>2 DEF ListenerInv

-----------------------------------------------------------------------------
\* The chain only grows.

\* The account map d goes on where c ends.
Continues(d, c) == \E m \in Accounts : d = c \o m

\* It then has all of c's transactions at their places,
LEMMA ContinuesFacts ==
    ASSUME NEW c \in Accounts, NEW d, Continues(d, c)
    PROVE  /\ Len(c) \in Nat /\ Len(d) \in Nat /\ Len(c) <= Len(d)
           /\ DOMAIN c = 1..Len(c) /\ DOMAIN d = 1..Len(d)
           /\ \A i \in 1..Len(c) : d[i] = c[i]
    <1>1. PICK m \in Accounts : d = c \o m BY DEF Continues
    <1>2. /\ Len(c) \in Nat /\ Len(m) \in Nat /\ Len(d) = Len(c) + Len(m)
          /\ DOMAIN c = 1..Len(c) /\ DOMAIN d = 1..Len(d)
          /\ \A i \in 1..Len(c) : d[i] = c[i]
        BY <1>1, ConcatFacts DEF Accounts
    <1> QED BY <1>2

\* and a map may go on from any that does,
LEMMA ContinuesTransitive ==
    ASSUME NEW c \in Accounts, NEW d \in Accounts, NEW e, Continues(d, c), Continues(e, d)
    PROVE  Continues(e, c)
    <1>1. PICK m \in Accounts : d = c \o m BY DEF Continues
    <1>2. PICK n \in Accounts : e = d \o n BY DEF Continues
    <1>3. e = c \o (m \o n) BY <1>1, <1>2, ConcatAssociative DEF Accounts
    <1>4. m \o n \in Accounts BY ConcatProperties DEF Accounts
    <1> QED BY <1>3, <1>4 DEF Continues

\* from itself, and from nothing.
LEMMA ContinuesItself ==
    ASSUME NEW c \in Accounts
    PROVE  Continues(c, c) /\ Continues(c, <<>>)
    <1>1. <<>> \in Accounts /\ c \o <<>> = c /\ <<>> \o c = c
        BY ConcatEmptySeq, EmptySeq DEF Accounts
    <1> QED BY <1>1 DEF Continues

\* Every transaction was executed, and an account's nonces go up.
NoncesGrow(c) ==
    \A i \in DOMAIN c :
        /\ c[i].ran /\ c[i].tx \in Decodable
        /\ \A j \in DOMAIN c : j < i /\ Sender[c[j].tx] = Sender[c[i].tx] =>
                Nonce[c[j].tx] < Nonce[c[i].tx]

\* The transactions of an account map are EVM transactions, with natural nonces.
LEMMA AccountsElements ==
    ASSUME NEW c \in Accounts
    PROVE  /\ Len(c) \in Nat /\ DOMAIN c = 1..Len(c)
           /\ \A i \in DOMAIN c : c[i].tx \in Evm /\ Nonce[c[i].tx] \in Nat
    <1>1. c \in Seq(Mark) BY DEF Accounts
    <1>2. Len(c) \in Nat /\ DOMAIN c = 1..Len(c) BY <1>1, LenProperties
    <1>3. ASSUME NEW i \in DOMAIN c PROVE c[i].tx \in Evm /\ Nonce[c[i].tx] \in Nat
        <2>1. c[i] \in Mark BY <1>1, <1>2, ElementOfSeq
        <2>2. c[i].tx \in Evm BY <2>1 DEF Mark
        <2> QED BY <2>2, EthAssumption
    <1> QED BY <1>2, <1>3

\* So none was executed twice.
LEMMA ExecutedOnce ==
    ASSUME NEW c \in Accounts, NoncesGrow(c)
    PROVE  \A i, j \in DOMAIN c : c[i].tx = c[j].tx => i = j
    <1> SUFFICES ASSUME NEW i \in DOMAIN c, NEW j \in DOMAIN c, c[i].tx = c[j].tx, j < i
                 PROVE  FALSE
        BY LenProperties DEF Accounts
    <1>1. Nonce[c[i].tx] \in Nat BY AccountsElements
    <1>2. Nonce[c[j].tx] < Nonce[c[i].tx] BY DEF NoncesGrow
    <1> QED BY <1>1, <1>2

\* The marks of an account, and the last of them.
OwnMarks(c, a) == {i \in DOMAIN c : c[i].tx \in Decodable /\ Sender[c[i].tx] = a}

LastOwn(c, a, j) == j \in OwnMarks(c, a) /\ \A i \in OwnMarks(c, a) : i <= j

\* The nonce of an account is what its last mark left.
LEMMA NonceOfLast ==
    ASSUME NEW c \in Accounts, NEW a
    PROVE  /\ OwnMarks(c, a) = {} => AccountNonce(c, a) = 0
           /\ OwnMarks(c, a) # {} => \E j : LastOwn(c, a, j)
           /\ \A j : LastOwn(c, a, j) =>
                /\ AccountNonce(c, a) = Nonce[c[j].tx] + (IF c[j].ran THEN 1 ELSE 0)
                /\ c[j].tx \in Evm /\ Nonce[c[j].tx] \in Nat
    <1> DEFINE own == OwnMarks(c, a)
               last == CHOOSE i \in own : \A j \in own : j <= i
    <1>1. Len(c) \in Nat /\ DOMAIN c = 1..Len(c) /\ \A i \in DOMAIN c : c[i].tx \in Evm
        BY AccountsElements
    <1>2. AccountNonce(c, a) = IF own = {} THEN 0
                               ELSE Nonce[c[last].tx] + (IF c[last].ran THEN 1 ELSE 0)
        BY DEF AccountNonce, OwnMarks
    <1>3. own \subseteq 0..Len(c) /\ own \subseteq DOMAIN c BY <1>1 DEF OwnMarks
    <1> HIDE DEF own
    <1>4. own # {} => \E j \in own : \A i \in own : i <= j
        BY <1>1, <1>3, GreatestNat
    <1>5. ASSUME NEW j, LastOwn(c, a, j)
          PROVE  j = last /\ j \in own
        <2>1. j \in own /\ \A i \in own : i <= j BY <1>5 DEF LastOwn, own
        <2>2. last \in own /\ \A i \in own : i <= last BY <2>1
        <2> HIDE DEF last
        <2>3. j <= last /\ last <= j /\ j \in Nat /\ last \in Nat BY <1>1, <1>3, <2>1, <2>2
        <2> QED BY <2>1, <2>3
    <1>6. own = {} => AccountNonce(c, a) = 0 BY <1>2
    <1>7. ASSUME NEW j, LastOwn(c, a, j)
          PROVE  /\ AccountNonce(c, a) = Nonce[c[j].tx] + (IF c[j].ran THEN 1 ELSE 0)
                 /\ c[j].tx \in Evm /\ Nonce[c[j].tx] \in Nat
        <2>1. j = last /\ j \in own BY <1>5, <1>7
        <2>2. c[j].tx \in Evm BY <1>1, <1>3, <2>1
        <2> HIDE DEF last
        <2> QED BY <1>2, <2>1, <2>2, EthAssumption
    <1> QED BY <1>4, <1>6, <1>7 DEF LastOwn, own

\* A transaction that can be proved uses a nonce higher than any of its sender.
LEMMA ProvableNonce ==
    ASSUME NEW c \in Accounts, NoncesGrow(c), NEW e, Provable(c, e)
    PROVE  \A j \in DOMAIN c : Sender[c[j].tx] = Sender[e] => Nonce[c[j].tx] < Nonce[e]
    <1> SUFFICES ASSUME NEW k \in DOMAIN c, Sender[c[k].tx] = Sender[e]
                 PROVE  Nonce[c[k].tx] < Nonce[e]
        OBVIOUS
    <1>1. Len(c) \in Nat /\ DOMAIN c = 1..Len(c) /\ Nonce[c[k].tx] \in Nat
        BY AccountsElements
    <1>2. k \in OwnMarks(c, Sender[e]) BY DEF OwnMarks, NoncesGrow
    <1>3. PICK last : LastOwn(c, Sender[e], last) BY <1>2, NonceOfLast
    <1>4. /\ AccountNonce(c, Sender[e])
                = Nonce[c[last].tx] + (IF c[last].ran THEN 1 ELSE 0)
          /\ Nonce[c[last].tx] \in Nat
        BY <1>3, NonceOfLast
    <1>5. last \in DOMAIN c /\ Sender[c[last].tx] = Sender[e] /\ k <= last
        BY <1>2, <1>3 DEF LastOwn, OwnMarks
    <1>6. Nonce[e] = Nonce[c[last].tx] + 1
        <2>1. Nonce[e] = AccountNonce(c, Sender[e]) BY DEF Provable
        <2>2. c[last].ran BY <1>5 DEF NoncesGrow
        <2> QED BY <1>4, <2>1, <2>2
    <1>7. k = last \/ Nonce[c[k].tx] < Nonce[c[last].tx]
        <2>1. k = last \/ k < last BY <1>1, <1>5
        <2> QED BY <1>5, <2>1 DEF NoncesGrow
    <1> QED BY <1>1, <1>4, <1>6, <1>7

\* One more execution that can be proved keeps the nonces growing,
LEMMA NoncesGrowByOne ==
    ASSUME NEW c \in Accounts, NoncesGrow(c), NEW e \in Evm, Provable(c, e),
           NEW d, d = c \o <<[tx |-> e, ran |-> TRUE]>>
    PROVE  NoncesGrow(d)
    <1>0. PICK m : m = [tx |-> e, ran |-> TRUE] OBVIOUS
    <1>1. m.tx = e /\ m.ran /\ e \in Decodable BY <1>0, EthAssumption DEF Provable
    <1>2. <<m>> \in Seq(Mark) /\ c \in Seq(Mark) /\ d = c \o <<m>> BY <1>0 DEF Accounts, Mark
    <1>3. PICK l \in Nat : l = Len(c) BY AccountsElements
    <1>4. /\ DOMAIN c = 1..l /\ DOMAIN d = 1..(l + 1) /\ d[l + 1] = m
          /\ \A i \in 1..l : d[i] = c[i]
        <2>1. /\ Len(c \o <<m>>) = Len(c) + 1 /\ DOMAIN c = 1..Len(c)
              /\ DOMAIN (c \o <<m>>) = 1..Len(c \o <<m>>)
              /\ \A i \in 1..Len(c) : (c \o <<m>>)[i] = c[i]
              /\ \A i \in 1..1 : (c \o <<m>>)[Len(c) + i] = m
            BY ONLY <1>2, ConcatFacts
        <2> QED BY <1>2, <1>3, <2>1
    <1>5. \A j \in DOMAIN c : Sender[c[j].tx] = Sender[e] => Nonce[c[j].tx] < Nonce[e]
        BY ProvableNonce
    <1> SUFFICES ASSUME NEW i \in 1..(l + 1)
                 PROVE  /\ d[i].ran /\ d[i].tx \in Decodable
                        /\ \A j \in 1..(l + 1) : j < i /\ Sender[d[j].tx] = Sender[d[i].tx] =>
                                Nonce[d[j].tx] < Nonce[d[i].tx]
        BY <1>4 DEF NoncesGrow
    <1>6. CASE i = l + 1
        <2>1. d[i].tx = e /\ d[i].ran BY <1>1, <1>4, <1>6
        <2>2. \A j \in 1..(l + 1) : j < i => j \in DOMAIN c /\ d[j] = c[j] BY <1>3, <1>4, <1>6
        <2> QED BY <1>1, <1>5, <2>1, <2>2
    <1>7. CASE i \in 1..l
        <2>1. i \in DOMAIN c /\ d[i] = c[i] BY <1>4, <1>7
        <2>2. \A j \in 1..(l + 1) : j < i => j \in DOMAIN c /\ d[j] = c[j] BY <1>3, <1>4, <1>7
        <2> QED BY <2>1, <2>2 DEF NoncesGrow
    <1>8. i = l + 1 \/ i \in 1..l BY <1>3
    <1> QED BY <1>6, <1>7, <1>8

\* and so does a transaction whose blobs run.
LEMMA NoncesGrowByRuns ==
    ASSUME NEW c \in Accounts, NoncesGrow(c), NEW t \in Txs, Runs(c, t)
    PROVE  NoncesGrow(c \o Marks(Blobs[t]))
    <1>0. PICK b, m : b = Blobs[t] /\ m = Marks(b) OBVIOUS
    <1>1. PICK l : l = Len(b) OBVIOUS
    <1>2. /\ b \in Seq(Evm) /\ m \in Seq(Mark) /\ Len(m) = l /\ l \in Nat /\ DOMAIN b = 1..l
          /\ c \in Seq(Mark)
        BY <1>0, <1>1, BlobsType, MarksType, LenProperties DEF Accounts
    <1>3. \A k \in 1..l : m[k] = [tx |-> b[k], ran |-> b[k] \in Executable] /\ b[k] \in Evm
        BY <1>0, <1>1, <1>2, ElementOfSeq DEF Marks
    <1> DEFINE at(k) == c \o SubSeq(m, 1, k)
               Bad == {k \in 0..l : ~NoncesGrow(at(k))}
    <1>4. SubSeq(m, 1, l) = m BY <1>2, SubSeqFull
    <1>5. ASSUME Bad # {} PROVE FALSE
        <2>1. PICK k \in Bad : \A j \in Bad : k <= j
            <3>1. Bad \subseteq Nat OBVIOUS
            <3> HIDE DEF Bad
            <3> QED BY <1>5, <3>1, LeastNat
        <2>2. k # 0
            <3>1. SubSeq(m, 1, 0) = <<>> BY SubSeqEmpty
            <3>2. at(0) = c BY <1>2, <3>1, ConcatEmptySeq
            <3> QED BY <2>1, <3>2
        <2>3. k \in 1..l /\ k - 1 \in 0..l BY <1>2, <2>1, <2>2
        <2>4. NoncesGrow(at(k - 1)) BY <2>1, <2>3
        <2>5. SubSeq(m, 1, k) = SubSeq(m, 1, k - 1) \o <<m[k]>>
            <3>1. 1 \in 1..Len(m) /\ k \in 1..Len(m) BY <1>2, <2>3
            <3> QED BY <1>2, <3>1, SubSeqRecursiveSecond
        <2>6. SubSeq(m, 1, k - 1) \in Seq(Mark) /\ <<m[k]>> \in Seq(Mark)
            <3>1. \A i \in 1..(k - 1) : m[i] \in Mark BY <1>2, <2>3, ElementOfSeq
            <3>2. m[k] \in Mark BY <1>2, <2>3, ElementOfSeq
            <3> QED BY <2>3, <3>1, <3>2, SubSeqProperties
        <2>7. at(k) = at(k - 1) \o <<m[k]>>
            <3>1. PICK r, x : r = SubSeq(m, 1, k - 1) /\ x = <<m[k]>> OBVIOUS
            <3>2. c \in Seq(Mark) /\ r \in Seq(Mark) /\ x \in Seq(Mark) BY <1>2, <2>6, <3>1
            <3>3. (c \o r) \o x = c \o (r \o x) BY ONLY <3>2, ConcatAssociative
            <3> QED BY <2>5, <3>1, <3>3
        <2>8. Provable(at(k - 1), b[k]) BY <1>0, <1>2, <2>3 DEF Runs
        <2>9. m[k] = [tx |-> b[k], ran |-> TRUE] /\ b[k] \in Evm
            BY <1>3, <2>3, <2>8 DEF Provable
        <2>10. at(k - 1) \in Accounts BY <1>2, <2>6, ConcatProperties DEF Accounts
        <2>11. NoncesGrow(at(k)) BY <2>4, <2>7, <2>8, <2>9, <2>10, NoncesGrowByOne
        <2> QED BY <2>1, <2>11
    <1>6. l \in 0..l BY <1>2
    <1>7. NoncesGrow(at(l)) BY <1>5, <1>6
    <1> QED BY <1>0, <1>4, <1>7

\* Of some transactions, one is the first.
LEMMA FirstOf ==
    ASSUME Distinct(order), NEW S, S \subseteq ToSet(order), S # {}
    PROVE  \E x \in S : \A y \in S : y = x \/ x \in Before(y)
    <1>1. Len(order) \in Nat /\ DOMAIN order = 1..Len(order)
        BY LenProperties DEF Distinct
    <1> DEFINE T == {i \in 1..Len(order) : order[i] \in S}
    <1>2. \A y \in S : \E i \in T : order[i] = y BY <1>1 DEF ToSet
    <1>3. T \subseteq Nat /\ T # {} BY <1>1, <1>2
    <1>4. PICK i \in T : \A j \in T : i <= j BY <1>3, LeastNat
    <1>5. ASSUME NEW y \in S PROVE y = order[i] \/ order[i] \in Before(y)
        <2>1. PICK j \in T : order[j] = y BY <1>2
        <2>2. j = i \/ i < j BY <1>4
        <2> QED BY <1>1, <2>1, <2>2, BeforeIs
    <1> QED BY <1>4, <1>5

\* A success continues those before it, with growing nonces:
Grown(w) ==
    /\ NoncesGrow(commitment[w])
    /\ \A u \in Before(w) : status[u] = "success" => Continues(commitment[w], commitment[u])

LEMMA SuccessesGrow ==
    ASSUME NodeInv, SystemInv
    PROVE  \A w \in Txs : status[w] = "success" => Grown(w)
    <1> DEFINE Bad == {w \in Txs : status[w] = "success" /\ ~Grown(w)}
    <1> SUFFICES ASSUME Bad # {} PROVE FALSE OBVIOUS
    <1>1. OrderInv /\ Distinct(order) /\ LedgerInv /\ \A u : Before(u) \subseteq Txs
        BY BeforeOrder DEF NodeInv, OrderInv
    <1>2. Bad \subseteq ToSet(order) BY <1>1 DEF OrderInv
    <1>3. PICK w \in Bad : \A y \in Bad : y = w \/ w \in Before(y)
        <2> HIDE DEF Bad
        <2> QED BY <1>1, <1>2, FirstOf
    <1>4. \A u \in Before(w) : status[u] = "success" => Grown(u)
        <2>1. \A u \in Before(w) : u \notin Bad BY <1>1, <1>3, BeforeOrder
        <2> QED BY <1>1, <2>1
    <1>5. PICK c \in Accounts : /\ TipOf(Before(w), c)
                                /\ commitment[w] = c \o Marks(Blobs[w])
                                /\ Runs(c, w)
        BY <1>1, <1>3 DEF LedgerInv
    <1>6. Marks(Blobs[w]) \in Accounts BY <1>3, BlobsType, MarksType DEF Accounts
    <1>7. Continues(commitment[w], c) BY <1>5, <1>6 DEF Continues
    <1>8. \A u \in Txs : status[u] = "success" => commitment[u] \in Accounts
        BY DEF SystemInv, SystemTypes
    <1>9. CASE c = <<>> /\ \A u \in Before(w) : status[u] # "success"
        <2>1. NoncesGrow(c) BY <1>9, EmptySeq DEF NoncesGrow
        <2>2. NoncesGrow(commitment[w]) BY <1>5, <2>1, NoncesGrowByRuns
        <2> QED BY <1>3, <1>9, <2>2 DEF Grown
    <1>10. ASSUME NEW v \in Before(w), status[v] = "success", c = commitment[v],
                  \A u \in Before(w) : status[u] = "success" => u = v \/ u \in Before(v)
           PROVE  FALSE
        <2>1. Grown(v) BY <1>4, <1>10
        <2>2. NoncesGrow(commitment[w]) BY <1>5, <1>10, <2>1, NoncesGrowByRuns DEF Grown
        <2>3. ASSUME NEW u \in Before(w), status[u] = "success"
              PROVE  Continues(commitment[w], commitment[u])
            <3>1. CASE u = v BY <1>7, <1>10, <3>1
            <3>2. CASE u \in Before(v)
                <4>1. Continues(c, commitment[u]) BY <1>10, <2>1, <2>3, <3>2 DEF Grown
                <4>2. commitment[u] \in Accounts BY <1>1, <1>8, <2>3
                <4> QED BY <1>7, <4>1, <4>2, ContinuesTransitive
            <3> QED BY <1>10, <2>3, <3>1, <3>2
        <2> QED BY <1>3, <2>2, <2>3 DEF Grown
    <1>11. \/ c = <<>> /\ \A u \in Before(w) : status[u] # "success"
           \/ \E v \in Before(w) :
                /\ status[v] = "success" /\ c = commitment[v]
                /\ \A u \in Before(w) : status[u] = "success" => u = v \/ u \in Before(v)
        BY <1>5 DEF TipOf
    <1> QED BY <1>9, <1>10, <1>11

\* so what a set of transactions leads to continues each success among them.
LEMMA TipGrown ==
    ASSUME NodeInv, SystemInv, NEW S \in SUBSET Txs, NEW c, TipOf(S, c)
    PROVE  /\ c \in Accounts /\ NoncesGrow(c)
           /\ \A u \in S : status[u] = "success" => Continues(c, commitment[u])
    <1>1. \A u \in Txs : status[u] = "success" => commitment[u] \in Accounts /\ Grown(u)
        BY SuccessesGrow DEF SystemInv, SystemTypes
    <1>2. CASE c = <<>> /\ \A u \in S : status[u] # "success"
        BY <1>2, EmptySeq DEF NoncesGrow, Accounts
    <1>3. ASSUME NEW v \in S, status[v] = "success", c = commitment[v],
                 \A u \in S : status[u] = "success" => u = v \/ u \in Before(v)
          PROVE  /\ c \in Accounts /\ NoncesGrow(c)
                 /\ \A u \in S : status[u] = "success" => Continues(c, commitment[u])
        <2>1. c \in Accounts /\ Grown(v) BY <1>1, <1>3
        <2>2. Continues(c, c) BY <2>1, ContinuesItself
        <2> QED BY <1>3, <2>1, <2>2 DEF Grown
    <1>4. \/ c = <<>> /\ \A u \in S : status[u] # "success"
          \/ \E v \in S :
                /\ status[v] = "success" /\ c = commitment[v]
                /\ \A u \in S : status[u] = "success" => u = v \/ u \in Before(v)
        BY DEF TipOf
    <1> QED BY <1>2, <1>3, <1>4

\* The ledger continues what was told, and every success.
LEMMA LedgerGrown ==
    ASSUME NodeInv, SystemInv, ListenerInv
    PROVE  /\ NoncesGrow(ledger) /\ NoncesGrow(told)
           /\ Continues(ledger, told)
           /\ \A u \in Txs : status[u] = "success" => Continues(ledger, commitment[u])
           /\ \A u \in HeardSettled : status[u] = "success" => Continues(told, commitment[u])
    <1>1. /\ HyliSettled \in SUBSET Txs /\ HeardSettled \in SUBSET Txs
          /\ HeardSettled \subseteq HyliSettled
          /\ \A u \in Txs : status[u] = "success" => u \in HyliSettled
        BY DEF HyliSettled, HeardSettled, ListenerInv, Settled
    <1>2. TipOf(HyliSettled, ledger) /\ TipOf(HeardSettled, told)
        BY DEF NodeInv, LedgerInv, ListenerInv
    <1>3. /\ NoncesGrow(ledger) /\ ledger \in Accounts
          /\ \A u \in HyliSettled : status[u] = "success" => Continues(ledger, commitment[u])
        BY <1>1, <1>2, TipGrown
    <1>4. /\ NoncesGrow(told)
          /\ \A u \in HeardSettled : status[u] = "success" => Continues(told, commitment[u])
        BY <1>1, <1>2, TipGrown
    <1>5. Continues(ledger, told)
        <2>1. told = <<>> \/ \E u \in HeardSettled : status[u] = "success" /\ told = commitment[u]
            BY <1>2 DEF TipOf
        <2> QED BY <1>1, <1>3, <2>1, ContinuesItself
    <1> QED BY <1>1, <1>3, <1>4, <1>5

=============================================================================
