------------------------- MODULE BridgeServer_proofs -------------------------
(***************************************************************************)
(* The start-up lets no server through before its contracts exist, for any *)
(* list of contracts, any number of restarts and timeouts, and any other   *)
(* servers that register the same contracts.  Its properties are not       *)
(* inductive: a process that goes on to its next contract relies on all    *)
(* the earlier ones being there (Behind).                                  *)
(*                                                                         *)
(* The invariants of the start-up and of the running server hold together: *)
(* whatever the node does while the server is down or starting, and        *)
(* whatever deployments, provers and contract names there are.             *)
(*                                                                         *)
(* The start-up and the stops are steps that the invariants of the         *)
(* composed system survive (StartsUpCanonical, ServerStepsNext), so what   *)
(* is proved of RethSystem is proved of the deployed server.  What a       *)
(* deployment leaves in a state is then a matter of where the transactions *)
(* of a state come from (MadeInv), and of what the policy rejects          *)
(* (DeploymentInv).                                                        *)
(***************************************************************************)
EXTENDS BridgeServer, RethCanonical_proofs

-----------------------------------------------------------------------------
\* The start-up by itself.

\* The contracts before the current one exist.
Behind ==
    boot # "exited" => \A j \in DOMAIN Contracts : j < step => Contracts[j] \in registered

InitInv == InitTypeOK /\ Behind /\ RunningHasContracts /\ RegisteredInOrder

\* The contracts are numbered from 1, and there is one.
LEMMA ContractsNumbered ==
    Len(Contracts) \in Nat \ {0} /\ DOMAIN Contracts = 1..Len(Contracts)
    BY InitAssumption, LenProperties, EmptySeq

\* The first start finds nothing, and has asked for nothing.
LEMMA StartUpInitInv == StartUpInit => InitInv
    BY ContractsNumbered
    DEF StartUpInit, InitInv, InitTypeOK, Behind, RunningHasContracts, RegisteredInOrder

-----------------------------------------------------------------------------
\* The process.

\* A step that leaves the node alone and ends or begins a life of the process.
LEMMA ExitInv ==
    ASSUME InitInv, Launch \/ RegisterErr \/ WaitTimeout \/ Stop
    PROVE  InitInv'
    <1> USE DEF InitInv, InitTypeOK, Behind, RunningHasContracts, RegisteredInOrder
    <1>1. CASE Launch BY <1>1, ContractsNumbered DEF Launch
    <1>2. CASE RegisterErr \/ WaitTimeout \/ Stop
        BY <1>2 DEF RegisterErr, WaitTimeout, Stop, Exit
    <1> QED BY <1>1, <1>2

\* The current contract was found: those before the next one exist, and behind the last one
\* all of them do.
LEMMA FoundInv ==
    ASSUME InitInv, CheckOk \/ WaitOk
    PROVE  InitInv'
    <1> USE DEF InitInv, InitTypeOK
    <1>1. /\ Contracts[step] \in registered
          /\ boot \in {"check", "wait"}
          /\ ContractIsThere
          /\ UNCHANGED <<requests, registered>>
        BY DEF CheckOk, WaitOk, Contract
    <1>2. \A j \in DOMAIN Contracts : j <= step => Contracts[j] \in registered
        BY <1>1, ContractsNumbered DEF Behind
    <1>3. CASE step = Len(Contracts)
        <2>1. boot' = "running" /\ step' = step BY <1>1, <1>3 DEF ContractIsThere
        <2>2. Names \subseteq registered BY <1>2, <1>3, ContractsNumbered DEF Names
        <2> QED BY <1>1, <1>2, <2>1, <2>2 DEF Behind, RunningHasContracts, RegisteredInOrder
    <1>4. CASE step # Len(Contracts)
        <2>1. boot' = "check" /\ step' = step + 1 BY <1>1, <1>4 DEF ContractIsThere
        <2>2. step' \in DOMAIN Contracts BY <1>4, <2>1, ContractsNumbered
        <2>3. \A j \in DOMAIN Contracts : j < step' => j <= step BY <2>1, ContractsNumbered
        <2> QED BY <1>1, <1>2, <2>1, <2>2, <2>3
                DEF Behind, RunningHasContracts, RegisteredInOrder
    <1> QED BY <1>3, <1>4

\* The current contract is asked for: those before it exist already.
LEMMA AskInv ==
    ASSUME InitInv, CheckErr \/ RegisterOk
    PROVE  InitInv'
    <1> USE DEF InitInv, InitTypeOK
    <1>1. CASE CheckErr
        BY <1>1 DEF CheckErr, Behind, RunningHasContracts, RegisteredInOrder
    <1>2. CASE RegisterOk
        <2>1. /\ boot' = "wait" /\ boot # "exited"
              /\ requests' \subseteq requests \cup {Contracts[step]}
              /\ UNCHANGED <<step, registered>>
            BY <1>2 DEF RegisterOk, Contract
        <2>2. requests' \subseteq Names BY <2>1, ContractsNumbered DEF Names
        <2>3. RegisteredInOrder'
            <3> SUFFICES ASSUME NEW i \in DOMAIN Contracts, NEW j \in DOMAIN Contracts,
                                j < i, Contracts[i] \in requests'
                         PROVE  Contracts[j] \in registered
                BY <2>1 DEF RegisteredInOrder
            <3>1. CASE Contracts[i] \in requests BY <3>1 DEF RegisteredInOrder
            <3>2. CASE Contracts[i] = Contracts[step]
                BY <2>1, <3>2, InitAssumption DEF Behind
            <3> QED BY <2>1, <3>1, <3>2
        <2> QED BY <2>1, <2>2, <2>3 DEF Behind, RunningHasContracts
    <1> QED BY <1>1, <1>2

-----------------------------------------------------------------------------

\* The node only adds contracts, and only removes requests.
LEMMA NodeStepInv ==
    ASSUME InitInv, Node
    PROVE  InitInv'
    <1>1. /\ registered \subseteq registered' /\ registered' \subseteq Names
          /\ requests' \subseteq requests
          /\ UNCHANGED <<boot, step>>
        BY DEF Node, NodeRegisters, NodeLoses, OthersRegister, InitInv, InitTypeOK
    <1> QED BY <1>1 DEF InitInv, InitTypeOK, Behind, RunningHasContracts, RegisteredInOrder

\* A step of a module that is composed with this one changes nothing here.
LEMMA InitStutterInv ==
    ASSUME InitInv, UNCHANGED initVars
    PROVE  InitInv'
    BY DEF InitInv, InitTypeOK, Behind, RunningHasContracts, RegisteredInOrder, initVars

\* A step of the start-up.
LEMMA StartUpInv ==
    ASSUME InitInv, StartUp
    PROVE  InitInv'
    BY ExitInv, FoundInv, AskInv DEF StartUp

\* The inductive invariant of the start-up.
THEOREM StartUpInvariant == StartUpSpec => []InitInv
    <1>1. InitInv /\ StartUpNext => InitInv' BY StartUpInv, ExitInv, NodeStepInv DEF StartUpNext
    <1> QED BY <1>1, InitStutterInv, StartUpInitInv, PTL DEF StartUpSpec

\* The process is at one of its contracts, and the node holds only names of the list.
THEOREM StartUpTypeCorrect == StartUpSpec => []InitTypeOK
    <1>1. InitInv => InitTypeOK BY DEF InitInv
    <1> QED BY <1>1, StartUpInvariant, PTL

\* A server that got past init_contracts finds every contract on the node.
THEOREM StartUpRegisters == StartUpSpec => []RunningHasContracts
    <1>1. InitInv => RunningHasContracts BY DEF InitInv
    <1> QED BY <1>1, StartUpInvariant, PTL

\* No contract is asked for before those that precede it exist.
THEOREM StartUpInOrder == StartUpSpec => []RegisteredInOrder
    <1>1. InitInv => RegisteredInOrder BY DEF InitInv
    <1> QED BY <1>1, StartUpInvariant, PTL

-----------------------------------------------------------------------------
\* The start-up and the running server together.

ServerInv == InitInv /\ SystemInv

\* The whole starts in the invariant.
LEMMA ServerInitInv == ServerInit => ServerInv
    BY InitSystemInv, StartUpInitInv DEF ServerInit, ServerInv

\* The start-up gives the listener what Hyli has sequenced by then.
LEMMA StartsUpInv ==
    ASSUME ServerInv, StartsUp
    PROVE  ServerInv'
    <1>1. InitInv' BY StartUpInv DEF ServerInv, StartsUp
    <1>2. Inv' BY StutterInv DEF ServerInv, SystemInv, StartsUp
    <1>3. ToSet(order) \subseteq Txs
        BY LenProperties, ElementOfSeq DEF ServerInv, SystemInv, SystemTypes, ToSet
    <1>4. SystemTypes'
        BY <1>3 DEF ServerInv, SystemInv, SystemTypes, StartsUp, hyliVars, clientVars
    <1> QED BY <1>1, <1>2, <1>4 DEF ServerInv, SystemInv

\* The server stops.
LEMMA CrashesInv ==
    ASSUME ServerInv, Crashes
    PROVE  ServerInv'
    BY ServerRestartInv, ExitInv DEF ServerInv, Crashes

\* The running server, and Hyli, leave the start-up alone.
LEMMA RunningInv ==
    ASSUME ServerInv,
           \/ EndsBackfill \/ Replays \/ Answers
           \/ \E t \in Txs : Reports(t) \/ Sequences(t) \/ Succeeds(t) \/ Fails(t)
    PROVE  ServerInv'
    <1>1. UNCHANGED initVars
        BY DEF EndsBackfill, Replays, Answers, Reports, Sequences, Succeeds, Fails
    <1>2. InitInv' BY <1>1, InitStutterInv DEF ServerInv
    <1>3. ASSUME EndsBackfill \/ Replays PROVE SystemInv'
        BY <1>3, ServerStepInv DEF ServerInv, EndsBackfill, Replays
    <1>4. ASSUME Answers PROVE SystemInv'
        BY <1>4, WalletInv, IndexerInv DEF ServerInv, Answers
    <1>5. ASSUME NEW t \in Txs, Reports(t) PROVE SystemInv'
        BY <1>5, ReportSequencedInv, ReportSuccessInv, ReportFailedInv DEF ServerInv, Reports
    <1>6. ASSUME NEW t \in Txs, Sequences(t) \/ Succeeds(t) \/ Fails(t) PROVE SystemInv'
        BY <1>6, HyliSequencesInv, HyliSettlesSuccessInv, HyliSettlesFailedInv
        DEF ServerInv, Sequences, Succeeds, Fails
    <1> QED BY <1>2, <1>3, <1>4, <1>5, <1>6 DEF ServerInv

\* The node registers contracts while RethModule goes on.
LEMMA NodeStepsInv ==
    ASSUME ServerInv, NodeSteps
    PROVE  ServerInv'
    <1>1. InitInv' BY NodeStepInv DEF ServerInv, NodeSteps
    <1>2. Inv' BY StutterInv DEF ServerInv, SystemInv, NodeSteps, vars, moduleVars
    <1>3. SystemTypes'
        BY DEF ServerInv, SystemInv, SystemTypes, NodeSteps, vars, hyliVars, listenerVars,
               clientVars
    <1> QED BY <1>1, <1>2, <1>3 DEF ServerInv, SystemInv

-----------------------------------------------------------------------------

\* The inductive invariant of the deployed server.
THEOREM ServerInvariant == ServerSpec => []ServerInv
    <1>1. ServerInv /\ ServerNext => ServerInv'
        BY StartsUpInv, CrashesInv, RunningInv, NodeStepsInv DEF ServerNext
    <1>2. ServerInv /\ UNCHANGED serverVars => ServerInv'
        BY StutterInv, InitStutterInv
        DEF ServerInv, SystemInv, SystemTypes, serverVars, vars, moduleVars, hyliVars,
            listenerVars, clientVars
    <1> QED BY <1>1, <1>2, ServerInitInv, PTL DEF ServerSpec

\* A running server finds every contract on the node, in every life of it.
THEOREM ServerRunsOnContracts == ServerSpec => []RunningHasContracts
    <1>1. ServerInv => RunningHasContracts BY DEF ServerInv, InitInv
    <1> QED BY <1>1, ServerInvariant, PTL

\* No contract is asked for before those that precede it exist, in every life of the server.
THEOREM ServerRegistersInOrder == ServerSpec => []RegisteredInOrder
    <1>1. ServerInv => RegisteredInOrder BY DEF ServerInv, InitInv
    <1> QED BY <1>1, ServerInvariant, PTL

\* Every state served or proved against has the headers of its last blocks and at most one
\* transaction in a block, though events pile up while the server is down.
THEOREM ServerStatesServable == ServerSpec => [](HeadersChained /\ OneTxPerBlock)
    <1>1. ServerInv => HeadersChained /\ OneTxPerBlock
        BY DEF ServerInv, SystemInv, Inv, AllSound, SoundHistory, HeadersChained,
               OneTxPerBlock, ServedStates, Sound
    <1> QED BY <1>1, ServerInvariant, PTL

-----------------------------------------------------------------------------
\* The invariant of the composed system, in the deployed server.

\* Only what the listener finds when it starts is not a step of that system: nothing has been
\* reported or recorded by then that could tell.
LEMMA StartsUpCanonical ==
    ASSUME CanonicalInv, ServerInv', StartsUp
    PROVE  CanonicalInv'
    <1> USE DEF StartsUp, moduleVars, hyliVars, CanonicalInv, TrackingInv
    <1>1. \A t : Before(t)' = Before(t) BY BeforeSame
    <1>2. SystemInv' BY DEF ServerInv
    <1>3. NodeInv' BY NodeSame
    <1>4. ListenerInv' BY <1>1, ListenerSame DEF NodeInv
    <1>5. ChainInv' BY <1>1, ChainSame
    <1>6. SpeculationInv'
        <2>1. HeardSettled' = HeardSettled /\ HeardSequenced' = HeardSequenced
            BY DEF HeardSettled, HeardSequenced
        <2>2. Agree(settled, settled') BY DEF Agree
        <2> QED BY <1>1, <2>1, <2>2, SpeculationSame
    <1> QED BY <1>2, <1>3, <1>4, <1>5, <1>6

\* Every other step is one, or none.
LEMMA ServerStepsNext ==
    ASSUME ServerNext, ~StartsUp
    PROVE  [Next]_vars
    BY DEF ServerNext, Crashes, EndsBackfill, Replays, Answers, NodeSteps, Reports, Sequences,
           Succeeds, Fails, Next

\* So the deployed server keeps the invariant of the composed system,
THEOREM ServerCanonical == ServerSpec => []CanonicalInv
    <1>1. ServerInit => CanonicalInv
        BY InitTrackingInv, InitSpeculation DEF ServerInit, CanonicalInv
    <1>2. ServerInv' /\ CanonicalInv /\ [ServerNext]_serverVars => CanonicalInv'
        BY StartsUpCanonical, ServerStepsNext, CanonicalStep DEF serverVars
    <1> QED BY <1>1, <1>2, ServerInvariant, PTL DEF ServerSpec

\* and, whenever it crashed and whatever Hyli did while it was down, its settled state is the
\* one Hyli reported last,
THEOREM ServerSettledCanonical == ServerSpec => []SettledIsCanonical
    BY CanonicalSettled, ServerCanonical, PTL

\* and what settles next has been proved from it.
THEOREM ServerNextProved == ServerSpec => []NextInFlightProved
    BY CanonicalNext, ServerCanonical, PTL

\* What it speculates is that state followed by what is in flight.
THEOREM ServerSpeculationFollows == ServerSpec => []SpeculationIsInFlight
    BY CanonicalSpeculation, ServerCanonical, PTL

\* No crash, and nothing Hyli does while the server is down, makes it show a used nonce as the
\* next one.
THEOREM ServerNonceFollows == ServerSpec => []NonceBehindOnlyIfStale
    <1>1. ServerInit => PendingInv /\ SubmittedBound
        <2>1. ASSUME Start PROVE SubmittedBound BY <2>1 DEF Start, SubmittedBound, Keys
        <2> QED BY <2>1, StartPending DEF ServerInit, Init, ModuleInit
    <1>2. ASSUME CanonicalInv, CanonicalInv', PendingInv, SubmittedBound, [ServerNext]_serverVars
          PROVE  PendingInv' /\ SubmittedBound'
        <2>1. CASE StartsUp \/ UNCHANGED serverVars
            <3>1. UNCHANGED moduleVars /\ skipped' = skipped
                BY <2>1 DEF StartsUp, serverVars, vars, listenerVars
            <3> QED BY <1>2, <3>1, PendingSame DEF SubmittedBound, moduleVars
        <2>2. CASE ServerNext /\ ~StartsUp
            BY <1>2, <2>2, ServerStepsNext, PendingStep, SubmittedStep
        <2> QED BY <1>2, <2>1, <2>2
    <1> QED BY <1>1, <1>2, PendingNonce, ServerCanonical, PTL DEF ServerSpec

-----------------------------------------------------------------------------
\* Deployments: every EVM transaction in a state comes from a Hyli transaction.

\* The state s shows EVM transactions of the Hyli transactions in S only.
MadeOf(s, S) ==
    /\ \A i \in DOMAIN s.accounts : \E u \in S : s.accounts[i].tx \in ToSet(Blobs[u])
    /\ \A e \in Evm : s.settled_receipts[e] # None => \E u \in S : e \in ToSet(Blobs[u])

\* The transactions reported as successful,
Won == {u \in HeardSettled : status[u] = "success"}

\* and with them those in flight that were executed up to t.
ExecutedUpTo(t) == Won \cup {u \in DOMAIN stateHistory \cap HeardSequenced : u = t \/ u \in Before(t)}

\* The settled state shows successes only, the speculative states also what is in flight: a
\* failed transaction is forgotten with everything built on it.
MadeInv ==
    /\ MadeOf(settled, Won)
    /\ \A t \in DOMAIN stateHistory : MadeOf(stateHistory[t].state, ExecutedUpTo(t))

\* A state is made of more transactions, too,
LEMMA MadeOfMore ==
    ASSUME NEW s, NEW S, MadeOf(s, S), NEW u, u.accounts = s.accounts,
           u.settled_receipts = s.settled_receipts, NEW T, S \subseteq T
    PROVE  MadeOf(u, T)
    BY DEF MadeOf

\* genesis of none,
LEMMA MadeOfGenesis ==
    ASSUME NEW S
    PROVE  MadeOf(Genesis, S)
    BY DEF MadeOf, Genesis

\* and executing one adds it.
LEMMA MadeOfExecution ==
    ASSUME NEW s \in Sound, NEW S, MadeOf(s, S), NEW t \in Txs, NEW u,
           u.accounts = AccountsAfter(s, Blobs[t], Len(Blobs[t])),
           NEW at \in SUBSET DOMAIN Blobs[t],
           u.settled_receipts = Extend(s.settled_receipts, ReceiptsAt(s, Blobs[t], at)),
           NEW T, S \cup {t} \subseteq T
    PROVE  MadeOf(u, T)
    <1> DEFINE b == Blobs[t]
               c == s.accounts
    <1>0. PICK d : d = c \o Marks(b) OBVIOUS
    <1>1. b \in Seq(Evm) /\ Len(b) \in Nat /\ DOMAIN b = 1..Len(b)
        BY BlobsType, LenProperties
    <1>2. c \in Accounts /\ s.settled_receipts \in [Evm -> Receipt \cup {None}]
        BY DEF Sound, EthState
    <1>3. u.accounts = d
        <2>1. SubSeq(Marks(b), 1, Len(b)) = Marks(b)
            BY <1>1, MarksType, SubSeqConcat
        <2> QED BY <1>0, <2>1 DEF AccountsAfter
    <1>4. ASSUME NEW i \in DOMAIN d PROVE \E w \in T : d[i].tx \in ToSet(Blobs[w])
        <2>1. /\ Len(c) \in Nat /\ DOMAIN c = 1..Len(c) /\ i \in Int
              /\ i \in 1..Len(c) => d[i] = c[i]
              /\ i \in 1..Len(c) \/ i - Len(c) \in 1..Len(b)
            <3> HIDE DEF b, c
            <3>1. /\ d \in Accounts /\ Len(c) \in Nat /\ Len(b) \in Nat
                  /\ DOMAIN c = 1..Len(c) /\ DOMAIN d = 1..Len(d)
                  /\ Len(d) = Len(c) + Len(b)
                  /\ \A k \in 1..Len(c) : d[k] = c[k]
                  /\ \A k \in DOMAIN d : k \in 1..Len(c) \/ k - Len(c) \in 1..Len(b)
                BY ONLY <1>0, <1>1, <1>2, ExtendedChain, ZenonT(60)
            <3> QED BY <3>1
        <2>2. CASE i \in 1..Len(c) BY <2>1, <2>2 DEF MadeOf
        <2>3. CASE i - Len(c) \in 1..Len(b)
            <3>1. PICK k \in 1..Len(b) : k = i - Len(c) BY <2>3
            <3>2. Len(c) + k = i BY <2>1, <3>1
            <3>3. d[Len(c) + k].tx = b[k] BY <1>0, <1>1, <1>2, AddedMark
            <3>4. b[k] \in ToSet(b) BY <1>1 DEF ToSet
            <3> HIDE DEF c
            <3> QED BY <3>2, <3>3, <3>4
        <2> QED BY <2>1, <2>2, <2>3
    <1>5. ASSUME NEW e \in Evm, u.settled_receipts[e] # None
          PROVE  \E w \in T : e \in ToSet(Blobs[w])
        <2>1. CASE ReceiptsAt(s, b, at)[e] # None
            <3>1. PICK i \in at : b[i] = e BY <2>1 DEF ReceiptsAt, LastOccurrence
            <3> QED BY <3>1 DEF ToSet
        <2>2. CASE ReceiptsAt(s, b, at)[e] = None
            BY <1>2, <1>5, <2>2 DEF Extend, MadeOf
        <2> QED BY <2>1, <2>2
    <1> QED BY <1>3, <1>4, <1>5 DEF MadeOf

LEMMA MadeOfSpeculative ==
    ASSUME NEW s \in Sound, NEW S, MadeOf(s, S), NEW t \in Txs, NEW T, S \cup {t} \subseteq T
    PROVE  MadeOf(ApplySpeculative(s, Blobs[t]), T)
    <1>1. Blobs[t] \in Seq(Evm) BY BlobsType
    <1>2. PICK u : u = ApplySpeculative(s, Blobs[t]) OBVIOUS
    <1>3. PICK at : at = {i \in DOMAIN Blobs[t] : Blobs[t][i] \in Executable} OBVIOUS
    <1>4. /\ u.accounts = AccountsAfter(s, Blobs[t], Len(Blobs[t]))
          /\ u.settled_receipts = Extend(s.settled_receipts, ReceiptsAt(s, Blobs[t], at))
        BY <1>1, <1>2, <1>3, ApplySpeculativeFields
    <1>5. at \in SUBSET DOMAIN Blobs[t] BY <1>3
    <1>6. MadeOf(u, T) BY <1>4, <1>5, MadeOfExecution
    <1> QED BY <1>2, <1>6

LEMMA MadeOfSettled ==
    ASSUME NEW s \in Sound, NEW S, MadeOf(s, S), NEW t \in Txs, NEW canonical,
           NEW T, S \cup {t} \subseteq T
    PROVE  MadeOf(ApplySettled(s, Blobs[t], canonical), T)
    <1>1. PICK u : u = ApplySettled(s, Blobs[t], canonical) OBVIOUS
    <1>2. /\ u.accounts = AccountsAfter(s, Blobs[t], Len(Blobs[t]))
          /\ u.settled_receipts = Extend(s.settled_receipts, ReceiptsAt(s, Blobs[t], DOMAIN Blobs[t]))
        BY <1>1 DEF ApplySettled, Sound, EthState
    <1> QED BY <1>1, <1>2, MadeOfExecution, ZenonT(60)

\* The current state shows what is recorded.
LEMMA MadeCurrent ==
    ASSUME TrackingInv, MadeInv, NEW T, Won \subseteq T, DOMAIN stateHistory \cap HeardSequenced \subseteq T
    PROVE  MadeOf(CurrentState(stateHistory), T)
    <1>1. NewestState(stateHistory, DOMAIN stateHistory, CurrentState(stateHistory))
        BY CurrentIsNewest
    <1>2. CASE CurrentState(stateHistory) = Genesis BY <1>2, MadeOfGenesis
    <1>3. CASE \E x \in DOMAIN stateHistory : CurrentState(stateHistory) = stateHistory[x].state
        <2>1. PICK x \in DOMAIN stateHistory : CurrentState(stateHistory) = stateHistory[x].state
            BY <1>3
        <2>2. MadeOf(stateHistory[x].state, ExecutedUpTo(x)) BY DEF MadeInv
        <2>3. ExecutedUpTo(x) \subseteq T BY DEF ExecutedUpTo
        <2> QED BY <2>1, <2>2, <2>3, MadeOfMore
    <1> QED BY <1>1, <1>2, <1>3 DEF NewestState

\* A step that forgets states, at most, and may settle more.
LEMMA MadeSame ==
    ASSUME TrackingInv, MadeInv, NEW h, h = stateHistory',
           DOMAIN h \subseteq DOMAIN stateHistory,
           \A t \in DOMAIN h : h[t].state = stateHistory[t].state,
           settled'.accounts = settled.accounts,
           settled'.settled_receipts = settled.settled_receipts,
           Won \subseteq Won',
           \A u \in ToSet(order) : Before(u)' = Before(u),
           \A t \in DOMAIN h : \A u \in ExecutedUpTo(t) :
                u \in Won \/ u \in Won' \/ u \in DOMAIN h \cap HeardSequenced'
    PROVE  MadeInv'
    <1>1. MadeOf(settled', Won') BY MadeOfMore DEF MadeInv
    <1>2. ASSUME NEW t \in DOMAIN h PROVE MadeOf(h[t].state, ExecutedUpTo(t)')
        <2>1. Before(t)' = Before(t) BY TrackingFacts DEF TrackingInv, ChainInv, HistoryInv
        <2>2. ExecutedUpTo(t) \subseteq ExecutedUpTo(t)' BY <2>1 DEF ExecutedUpTo
        <2>3. MadeOf(stateHistory[t].state, ExecutedUpTo(t)) BY DEF MadeInv
        <2> QED BY <2>2, <2>3, MadeOfMore
    <1>3. \A t \in DOMAIN stateHistory' : MadeOf(stateHistory[t].state, ExecutedUpTo(t))'
        BY <1>2 DEF MadeOf
    <1>4. MadeOf(settled, Won)' BY <1>1 DEF MadeOf
    <1> QED BY <1>3, <1>4 DEF MadeInv

\* Executing the next transaction adds it to what is in flight.
LEMMA MadeInsert ==
    ASSUME TrackingInv, MadeInv, NEW t \in Txs, DOMAIN stateHistory \subseteq Before(t),
           stateHistory' = Insert(stateHistory, t,
                                ApplySpeculative(CurrentState(stateHistory), Blobs[t])),
           settled'.accounts = settled.accounts,
           settled'.settled_receipts = settled.settled_receipts,
           Won' = Won, \A u : Before(u)' = Before(u),
           t \in HeardSequenced', HeardSequenced \subseteq HeardSequenced'
    PROVE  MadeInv'
    <1> DEFINE h == stateHistory
               before == CurrentState(stateHistory)
    <1>1. PICK g : g = stateHistory' OBVIOUS
    <1>2. PICK after : after = ApplySpeculative(before, Blobs[t]) OBVIOUS
    <1>3. /\ DOMAIN g = DOMAIN h \cup {t}
          /\ \A u \in DOMAIN h : g[u] = h[u]
          /\ g[t].state = after
        <2>1. g = Insert(stateHistory, t, after) BY <1>1, <1>2
        <2>2. t \notin DOMAIN h BY TrackingFacts, BeforeOrder
        <2> QED BY <2>1, <2>2 DEF Insert
    <1>4. ASSUME NEW u \in DOMAIN h PROVE MadeOf(g[u].state, ExecutedUpTo(u)')
        <2>1. ExecutedUpTo(u) \subseteq ExecutedUpTo(u)' BY <1>1, <1>3 DEF ExecutedUpTo
        <2>2. MadeOf(h[u].state, ExecutedUpTo(u)) BY DEF MadeInv
        <2> QED BY <1>3, <2>1, <2>2, MadeOfMore
    <1>5. MadeOf(g[t].state, ExecutedUpTo(t)')
        <2> DEFINE T == Won \cup (DOMAIN h \cap HeardSequenced)
        <2>1. MadeOf(before, T) BY MadeCurrent
        <2>2. T \cup {t} \subseteq ExecutedUpTo(t)' BY <1>1, <1>3 DEF ExecutedUpTo
        <2>3. before \in Sound BY TrackingFacts, CurrentStateSound
        <2> HIDE DEF T, before
        <2> QED BY <1>2, <1>3, <2>1, <2>2, <2>3, MadeOfSpeculative
    <1>6. MadeOf(settled', Won') BY MadeOfMore DEF MadeInv
    <1>7. MadeOf(settled, Won)' BY <1>6 DEF MadeOf
    <1>8. \A u \in DOMAIN stateHistory' : MadeOf(stateHistory[u].state, ExecutedUpTo(u))'
        BY <1>1, <1>3, <1>4, <1>5 DEF MadeOf
    <1> QED BY <1>7, <1>8 DEF MadeInv

\* A report that a transaction was sequenced keeps it,
LEMMA ReportSequencedMade ==
    ASSUME TrackingInv, MadeInv, NEW t \in Txs, ReportSequenced(t)
    PROVE  MadeInv'
    <1>1. /\ HeardSettled' = HeardSettled /\ HeardSequenced' = HeardSequenced \cup {t}
          /\ \A u : Before(u)' = Before(u) /\ DOMAIN stateHistory \subseteq Before(t)
        BY SequencedFacts
    <1>2. Won' = Won BY <1>1 DEF Won, ReportSequenced, hyliVars
    <1>3. /\ settled'.accounts = settled.accounts
          /\ settled'.settled_receipts = settled.settled_receipts
        <2>1. settled' = IndexMessages(settled, t)
            BY DEF ReportSequenced, SequencedCatchingUp, SequencedLive, SequencedUnprovable
        <2>2. settled \in Sound BY TrackingFacts, InvFacts
        <2> QED BY <2>1, <2>2, AgreeIndex DEF Agree
    <1>4. CASE SequencedLive(t)
        <2>1. stateHistory' = Insert(stateHistory, t,
                                ApplySpeculative(CurrentState(stateHistory), Blobs[t]))
            BY <1>4 DEF SequencedLive
        <2>2. t \in HeardSequenced' /\ HeardSequenced \subseteq HeardSequenced' BY <1>1
        <2> QED BY <1>1, <1>2, <1>3, <2>1, <2>2, MadeInsert
    <1>5. CASE SequencedCatchingUp(t) \/ SequencedUnprovable(t)
        <2>1. PICK h : h = stateHistory' OBVIOUS
        <2>2. h = stateHistory BY <1>5, <2>1 DEF SequencedCatchingUp, SequencedUnprovable
        <2>3. \A x \in DOMAIN h : \A u \in ExecutedUpTo(x) :
                u \in Won \/ u \in Won' \/ u \in DOMAIN h \cap HeardSequenced'
            BY <1>1, <2>2 DEF ExecutedUpTo
        <2> QED BY <1>1, <1>2, <1>3, <2>1, <2>2, <2>3, MadeSame
    <1> QED BY <1>4, <1>5 DEF ReportSequenced

\* and so does a step of a replay.
LEMMA ReplayMade ==
    ASSUME TrackingInv, MadeInv, Replay
    PROVE  MadeInv'
    <1> DEFINE t == Head(todo)
               before == CurrentState(stateHistory)
    <1>1. TrackedInv /\ HistoryInv BY DEF TrackingInv, ChainInv
    <1>2. todo # <<>> /\ heard' = heard BY DEF Replay, ReplayTx
    <1>3. t \in Txs /\ t \in ToSet(todo)
        <2>1. todo \in Seq(Txs) /\ Sorted(todo) /\ Distinct(order) BY <1>1, TrackingFacts DEF TrackedInv
        <2> QED BY <1>2, <2>1, SortedTail
    <1>4. t \in ToSet(pendingProofs) /\ t \in HeardSequenced BY <1>1, <1>3 DEF TrackedInv
    <1>5. DOMAIN stateHistory \subseteq Before(t) BY <1>1, <1>3 DEF HistoryInv
    <1>6. /\ stateHistory' = Insert(stateHistory, t, ApplySpeculative(before, Blobs[t]))
          /\ settled' = settled \/ settled' = IndexMessages(settled, t)
        BY <1>4 DEF Replay, ReplayTx
    <1>7. /\ settled'.accounts = settled.accounts
          /\ settled'.settled_receipts = settled.settled_receipts
        <2>1. settled \in Sound BY TrackingFacts, InvFacts
        <2> QED BY <1>6, <2>1, AgreeIndex DEF Agree
    <1>8. /\ HeardSettled' = HeardSettled /\ HeardSequenced' = HeardSequenced
          /\ \A u : Before(u)' = Before(u)
        BY <1>2, BeforeSame DEF HeardSettled, HeardSequenced, Replay, hyliVars
    <1>9. Won' = Won BY <1>8 DEF Won, Replay, hyliVars
    <1>10. t \in HeardSequenced' /\ HeardSequenced \subseteq HeardSequenced' BY <1>4, <1>8
    <1> HIDE DEF t, before
    <1> QED BY <1>3, <1>5, <1>6, <1>7, <1>8, <1>9, <1>10, MadeInsert DEF before

\* A success heard while catching up is executed on the settled state.
LEMMA SettledCatchingUpMade ==
    ASSUME TrackingInv, MadeInv, NEW t \in Txs, ReportSuccess(t),
           SettledSuccessCatchingUp(t, commitment[t])
    PROVE  MadeInv'
    <1> DEFINE h == stateHistory
               before == CurrentState(stateHistory)
    <1>0. PICK g : g = stateHistory' OBVIOUS
    <1>1. /\ HeardSettled' = HeardSettled \cup {t} /\ HeardSequenced' = HeardSequenced \ {t}
          /\ \A u : Before(u)' = Before(u) /\ t \notin HeardSettled
        BY SettledFacts
    <1>2. Won' = Won \cup {t} BY <1>1 DEF Won, ReportSuccess, hyliVars
    <1>3. DOMAIN h \subseteq HeardSettled
        BY DEF SettledSuccessCatchingUp, TrackingInv, ChainInv, HistoryInv
    <1>4. commitment[t] # NoCommitment BY SuccessRuns, CommitmentAssumption
    <1>5. PICK after : after = ApplySettled(before, Blobs[t], commitment[t]) OBVIOUS
    <1>6. g = Insert(h, t, after) /\ settled' = after
        BY <1>0, <1>4, <1>5 DEF SettledSuccessCatchingUp
    <1>7. /\ DOMAIN g = DOMAIN h \cup {t}
          /\ \A u \in DOMAIN h : g[u] = h[u]
          /\ g[t].state = after
        <2>1. t \notin DOMAIN h BY <1>1, <1>3
        <2> QED BY <1>6, <2>1 DEF Insert
    <1>8. MadeOf(after, Won')
        <2>1. DOMAIN h \cap HeardSequenced = {} BY <1>3 DEF HeardSettled, HeardSequenced
        <2>2. MadeOf(before, Won) BY <2>1, MadeCurrent
        <2>3. before \in Sound BY TrackingFacts, CurrentStateSound
        <2> HIDE DEF before
        <2> QED BY <1>2, <1>5, <2>2, <2>3, MadeOfSettled
    <1>9. ASSUME NEW u \in DOMAIN g PROVE MadeOf(g[u].state, ExecutedUpTo(u)')
        <2>1. CASE u = t
            <3>1. Won' \subseteq ExecutedUpTo(t)' BY DEF ExecutedUpTo
            <3> QED BY <1>7, <1>8, <2>1, <3>1, MadeOfMore
        <2>2. CASE u # t
            <3>1. u \in DOMAIN h BY <1>7, <2>2
            <3>2. ExecutedUpTo(u) \subseteq ExecutedUpTo(u)'
                BY <1>2, <1>3 DEF ExecutedUpTo, HeardSettled, HeardSequenced
            <3>3. MadeOf(h[u].state, ExecutedUpTo(u)) BY <3>1 DEF MadeInv
            <3> QED BY <1>7, <3>1, <3>2, <3>3, MadeOfMore
        <2> QED BY <2>1, <2>2
    <1>10. MadeOf(settled, Won)' BY <1>6, <1>8 DEF MadeOf
    <1>11. \A u \in DOMAIN stateHistory' : MadeOf(stateHistory[u].state, ExecutedUpTo(u))'
        BY <1>0, <1>9 DEF MadeOf
    <1> QED BY <1>10, <1>11 DEF MadeInv

\* A success heard live makes the state speculated for it the settled one: what it was built
\* on has all succeeded.
LEMMA SettledLiveMade ==
    ASSUME TrackingInv, MadeInv, NEW t \in Txs, ReportSuccess(t),
           SettledSuccessLive(t, commitment[t])
    PROVE  MadeInv'
    <1> DEFINE h == stateHistory
               pos == Position(txChain, t)
               previous == IF pos > 1 THEN {txChain[pos - 1]} ELSE {}
    <1>0. PICK g : g = stateHistory' OBVIOUS
    <1>1. /\ HeardSettled' = HeardSettled \cup {t} /\ HeardSequenced' = HeardSequenced \ {t}
          /\ HeardSettled = Before(t) /\ \A u : Before(u)' = Before(u)
        BY SettledFacts
    <1>2. Won' = Won \cup {t} BY <1>1 DEF Won, ReportSuccess, hyliVars
    <1>3. HeardSettled \cap HeardSequenced = {} BY DEF HeardSettled, HeardSequenced
    <1>4. /\ previous \subseteq HeardSettled
          /\ DOMAIN g = DOMAIN h \ previous
          /\ \A u \in DOMAIN g : u # t => g[u] = h[u]
          /\ g[t].state = [h[t].state EXCEPT !.state_root = commitment[t]]
          /\ t \in DOMAIN g /\ settled' = g[t].state
        <2>1. /\ previous \subseteq HeardSettled
              /\ DOMAIN stateHistory' = DOMAIN stateHistory \ previous
              /\ t \in DOMAIN stateHistory' /\ settled' = stateHistory'[t].state
            BY SettledSuccessLiveFacts
        <2>2. \A u \in DOMAIN stateHistory' : u # t => stateHistory'[u] = stateHistory[u]
            BY SettledSuccessLiveFacts
        <2>3. stateHistory'[t].state = [stateHistory[t].state EXCEPT !.state_root = commitment[t]]
            BY SettledSuccessLiveFacts
        <2> HIDE DEF previous
        <2> QED BY <1>0, <2>1, <2>2, <2>3
    <1> HIDE DEF previous, pos
    <1>5. /\ g[t].state.accounts = h[t].state.accounts
          /\ g[t].state.settled_receipts = h[t].state.settled_receipts
        <2>1. h[t].state \in EthState BY <1>4, TrackingFacts DEF SoundHistory, Sound
        <2> QED BY <1>4, <2>1 DEF EthState
    <1>6. MadeOf(g[t].state, Won')
        <2>1. ExecutedUpTo(t) \subseteq Won' BY <1>1, <1>2, <1>3 DEF ExecutedUpTo
        <2>2. MadeOf(h[t].state, ExecutedUpTo(t)) BY <1>4 DEF MadeInv
        <2> QED BY <1>5, <2>1, <2>2, MadeOfMore
    <1>7. ASSUME NEW u \in DOMAIN g PROVE MadeOf(g[u].state, ExecutedUpTo(u)')
        <2>1. CASE u = t
            <3>1. Won' \subseteq ExecutedUpTo(t)' BY DEF ExecutedUpTo
            <3> QED BY <1>6, <2>1, <3>1, MadeOfMore
        <2>2. CASE u # t
            <3>1. ExecutedUpTo(u) \subseteq ExecutedUpTo(u)'
                BY <1>0, <1>1, <1>2, <1>3, <1>4 DEF ExecutedUpTo
            <3>2. MadeOf(h[u].state, ExecutedUpTo(u)) BY <1>4 DEF MadeInv
            <3> QED BY <1>4, <2>2, <3>1, <3>2, MadeOfMore
        <2> QED BY <2>1, <2>2
    <1>8. MadeOf(settled, Won)' BY <1>4, <1>6 DEF MadeOf
    <1>9. \A u \in DOMAIN stateHistory' : MadeOf(stateHistory[u].state, ExecutedUpTo(u))'
        BY <1>0, <1>7 DEF MadeOf
    <1> QED BY <1>8, <1>9 DEF MadeInv

\* A report that a transaction failed, or one that is ignored.
LEMMA ReportFailedMade ==
    ASSUME TrackingInv, MadeInv, NEW t \in Txs,
           ReportFailed(t) \/ (ReportSuccess(t) /\ SettledUntracked(t))
    PROVE  MadeInv'
    <1> DEFINE h == stateHistory
    <1>0. PICK g : g = stateHistory' OBVIOUS
    <1>1. /\ HeardSettled' = HeardSettled \cup {t} /\ HeardSequenced' = HeardSequenced \ {t}
          /\ \A u : Before(u)' = Before(u)
          /\ ~catchingUp => heard[t] = "sequenced"
        BY SettledFacts
    <1>2. Won \subseteq Won' BY <1>1 DEF Won, ReportFailed, ReportSuccess, hyliVars
    <1>3. settled' = settled
        BY DEF ReportFailed, SettledFailedCatchingUp, SettledFailedLive, SettledUntracked
    <1>4. /\ DOMAIN g \subseteq DOMAIN h /\ \A u \in DOMAIN g : g[u] = h[u]
          /\ \A x \in DOMAIN g : \A u \in ExecutedUpTo(x) :
                u \in Won \/ u \in Won' \/ u \in DOMAIN g \cap HeardSequenced'
        <2>1. CASE ReportFailed(t) /\ SettledFailedLive(t)
            <3>1. /\ DOMAIN g = DOMAIN h \cap HeardSettled
                  /\ \A u \in DOMAIN g : g[u] = h[u]
                BY <1>0, <2>1, FailedLiveForgets
            <3>2. \A x \in HeardSettled : Before(x) \subseteq HeardSettled
                BY TrackingFacts DEF ListenerInv
            <3>3. HeardSettled \cap HeardSequenced = {} BY DEF HeardSettled, HeardSequenced
            <3> QED BY <3>1, <3>2, <3>3 DEF ExecutedUpTo
        <2>2. CASE SettledFailedCatchingUp(t) \/ SettledUntracked(t)
            <3>1. g = h BY <1>0, <2>2 DEF SettledFailedCatchingUp, SettledUntracked
            <3>2. t \notin DOMAIN h \cap HeardSequenced
                <4>1. CASE catchingUp
                    BY <4>1 DEF TrackingInv, ChainInv, HistoryInv, HeardSettled, HeardSequenced
                <4>2. CASE ~catchingUp
                    <5>1. t \notin ToSet(txChain)
                        BY <2>2, <4>2 DEF SettledFailedCatchingUp, SettledUntracked
                    <5> QED BY <4>2, <5>1 DEF TrackingInv, ChainInv, HistoryInv, TrackedInv
                <4> QED BY <4>1, <4>2
            <3> QED BY <1>1, <3>1, <3>2 DEF ExecutedUpTo
        <2> QED BY <2>1, <2>2 DEF ReportFailed
    <1> QED BY <1>0, <1>1, <1>2, <1>3, <1>4, MadeSame

\* Steps that neither record nor settle.
LEMMA OtherMade ==
    ASSUME TrackingInv, MadeInv,
           \/ \E t \in Txs : HyliSequences(t) \/ HyliSettlesSuccess(t) \/ HyliSettlesFailed(t)
           \/ \E t \in Txs : Submit(t) \/ Record(t)
           \/ EndBackfill \/ PollTip \/ PollLogs \/ UNCHANGED vars
    PROVE  MadeInv'
    <1>0. PICK h : h = stateHistory' OBVIOUS
    <1>1. UNCHANGED <<stateHistory, settled, heard>>
        BY DEF HyliSequences, HyliSettlesSuccess, HyliSettlesFailed, Submit, SendRawTransaction,
               Record, RecordSubmission, EndBackfill, BackfillComplete, PollTip, PollLogs, vars,
               moduleVars
    <1>2. \A u \in ToSet(order) : Before(u)' = Before(u)
        <2>1. CASE \E t \in Txs : HyliSequences(t)
            <3>1. PICK t \in Txs : HyliSequences(t) BY <2>1
            <3>2. t \notin ToSet(order) /\ order' = Append(order, t)
                BY <3>1, TrackingFacts DEF HyliSequences, OrderInv
            <3> QED BY <3>2, TrackingFacts, BeforeAppend
        <2>2. CASE order' = order BY <2>2, BeforeSame
        <2>3. order' = order \/ \E t \in Txs : HyliSequences(t)
            BY DEF HyliSettlesSuccess, HyliSettlesFailed, Submit, Record, EndBackfill, PollTip,
                   PollLogs, vars, hyliVars
        <2> QED BY <2>1, <2>2, <2>3
    <1>3. HeardSettled' = HeardSettled /\ HeardSequenced' = HeardSequenced
        BY <1>1 DEF HeardSettled, HeardSequenced
    <1>4. \A u \in Txs : status[u] = "success" => status'[u] = "success"
        <2>1. status \in [Txs -> {"unknown", "sequenced"} \cup Settled]
            BY DEF TrackingInv, SystemInv, SystemTypes
        <2> QED BY <2>1 DEF HyliSequences, HyliSettlesSuccess, HyliSettlesFailed, NextToSettle,
               Submit, Record, EndBackfill, PollTip, PollLogs, vars, hyliVars
    <1>5. Won \subseteq Won' BY <1>3, <1>4 DEF Won, HeardSettled
    <1>6. \A x \in DOMAIN h : \A u \in ExecutedUpTo(x) :
            u \in Won \/ u \in Won' \/ u \in DOMAIN h \cap HeardSequenced'
        BY <1>0, <1>1, <1>3 DEF ExecutedUpTo
    <1> QED BY <1>0, <1>1, <1>2, <1>5, <1>6, MadeSame

\* A server that starts has executed nothing.
LEMMA StartMade == settled = Genesis /\ stateHistory = EmptyHistory => MadeInv
    BY MadeOfGenesis DEF MadeInv, EmptyHistory

\* Every step of the composed system keeps it.
LEMMA MadeStep ==
    ASSUME TrackingInv, MadeInv, [Next]_vars
    PROVE  MadeInv'
    <1>1. CASE ServerRestart
        <2>1. settled' = Genesis /\ stateHistory' = EmptyHistory
            BY <1>1 DEF ServerRestart, Restart
        <2>2. MadeOf(settled', Won') BY <2>1, MadeOfGenesis
        <2>3. MadeOf(settled, Won)' BY <2>2 DEF MadeOf
        <2> QED BY <2>1, <2>3 DEF MadeInv, EmptyHistory
    <1>2. ASSUME NEW t \in Txs, ReportSuccess(t) PROVE MadeInv'
        BY <1>2, SettledCatchingUpMade, SettledLiveMade, ReportFailedMade DEF ReportSuccess
    <1> QED BY <1>1, <1>2, ReportSequencedMade, ReportFailedMade, ReplayMade, OtherMade DEF Next

\* What the indexer received, and what the policy lets pass.
IndexedInv == \A e \in indexed : \E u \in Txs : status[u] = "success" /\ e \in ToSet(Blobs[u])

PolicyInv == \A t \in HasBridgeBlob : status[t] = "success" => PolicyProved(t)

DeploymentInv == MadeInv /\ IndexedInv /\ PolicyInv

\* A success stays one.
LEMMA SuccessStays ==
    ASSUME TrackingInv, [Next]_vars
    PROVE  \A u \in Txs : status[u] = "success" => status'[u] = "success"
    <1>1. status \in [Txs -> {"unknown", "sequenced"} \cup Settled]
        BY DEF TrackingInv, SystemInv, SystemTypes
    <1>2. ASSUME NEW t \in Txs,
                 HyliSequences(t) \/ HyliSettlesSuccess(t) \/ HyliSettlesFailed(t)
          PROVE  \A u \in Txs : status[u] = "success" => status'[u] = "success"
        BY <1>1, <1>2 DEF HyliSequences, HyliSettlesSuccess, HyliSettlesFailed, NextToSettle
    <1>3. \/ status' = status
          \/ \E t \in Txs : HyliSequences(t) \/ HyliSettlesSuccess(t) \/ HyliSettlesFailed(t)
        BY DEF Next, ReportSequenced, ReportSuccess, ReportFailed, Submit, Record, EndBackfill,
               Replay, ServerRestart, PollTip, PollLogs, vars, hyliVars
    <1> QED BY <1>2, <1>3

\* The logs come from the settled state.
LEMMA IndexedStep ==
    ASSUME TrackingInv, MadeInv, IndexedInv, [Next]_vars
    PROVE  IndexedInv'
    <1>1. ASSUME NEW e \in indexed'
          PROVE  \E u \in Txs : status[u] = "success" /\ e \in ToSet(Blobs[u])
        <2>1. CASE e \in indexed BY <2>1 DEF IndexedInv
        <2>2. CASE e \notin indexed
            <3>1. PollLogs
                BY <2>2 DEF Next, HyliSequences, HyliSettlesSuccess, HyliSettlesFailed,
                       ReportSequenced, ReportSuccess, ReportFailed, Submit, Record, EndBackfill,
                       Replay, ServerRestart, PollTip, vars, clientVars
            <3>2. e \in Keys(settled.settled_receipts) BY <2>2, <3>1 DEF PollLogs, LogsOf
            <3>3. settled.settled_receipts \in [Evm -> Receipt \cup {None}]
                BY TrackingFacts, InvFacts DEF Sound, EthState
            <3> QED BY <3>2, <3>3 DEF Keys, MadeInv, MadeOf, Won, HeardSettled
        <2> QED BY <2>1, <2>2
    <1> QED BY <1>1, SuccessStays DEF IndexedInv

\* The start-up changes none of it,
LEMMA StartsUpDeployment ==
    ASSUME TrackingInv, DeploymentInv, StartsUp
    PROVE  DeploymentInv'
    <1> USE DEF StartsUp, moduleVars, hyliVars, clientVars
    <1>0. PICK h : h = stateHistory' OBVIOUS
    <1>1. \A u : Before(u)' = Before(u) BY BeforeSame
    <1>2. HeardSequenced' = HeardSequenced /\ Won' = Won
        BY DEF HeardSequenced, Won, HeardSettled
    <1>3. h = stateHistory BY <1>0
    <1>4. \A x \in DOMAIN h : \A u \in ExecutedUpTo(x) :
            u \in Won \/ u \in Won' \/ u \in DOMAIN h \cap HeardSequenced'
        BY <1>2, <1>3 DEF ExecutedUpTo
    <1>5. MadeInv' BY <1>0, <1>1, <1>2, <1>3, <1>4, MadeSame DEF DeploymentInv
    <1> QED BY <1>5 DEF DeploymentInv, IndexedInv, PolicyInv

\* and every other step keeps it: only the policy's proof lets a transaction with a bridge blob
\* succeed.
LEMMA DeploymentStep ==
    ASSUME TrackingInv, DeploymentInv, ServerNext
    PROVE  DeploymentInv'
    <1>1. CASE StartsUp BY <1>1, StartsUpDeployment
    <1>2. CASE ~StartsUp
        <2>1. [Next]_vars BY <1>2, ServerStepsNext
        <2>2. MadeInv' /\ IndexedInv' BY <2>1, MadeStep, IndexedStep DEF DeploymentInv
        <2>3. PolicyInv'
            <3> SUFFICES ASSUME NEW t \in HasBridgeBlob, status'[t] = "success"
                         PROVE  PolicyProved(t)
                BY DEF PolicyInv
            <3>1. CASE status[t] = "success" BY <3>1 DEF DeploymentInv, PolicyInv
            <3>2. CASE status[t] # "success"
                <4>1. t \in Txs BY PolicyAssumption
                <4>2. status \in [Txs -> {"unknown", "sequenced"} \cup Settled]
                    BY DEF TrackingInv, SystemInv, SystemTypes
                <4>3. Succeeds(t)
                    BY <1>2, <3>2, <4>1, <4>2
                    DEF ServerNext, Crashes, EndsBackfill, Replays, Answers, NodeSteps, Reports,
                        Sequences, Succeeds, Fails, ServerRestart, EndBackfill, Replay, Submit,
                        Record, PollTip, PollLogs, ReportSequenced, ReportSuccess, ReportFailed,
                        HyliSequences, HyliSettlesSuccess, HyliSettlesFailed, hyliVars, vars
                <4> QED BY <4>3 DEF Succeeds
            <3> QED BY <3>1, <3>2
        <2> QED BY <2>2, <2>3 DEF DeploymentInv
    <1> QED BY <1>1, <1>2

\* DeploymentsNeverSettle (see BridgeServer): a deployment that only comes with a bridge blob
\* is executed speculatively, and yet no settled state, receipt or log ever shows it, whatever
\* fails, is rolled back, replayed or restarted around it.
THEOREM ServerRejectsDeployments == ServerSpec => []DeploymentsNeverSettle
    <1>1. ServerInit => DeploymentInv
        <2> SUFFICES ASSUME ServerInit PROVE DeploymentInv OBVIOUS
        <2> USE DEF ServerInit, Init, ModuleInit, Start
        <2>1. MadeInv BY StartMade
        <2>2. IndexedInv BY DEF IndexedInv
        <2>3. PolicyInv BY PolicyAssumption DEF PolicyInv
        <2> QED BY <2>1, <2>2, <2>3 DEF DeploymentInv
    <1>2. CanonicalInv /\ DeploymentInv /\ [ServerNext]_serverVars => DeploymentInv'
        <2> SUFFICES ASSUME CanonicalInv, DeploymentInv, UNCHANGED serverVars PROVE DeploymentInv'
            BY DeploymentStep DEF CanonicalInv
        <2>1. UNCHANGED vars BY DEF serverVars
        <2>2. MadeInv' BY <2>1, MadeStep DEF CanonicalInv, DeploymentInv
        <2> QED BY <2>1, <2>2
                DEF DeploymentInv, IndexedInv, PolicyInv, vars, hyliVars, clientVars
    <1>3. DeploymentInv => DeploymentsNeverSettle
        <2> SUFFICES ASSUME DeploymentInv, NEW e \in Deployments, OnlyThroughPolicy(e)
                     PROVE  /\ ~Executes(settled.accounts, e)
                            /\ GetTransactionReceipt(e) = None
                            /\ e \notin indexed
            BY DEF DeploymentsNeverSettle
        <2>1. ASSUME NEW u \in Txs, status[u] = "success", e \in ToSet(Blobs[u]) PROVE FALSE
            <3>1. u \in HasBridgeBlob /\ Blobs[u] = <<e>> BY <2>1 DEF OnlyThroughPolicy
            <3>2. PolicyProved(u) BY <2>1, <3>1 DEF DeploymentInv, PolicyInv
            <3>3. Blobs[u][1] \notin Deployments BY <3>2 DEF PolicyProved, Accepts, IsCreate
            <3> QED BY <3>1, <3>3
        <2>2. \A u \in Won : u \in Txs /\ status[u] = "success" BY DEF Won, HeardSettled
        <2>3. MadeOf(settled, Won) BY DEF DeploymentInv, MadeInv
        <2>4. ~Executes(settled.accounts, e) BY <2>1, <2>2, <2>3 DEF Executes, MadeOf
        <2>5. e \in Evm BY PolicyAssumption
        <2>6. settled.settled_receipts[e] = None BY <2>1, <2>2, <2>3, <2>5 DEF MadeOf
        <2>7. e \notin indexed BY <2>1 DEF DeploymentInv, IndexedInv
        <2> QED BY <2>4, <2>6, <2>7 DEF GetTransactionReceipt
    <1> QED BY <1>1, <1>2, <1>3, ServerCanonical, PTL DEF ServerSpec

=============================================================================
