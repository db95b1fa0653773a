---------------------------- MODULE InitContracts ----------------------------
(***************************************************************************)
(* The start of the bridge server: server/src/init.rs, called by main.rs.  *)
(*                                                                         *)
(* Before it builds its modules the server registers the contracts it      *)
(* lives on, the bridge policy and then the reth contract.  For each it    *)
(* asks the node for the contract; any error counts as "not registered".   *)
(* It then submits a registration and polls the node for 30 seconds.  A    *)
(* registration that cannot be submitted, and a wait that times out, end   *)
(* the process, which is started again.                                    *)
(*                                                                         *)
(* The node is external: requests fail at any time, and a registration it  *)
(* accepted takes effect later or is lost.  Other servers, configured like *)
(* this one, register the same contracts.  The polls that fail change      *)
(* nothing, so the wait ends with a poll that succeeds or with the         *)
(* timeout, which may strike at any time.                                  *)
(* The option noinit, which skips all this, is left out.                   *)
(***************************************************************************)
EXTENDS Naturals, Sequences

CONSTANT
    Contracts  \* the contracts to register, in order: bridge_cn, hyperlane_cn

Names == {Contracts[i] : i \in DOMAIN Contracts}

\* The two contracts are not given the same name.
ASSUME InitAssumption ==
    /\ Contracts \in Seq(Names) \ {<<>>}
    /\ \A i, j \in DOMAIN Contracts : Contracts[i] = Contracts[j] => i = j

VARIABLES
    boot,        \* where the process is; "exited" is no process
    step,        \* the contract it deals with
    requests,    \* the node: this server's registrations that are still to take effect
    registered   \* the node: the contracts that exist

initVars == <<boot, step, requests, registered>>

InitTypeOK ==
    /\ boot \in {"exited", "check", "register", "wait", "running"}
    /\ step \in DOMAIN Contracts
    /\ requests \subseteq Names
    /\ registered \subseteq Names

StartUpInit ==
    /\ boot = "exited"
    /\ step = 1
    /\ requests = {}
    /\ registered = {}

-----------------------------------------------------------------------------
\* The process.

Contract == Contracts[step]

\* Mutant: one contract too many.
ContractIsThereLate ==
    IF step > Len(Contracts) THEN boot' = "running" /\ UNCHANGED step
    ELSE boot' = "check" /\ step' = step + 1

\* The current contract is there: on to the next, or to the modules.
ContractIsThere ==
    IF step = Len(Contracts) THEN boot' = "running" /\ UNCHANGED step
    ELSE boot' = "check" /\ step' = step + 1

Exit == boot' = "exited" /\ UNCHANGED step

Launch ==
    /\ boot = "exited"
    /\ boot' = "check"
    /\ step' = 1
    /\ UNCHANGED <<requests, registered>>

\* Mutant: the contract is registered without asking for it first.
CheckNothing ==
    /\ boot = "check"
    /\ boot' = "register"
    /\ UNCHANGED <<step, requests, registered>>

\* get_contract, the first time.
CheckOk ==
    /\ boot = "check"
    /\ Contract \in registered
    /\ ContractIsThere
    /\ UNCHANGED <<requests, registered>>

\* Any error: the contract is not there, or the request failed.
CheckErr ==
    /\ boot = "check"
    /\ boot' = "register"
    /\ UNCHANGED <<step, requests, registered>>

\* Mutant: the registration is taken for done.
RegisterOkUnawaited ==
    /\ boot = "register"
    /\ requests' = IF Contract \in registered THEN requests ELSE requests \cup {Contract}
    /\ ContractIsThere
    /\ UNCHANGED registered

\* register_contract.  The node may accept a registration of a contract that exists,
\* which then has no effect.
RegisterOk ==
    /\ boot = "register"
    /\ requests' = IF Contract \in registered THEN requests ELSE requests \cup {Contract}
    /\ boot' = "wait"
    /\ UNCHANGED <<step, registered>>

\* The request fails, perhaps because the contract exists by now.
RegisterErr ==
    /\ boot = "register"
    /\ Exit
    /\ UNCHANGED <<requests, registered>>

\* wait_for_contract
WaitOk ==
    /\ boot = "wait"
    /\ Contract \in registered
    /\ ContractIsThere
    /\ UNCHANGED <<requests, registered>>

\* Mutant: the timeout is not an error.
WaitTimeoutIgnored ==
    /\ boot = "wait"
    /\ ContractIsThere
    /\ UNCHANGED <<requests, registered>>

WaitTimeout ==
    /\ boot = "wait"
    /\ Exit
    /\ UNCHANGED <<requests, registered>>

\* The running server stops.
Stop ==
    /\ boot = "running"
    /\ Exit
    /\ UNCHANGED <<requests, registered>>

-----------------------------------------------------------------------------
\* The node.

NodeRegisters(c) ==
    /\ c \in requests
    /\ requests' = requests \ {c}
    /\ registered' = registered \cup {c}
    /\ UNCHANGED <<boot, step>>

NodeLoses(c) ==
    /\ c \in requests
    /\ requests' = requests \ {c}
    /\ UNCHANGED <<boot, step, registered>>

\* Another server's registration takes effect, and makes one of this server void.
OthersRegister(c) ==
    /\ c \notin registered
    /\ requests' = requests \ {c}
    /\ registered' = registered \cup {c}
    /\ UNCHANGED <<boot, step>>

-----------------------------------------------------------------------------
StartUp == Launch \/ CheckOk \/ CheckErr \/ RegisterOk \/ RegisterErr \/ WaitOk \/ WaitTimeout

Node == \E c \in Names : NodeRegisters(c) \/ NodeLoses(c) \/ OthersRegister(c)

StartUpNext == StartUp \/ Stop \/ Node

StartUpSpec == StartUpInit /\ [][StartUpNext]_initVars

-----------------------------------------------------------------------------
\* Properties.

\* A server that got past init_contracts finds every contract on the node: neither a timeout,
\* nor a failed request, nor a registration that is still under way lets it through.
RunningHasContracts == boot = "running" => Names \subseteq registered

\* The contracts are registered one after the other: whatever was submitted in this or an
\* earlier life of the server, none before those that precede it exist (init.rs:60 waits for
\* the bridge before init.rs:71 looks for the reth contract).
RegisteredInOrder ==
    \A i, j \in DOMAIN Contracts :
        j < i /\ Contracts[i] \in requests => Contracts[j] \in registered

=============================================================================
