------------------------------ MODULE EvmLedger ------------------------------
(***************************************************************************)
(* What the bridge server promises to the readers of its settled state:    *)
(* an EVM chain that is, at all times, the execution of a prefix of the    *)
(* Hyli transactions that succeeded, in Hyli's order and each as a whole.  *)
(* A restart may take the chain back to genesis, behind a closed RPC; once *)
(* open, the chain only moves forward.                                     *)
(***************************************************************************)
EXTENDS Integers, SequencesExt

CONSTANTS
    Txs,        \* Hyli transactions
    Effect(_)   \* what a successful transaction appends to the account map

VARIABLES
    log,        \* the transactions that succeeded, in order
    accounts,   \* the account map served
    open        \* the JSON-RPC interface answers

ledgerVars == <<log, accounts, open>>

\* The account map after the first n transactions.
Execution(n) == FlattenSeq([i \in 1..n |-> Effect(log[i])])

LedgerInit ==
    /\ log = <<>>
    /\ accounts = <<>>
    /\ open = FALSE

\* A transaction succeeds on Hyli.
Commit(t) ==
    /\ t \notin ToSet(log)
    /\ log' = Append(log, t)
    /\ UNCHANGED <<accounts, open>>

\* The server settles the next transaction.
Settle ==
    /\ \E n \in 0..Len(log) - 1 :
        /\ accounts = Execution(n)
        /\ accounts' = Execution(n + 1)
    /\ UNCHANGED <<log, open>>

Open ==
    /\ open' = TRUE
    /\ UNCHANGED <<log, accounts>>

Crash ==
    /\ accounts' = <<>>
    /\ open' = FALSE
    /\ UNCHANGED log

LedgerNext ==
    \/ \E t \in Txs : Commit(t)
    \/ Settle
    \/ Open
    \/ Crash

LedgerSpec == LedgerInit /\ [][LedgerNext]_ledgerVars

=============================================================================
