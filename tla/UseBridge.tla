------------------------------ MODULE UseBridge ------------------------------
(***************************************************************************)
(* The front end's hook for one bridge form: front/src/hooks/useBridge.ts, *)
(* with the guards of the components that call it.                         *)
(*                                                                         *)
(* A transfer is sent by bridge(), watched on its source chain while the   *)
(* status is 'confirming' and on its destination while it is 'relaying'.   *)
(* Each watch is a React effect: an asynchronous loop with a timer, which  *)
(* the effect's cleanup cancels.  React runs cleanups and effects some     *)
(* time after a setStatus (Flush); a loop that is cancelled while it waits *)
(* for an answer still gets it.                                            *)
(*                                                                         *)
(* A transfer names its source transaction, the relayInfo object made for  *)
(* it, its Hyli hash and its message.  Direction to_hyli is TRUE of        *)
(* toHyli, to_sepolia FALSE.  The source chain, the bridge server and the  *)
(* relayer are external.                                                   *)
(***************************************************************************)
EXTENDS Naturals, Sequences

CONSTANTS
    Transfers,
    MaxAttempts,  \* how often the relayer submits a message to Hyli
    None

ASSUME HookAssumption == None \notin Transfers /\ MaxAttempts \in Nat

VARIABLES
    toHyli,     \* the direction selected in the form
    status,     \* the hook's status
    shown,      \* the status type and direction the effects have last seen
    relayInfo,  \* relayInfo.current: the transfer whose object it holds
    hyliHash,   \* the objects' hyliSrcHash
    messageId,  \* whether the objects' messageId is set
    call,       \* the bridge() calls in progress
    lookups,    \* transfers whose hyli_getHyliHash request is under way
    loops,      \* the loops of the two polling effects
    intruded,   \* history: a late failure took the status of a call in progress
    direction,  \* the world: the direction of a transfer that was sent
    source,     \* the world: what became of its source transaction
    served,     \* the world: the bridge server has the receipt of a Hyli source
    relayed     \* the world: the outcomes of the relayer's attempts to deliver it

hookVars == <<toHyli, status, shown, relayInfo, hyliHash, messageId, call, lookups, loops,
              intruded>>
worldVars == <<direction, source, served, relayed>>
vars == <<hookVars, worldVars>>

Busy == {"switching_chain", "pending", "confirming", "relaying"}
Terminal == {"source_reverted", "success", "timeout", "error"}

\* BridgeStatus: the types that name a transaction, and those that name none.
WithTx == {"confirming", "source_reverted", "relaying", "success", "timeout"}
StatusType == {"idle", "switching_chain", "pending", "error"} \cup WithTx

Status ==
    [type : StatusType \ WithTx, tx : {None}, hyli : {None}, dest : {0}]
    \cup [type : WithTx, tx : Transfers, hyli : Transfers \cup {None}, dest : 0..MaxAttempts]

\* `at` is where the loop waits, `dest` its destTxHash (an attempt; 0 is undefined),
\* `hyli` the hyliSrcHash it read, `live` is ~cancelled.
Loop == [at : {"off", "sleep", "status", "receipt", "find", "delivery", "logs"},
         live : BOOLEAN, timer : BOOLEAN, hyli : Transfers \cup {None}, dest : 0..MaxAttempts]

Off == [at |-> "off", live |-> FALSE, timer |-> FALSE, hyli |-> None, dest |-> 0]

Watches == Transfers \X {"source", "dest"}

\* Types: in particular, a status carries a transaction exactly when its variant of
\* BridgeStatus has a txHash, which the spread at useBridge.ts:387 relies on.
HookTypeOK ==
    /\ toHyli \in BOOLEAN
    /\ status \in Status
    /\ shown \in [type : StatusType, toHyli : BOOLEAN]
    /\ relayInfo \in Transfers \cup {None}
    /\ hyliHash \in [Transfers -> Transfers \cup {None}]
    /\ messageId \in [Transfers -> BOOLEAN]
    /\ call \in [Transfers -> {"none", "switching", "wallet"}]
    /\ lookups \subseteq Transfers
    /\ loops \in [Watches -> Loop]
    /\ intruded \in BOOLEAN
    /\ direction \in [Transfers -> BOOLEAN]
    /\ source \in [Transfers -> {"unsent", "pending", "ok", "failed"}]
    /\ served \in [Transfers -> BOOLEAN]
    /\ relayed \in [Transfers -> UNION {[1..n -> {"Sequenced", "Success", "Failed"}] :
                                          n \in 0..MaxAttempts}]

Plain(type) == [type |-> type, tx |-> None, hyli |-> None, dest |-> 0]
Of(type, t, h, d) == [type |-> type, tx |-> t, hyli |-> h, dest |-> d]

Init ==
    /\ toHyli \in BOOLEAN
    /\ status = Plain("idle")
    /\ shown = [type |-> "idle", toHyli |-> toHyli]
    /\ relayInfo = None
    /\ hyliHash = [t \in Transfers |-> None]
    /\ messageId = [t \in Transfers |-> FALSE]
    /\ call = [t \in Transfers |-> "none"]
    /\ lookups = {}
    /\ loops = [w \in Watches |-> Off]
    /\ intruded = FALSE
    /\ direction = [t \in Transfers |-> FALSE]
    /\ source = [t \in Transfers |-> "unsent"]
    /\ served = [t \in Transfers |-> FALSE]
    /\ relayed = [t \in Transfers |-> <<>>]

-----------------------------------------------------------------------------
\* The user.  The form is rendered from the status, and offers neither the bridge button
\* nor the swap button while the status is busy.

Rendered == shown = [type |-> status.type, toHyli |-> toHyli]

\* The bridge button, which is disabled without a wallet or the Hyli RPC: bridge() runs up
\* to the first await.
Bridge(t) ==
    /\ Rendered
    /\ status.type \notin Busy
    /\ source[t] = "unsent" /\ call[t] = "none"
    /\ \E at \in {"switching", "wallet"} :
        /\ call' = [call EXCEPT ![t] = at]
        /\ status' = Plain(IF at = "switching" THEN "switching_chain" ELSE "pending")
    /\ direction' = [direction EXCEPT ![t] = toHyli]
    /\ UNCHANGED <<toHyli, shown, relayInfo, hyliHash, messageId, lookups, loops, intruded,
                   source, served, relayed>>

ChainSwitched(t) ==
    /\ call[t] = "switching"
    /\ call' = [call EXCEPT ![t] = "wallet"]
    /\ status' = Plain("pending")
    /\ UNCHANGED <<toHyli, shown, relayInfo, hyliHash, messageId, lookups, loops, intruded,
                   worldVars>>

\* The wallet refuses, or the chain cannot be switched.
Refused(t) ==
    /\ call[t] # "none"
    /\ call' = [call EXCEPT ![t] = "none"]
    /\ status' = Plain("error")
    /\ UNCHANGED <<toHyli, shown, relayInfo, hyliHash, messageId, lookups, loops, intruded,
                   worldVars>>

\* The wallet returns the hash of the source transaction.
Sent(t) ==
    /\ call[t] = "wallet"
    /\ call' = [call EXCEPT ![t] = "none"]
    /\ source' = [source EXCEPT ![t] = "pending"]
    /\ relayInfo' = t
    /\ status' = Of("confirming", t, None, 0)
    /\ lookups' = IF direction[t] THEN lookups ELSE lookups \cup {t}
    /\ UNCHANGED <<toHyli, shown, hyliHash, messageId, loops, intruded, direction,
                   served, relayed>>

\* 'Try again', 'Bridge again' and 'Dismiss'.
Reset ==
    /\ Rendered
    /\ status.type \in Terminal
    /\ relayInfo' = None
    /\ status' = Plain("idle")
    /\ UNCHANGED <<toHyli, shown, hyliHash, messageId, call, lookups, loops, intruded, worldVars>>

\* Mutant: the swap button is not disabled.
SwapAnytime ==
    /\ Rendered
    /\ relayInfo' = None
    /\ status' = Plain("idle")
    /\ toHyli' = ~toHyli
    /\ UNCHANGED <<shown, hyliHash, messageId, call, lookups, loops, intruded, worldVars>>

\* handleSwap.
Swap ==
    /\ Rendered
    /\ status.type \notin Busy
    /\ relayInfo' = None
    /\ status' = Plain("idle")
    /\ toHyli' = ~toHyli
    /\ UNCHANGED <<shown, hyliHash, messageId, call, lookups, loops, intruded, worldVars>>

-----------------------------------------------------------------------------
\* Effects.

\* The effect's cleanup.
CancelledTimerOnly(l) == [l EXCEPT !.timer = FALSE]

Cancelled(l) == [l EXCEPT !.live = FALSE, !.timer = FALSE]

\* The watch an effect starts for the current status.
Started(w) ==
    /\ w[1] = relayInfo
    /\ \/ w[2] = "source" /\ status.type = "confirming" /\ ~toHyli
       \/ w[2] = "dest" /\ status.type = "relaying"

\* A loop as its effect starts it: asleep, or in pollSepoliaProcessId.
FreshOnceHashed(w) ==
    [at |-> IF w[2] = "dest" /\ ~toHyli THEN "logs" ELSE "sleep", live |-> TRUE,
     timer |-> hyliHash[w[1]] # None, hyli |-> hyliHash[w[1]], dest |-> 0]

Fresh(w) ==
    [at |-> IF w[2] = "dest" /\ ~toHyli THEN "logs" ELSE "sleep", live |-> TRUE,
     timer |-> TRUE, hyli |-> hyliHash[w[1]], dest |-> 0]

\* React has rendered a new status type or direction, and runs the cleanups and then the
\* effects: one step, as late as React likes.
Flush ==
    /\ ~Rendered
    /\ shown' = [type |-> status.type, toHyli |-> toHyli]
    /\ loops' = [w \in Watches |-> IF Started(w) THEN Fresh(w) ELSE Cancelled(loops[w])]
    /\ UNCHANGED <<toHyli, status, relayInfo, hyliHash, messageId, call, lookups, intruded, worldVars>>

\* The loop of w goes on to l.
Goes(w, l) == loops' = [loops EXCEPT ![w] = l]

\* `while (!cancelled)`: another round, or the end of the loop.
Round(l) == IF l.live THEN [l EXCEPT !.at = "sleep"] ELSE Off

\* A setStatus under `if (!cancelled)`.
SetAnyway(l, s) == status' = s

SetIf(l, s) == status' = IF l.live THEN s ELSE status

\* Everything but the status and the loops.
Rest == <<toHyli, shown, relayInfo, hyliHash, messageId, call, lookups, intruded, worldVars>>

\* The 120 s timer of a watch.
TimesOut(w) ==
    /\ loops[w].timer
    /\ status' = Of("timeout", w[1], IF w[2] = "source" THEN hyliHash[w[1]] ELSE loops[w].hyli,
                    loops[w].dest)
    /\ Goes(w, [loops[w] EXCEPT !.timer = FALSE])
    /\ UNCHANGED Rest

-----------------------------------------------------------------------------
\* Watching a Hyli source: ask the indexer for the transaction's status, once its Hyli
\* hash is known, then the bridge server for its receipt.

SourceWakes(t) ==
    LET l == loops[<<t, "source">>]
    IN  /\ l.at = "sleep"
        /\ l.live => hyliHash[t] # None
        /\ Goes(<<t, "source">>, IF l.live THEN [l EXCEPT !.at = "status", !.hyli = hyliHash[t]]
                                 ELSE Off)
        /\ UNCHANGED <<status, Rest>>

\* A failure is reported whether or not the effect has been cancelled meanwhile.
SourceStatus(t) ==
    LET l == loops[<<t, "source">>]
    IN  /\ l.at = "status"
        /\ \/ /\ source[l.hyli] = "failed"
              /\ status' = Of("source_reverted", t, l.hyli, 0)
              /\ intruded' = (intruded \/ \E u \in Transfers : call[u] # "none")
              /\ Goes(<<t, "source">>, Off)
           \/ /\ source[l.hyli] = "ok"
              /\ Goes(<<t, "source">>, IF l.live THEN [l EXCEPT !.at = "receipt"] ELSE Off)
              /\ UNCHANGED <<status, intruded>>
           \/ \* still sequenced, or no answer
              /\ Goes(<<t, "source">>, Round(l))
              /\ UNCHANGED <<status, intruded>>
        /\ UNCHANGED <<toHyli, shown, relayInfo, hyliHash, messageId, call, lookups, worldVars>>

\* No receipt counts as reverted.
SourceReceipt(t) ==
    LET l == loops[<<t, "source">>]
    IN  /\ l.at = "receipt"
        /\ Goes(<<t, "source">>, Off)
        /\ \/ \* the request fails, or the receipt has no DispatchId
              SetIf(l, Plain("error")) /\ UNCHANGED messageId
           \/ /\ ~served[t]
              /\ SetIf(l, Of("source_reverted", t, hyliHash[t], 0))
              /\ UNCHANGED messageId
           \/ /\ served[t]
              /\ SetIf(l, Of("relaying", t, hyliHash[t], 0))
              /\ messageId' = [messageId EXCEPT ![t] = @ \/ l.live]
        /\ UNCHANGED <<toHyli, shown, relayInfo, hyliHash, call, lookups, intruded, worldVars>>

\* The answer of hyli_getHyliHash goes to whatever transfer is current by then.
LookupAnsweredBlindly(t) ==
    /\ t \in lookups
    /\ lookups' = lookups \ {t}
    /\ hyliHash' = IF relayInfo = None THEN hyliHash ELSE [hyliHash EXCEPT ![relayInfo] = t]
    /\ status' = [status EXCEPT !.hyli = t]
    /\ UNCHANGED <<toHyli, shown, relayInfo, messageId, call, loops, intruded, worldVars>>

LookupAnswered(t) ==
    /\ t \in lookups
    /\ lookups' = lookups \ {t}
    /\ \/ /\ relayInfo # None
          /\ hyliHash' = [hyliHash EXCEPT ![relayInfo] = t]
          /\ status' = IF status.tx = None THEN status ELSE [status EXCEPT !.hyli = t]
       \/ UNCHANGED <<hyliHash, status>>
    /\ UNCHANGED <<toHyli, shown, relayInfo, messageId, call, loops, intruded, worldVars>>

-----------------------------------------------------------------------------
\* Watching a Sepolia source: wagmi waits for the receipt.  Whether it has a DispatchId is not
\* looked at: without one the watch begins all the same, and never knows what to look for.
SepoliaReceipt ==
    /\ Rendered
    /\ status.type = "confirming" /\ toHyli
    /\ LET t == status.tx
       IN  \/ status' = Plain("error") /\ UNCHANGED messageId
           \/ /\ source[t] = "failed"
              /\ status' = Of("source_reverted", t, None, 0)
              /\ UNCHANGED messageId
           \/ /\ source[t] = "ok"
              /\ status' = Of("relaying", t, None, 0)
              /\ \E found \in BOOLEAN :
                    messageId' = IF relayInfo = None THEN messageId
                                 ELSE [messageId EXCEPT ![relayInfo] = found]
    /\ UNCHANGED <<toHyli, shown, relayInfo, hyliHash, call, lookups, loops, intruded, worldVars>>

-----------------------------------------------------------------------------
\* Watching the delivery on Hyli: ask the bridge server for the delivering transaction,
\* then the indexer for its status.

DestWakes(t) ==
    LET l == loops[<<t, "dest">>]
    IN  /\ l.at = "sleep"
        /\ l.live => l.dest # 0 \/ messageId[t]
        /\ Goes(<<t, "dest">>, IF ~l.live THEN Off
                               ELSE [l EXCEPT !.at = IF l.dest = 0 THEN "find" ELSE "delivery"])
        /\ UNCHANGED <<status, Rest>>

\* The message index names the last attempt, if it names one.
DestFind(t) ==
    LET l == loops[<<t, "dest">>]
    IN  /\ l.at = "find"
        /\ \/ /\ relayed[t] # <<>>
              /\ SetIf(l, Of("relaying", t, None, Len(relayed[t])))
              /\ Goes(<<t, "dest">>, [l EXCEPT !.at = "delivery", !.dest = Len(relayed[t])])
           \/ /\ Goes(<<t, "dest">>, Round(l))
              /\ UNCHANGED status
        /\ UNCHANGED Rest

\* Only success ends the watch.
DestDeliverySettled(t) ==
    LET l == loops[<<t, "dest">>]
    IN  /\ l.at = "delivery"
        /\ \/ /\ relayed[t][l.dest] # "Sequenced"
              /\ SetIf(l, Of("success", t, None, l.dest))
              /\ Goes(<<t, "dest">>, Off)
           \/ /\ Goes(<<t, "dest">>, Round(l))
              /\ UNCHANGED status
        /\ UNCHANGED Rest

DestDelivery(t) ==
    LET l == loops[<<t, "dest">>]
    IN  /\ l.at = "delivery"
        /\ \/ /\ relayed[t][l.dest] = "Success"
              /\ SetIf(l, Of("success", t, None, l.dest))
              /\ Goes(<<t, "dest">>, Off)
           \/ /\ Goes(<<t, "dest">>, Round(l))
              /\ UNCHANGED status
        /\ UNCHANGED Rest

\* Watching the delivery on Sepolia: poll the mailbox's logs for at most 110 s.
DestLogs(t) ==
    LET l == loops[<<t, "dest">>]
    IN  /\ l.at = "logs"
        /\ Goes(<<t, "dest">>, Off)
        /\ \/ SetIf(l, Plain("error"))
           \/ messageId[t] /\ SetIf(l, Of("timeout", t, l.hyli, 0))
           \/ /\ messageId[t]
              /\ \E n \in DOMAIN relayed[t] :
                    relayed[t][n] = "Success" /\ SetIf(l, Of("success", t, l.hyli, n))
        /\ UNCHANGED Rest

-----------------------------------------------------------------------------
\* The world.

\* The source transaction is mined on Sepolia or settled on Hyli; or it fails.
SourceSettles(t) ==
    /\ source[t] = "pending"
    /\ \E outcome \in {"ok", "failed"} : source' = [source EXCEPT ![t] = outcome]
    /\ UNCHANGED <<hookVars, direction, served, relayed>>

\* The bridge server hears of the settlement, which the indexer already reports.
Serve(t) ==
    /\ source[t] = "ok" /\ ~direction[t] /\ ~served[t]
    /\ served' = [served EXCEPT ![t] = TRUE]
    /\ UNCHANGED <<hookVars, direction, source, relayed>>

\* The relayer submits the message, again if the last attempt failed.
Relay(t) ==
    /\ source[t] = "ok"
    /\ Len(relayed[t]) < MaxAttempts
    /\ relayed[t] # <<>> => relayed[t][Len(relayed[t])] = "Failed"
    /\ relayed' = [relayed EXCEPT ![t] = Append(@, "Sequenced")]
    /\ UNCHANGED <<hookVars, direction, source, served>>

RelaySettles(t) ==
    /\ relayed[t] # <<>> /\ relayed[t][Len(relayed[t])] = "Sequenced"
    /\ \E outcome \in {"Success", "Failed"} :
        relayed' = [relayed EXCEPT ![t] = [@ EXCEPT ![Len(@)] = outcome]]
    /\ UNCHANGED <<hookVars, direction, source, served>>

-----------------------------------------------------------------------------
Next ==
    \/ \E t \in Transfers :
        \/ Bridge(t) \/ ChainSwitched(t) \/ Refused(t) \/ Sent(t)
        \/ SourceWakes(t) \/ SourceStatus(t) \/ SourceReceipt(t) \/ LookupAnswered(t)
        \/ DestWakes(t) \/ DestFind(t) \/ DestDelivery(t) \/ DestLogs(t)
        \/ SourceSettles(t) \/ Serve(t) \/ Relay(t) \/ RelaySettles(t)
    \/ Reset \/ Swap \/ Flush \/ SepoliaReceipt
    \/ \E w \in Watches : TimesOut(w)

\* React renders, and the browser's timers fire.  Nothing obliges the wallet, the chains,
\* the relayer or any server to answer.
Spec ==
    /\ Init
    /\ [][Next]_vars
    /\ WF_vars(Flush)
    /\ \A w \in Watches : WF_vars(TimesOut(w))

-----------------------------------------------------------------------------
\* Properties.

\* A transfer is reported delivered only if that attempt to deliver it succeeded, whatever
\* the hook has been told of other transfers and other attempts meanwhile.
SuccessIsTrue ==
    status.type = "success" =>
        /\ status.tx # None
        /\ status.dest \in DOMAIN relayed[status.tx]
        /\ relayed[status.tx][status.dest] = "Success"

\* A bridge() call outlives its status only if a late failure of an earlier transfer takes
\* the status, while the wallet is asked (useBridge.ts:251 does not look at `cancelled`).
\* The form is then usable, and the call, which goes on, interferes with what the user does
\* with it.  What follows holds of every run in which this has not happened.

\* A watch belongs to the transfer of relayInfo, and no second one runs beside it: the
\* effects' cleanups have cancelled every loop that an earlier status or direction started,
\* and a status that is displayed as being watched is watched.
Watched == status.type = "relaying" \/ (status.type = "confirming" /\ ~toHyli)

WatchIsLive ==
    ~intruded =>
        /\ \A v, w \in Watches : loops[v].live /\ loops[w].live => v = w
        /\ Rendered /\ Watched =>
                \E w \in Watches : w[1] = relayInfo /\ loops[w].live /\ loops[w].at # "off"

\* The status is that of the transfer of relayInfo: what the loops of an earlier transfer
\* are still told does not reach the user, but for a failure of its source.
OwnStatus ==
    ~intruded =>
        (status.tx # None => status.tx = relayInfo \/ status.type = "source_reverted")

\* A transfer is watched on the chains it was sent between: the form's direction does not
\* change under a bridge() call or a watch.
OwnDirection ==
    ~intruded =>
        (status.type \in {"confirming", "relaying"} => direction[status.tx] = toHyli)

\* The wait for a Hyli source ends, whoever answers or does not: its timer is not lost.
SourceWatchEnds == (status.type = "confirming" /\ ~toHyli) ~> (status.type # "confirming")

\* "transaction reverted" (front/src/components/TxStatus.tsx:114) is said only of a
\* transaction that failed.
RevertedIsTrue == status.type = "source_reverted" => source[status.tx] = "failed"

=============================================================================
