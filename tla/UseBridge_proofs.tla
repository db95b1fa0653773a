--------------------------- MODULE UseBridge_proofs ---------------------------
(***************************************************************************)
(* The hook's invariants, for any number of transfers and of the relayer's *)
(* attempts.                                                               *)
(*                                                                         *)
(* What the user is told rests on who may tell it: a loop that is not      *)
(* cancelled belongs to the transfer of relayInfo and to the status that   *)
(* was rendered last (Attached), a bridge() call keeps its status until    *)
(* the wallet has answered (OneCall), and a status that is watched names   *)
(* the transfer of relayInfo (Current).                                    *)
(***************************************************************************)
EXTENDS UseBridge, SequenceTheorems, TLAPS

Watching == {"confirming", "relaying"}

\* A cancelled loop has no timer.
Timed == \A w \in Watches : loops[w].timer => loops[w].live

\* A loop knows attempts that were made.
Delivered ==
    \A w \in Watches :
        /\ loops[w].dest # 0 => loops[w].dest \in DOMAIN relayed[w[1]]
        /\ loops[w].at = "delivery" => loops[w].dest # 0

Attached ==
    \A w \in Watches : loops[w].live =>
        /\ w[1] = relayInfo
        /\ direction[w[1]] = toHyli
        /\ shown.type = IF w[2] = "source" THEN "confirming" ELSE "relaying"

OneCall ==
    \A t \in Transfers : call[t] # "none" =>
        /\ \A u \in Transfers : call[u] # "none" => u = t
        /\ status.type \in {"switching_chain", "pending"}
        /\ shown.type \notin Watching
        /\ source[t] = "unsent"
        /\ direction[t] = toHyli

Current ==
    /\ relayInfo # None => source[relayInfo] # "unsent"
    /\ status.type \in Watching =>
        /\ status.tx = relayInfo
        /\ direction[status.tx] = toHyli

\* What the effects should be watching is watched.
LiveWatch ==
    \A w \in Watches : Rendered /\ Started(w) => loops[w].live /\ loops[w].at # "off"

Told == HookTypeOK /\ Timed /\ Delivered /\ SuccessIsTrue

Own == ~intruded => Attached /\ OneCall /\ Current /\ LiveWatch /\ OwnStatus

HookInv == Told /\ Own

-----------------------------------------------------------------------------
\* Types.

\* A status without a transaction.
LEMMA PlainType ==
    ASSUME NEW type \in {"idle", "switching_chain", "pending", "error"}
    PROVE  /\ Plain(type) \in Status
           /\ Plain(type).type = type /\ Plain(type).tx = None /\ Plain(type).dest = 0
    BY DEF Plain, Status, StatusType, WithTx

\* A status with one.
LEMMA OfType ==
    ASSUME NEW type \in WithTx, NEW t \in Transfers, NEW h \in Transfers \cup {None},
           NEW d \in 0..MaxAttempts
    PROVE  /\ Of(type, t, h, d) \in Status
           /\ Of(type, t, h, d).type = type /\ Of(type, t, h, d).tx = t
           /\ Of(type, t, h, d).dest = d
    BY DEF Of, Status, StatusType, WithTx

\* A status with one, and no attempt to deliver it.
LEMMA OfNoneType ==
    ASSUME NEW type \in {"confirming", "source_reverted", "relaying", "timeout"},
           NEW t \in Transfers, NEW h \in Transfers \cup {None}
    PROVE  /\ Of(type, t, h, 0) \in Status
           /\ Of(type, t, h, 0).type = type /\ Of(type, t, h, 0).tx = t
    <1>1. type \in WithTx /\ 0 \in 0..MaxAttempts BY HookAssumption DEF WithTx
    <1> QED BY <1>1, OfType

\* What a status has.
LEMMA StatusFields ==
    ASSUME NEW s \in Status
    PROVE  /\ s.type \in StatusType /\ s.tx \in Transfers \cup {None}
           /\ s.hyli \in Transfers \cup {None} /\ s.dest \in 0..MaxAttempts
           /\ s.tx # None <=> s.type \in WithTx
           /\ s = [type |-> s.type, tx |-> s.tx, hyli |-> s.hyli, dest |-> s.dest]
    BY HookAssumption DEF Status, StatusType, WithTx

\* The two watches of a transfer.
LEMMA WatchPair ==
    ASSUME NEW t \in Transfers, NEW k \in {"source", "dest"}
    PROVE  <<t, k>> \in Watches /\ <<t, k>>[1] = t /\ <<t, k>>[2] = k
    BY DEF Watches

\* A watch is of a transfer.
LEMMA WatchFields ==
    ASSUME NEW w \in Watches
    PROVE  w[1] \in Transfers /\ w[2] \in {"source", "dest"} /\ w = <<w[1], w[2]>>
    BY DEF Watches

\* The hook is idle at first.
LEMMA InitHookInv == Init => HookInv
    <1> SUFFICES ASSUME Init PROVE HookInv OBVIOUS
    <1>1. status \in Status /\ status.type = "idle" /\ status.tx = None
        BY PlainType DEF Init
    <1>2. relayed \in [Transfers -> UNION {[1..n -> {"Sequenced", "Success", "Failed"}] :
                                              n \in 0..MaxAttempts}]
        <2>1. <<>> \in [1..0 -> {"Sequenced", "Success", "Failed"}] BY EmptySeq
        <2>2. 0 \in 0..MaxAttempts BY HookAssumption
        <2> QED BY <2>1, <2>2 DEF Init
    <1>3. Off \in Loop BY HookAssumption DEF Off, Loop
    <1>4. HookTypeOK BY <1>1, <1>2, <1>3 DEF Init, HookTypeOK, StatusType
    <1>5. Timed /\ Delivered /\ SuccessIsTrue
        BY <1>1 DEF Timed, Delivered, SuccessIsTrue, Init, Off
    <1>6. Attached /\ OneCall /\ Current /\ LiveWatch /\ OwnStatus
        BY <1>1 DEF Attached, OneCall, Current, LiveWatch, OwnStatus, Init, Off, Watching,
                    Started
    <1> QED BY <1>4, <1>5, <1>6 DEF HookInv, Told, Own

-----------------------------------------------------------------------------
\* The user.

\* bridge() is called: nothing is watched, and no other call is open.
LEMMA BridgeInv ==
    ASSUME HookInv, NEW t \in Transfers, Bridge(t)
    PROVE  HookInv'
    <1> USE DEF HookInv, Told
    <1>1. PICK at \in {"switching", "wallet"} :
            /\ call' = [call EXCEPT ![t] = at]
            /\ status' = Plain(IF at = "switching" THEN "switching_chain" ELSE "pending")
        BY DEF Bridge
    <1>2. /\ status' \in Status /\ status'.tx = None
          /\ status'.type \in {"switching_chain", "pending"}
        BY <1>1, PlainType
    <1>3. Told' BY <1>1, <1>2 DEF Bridge, HookTypeOK, Timed, Delivered, SuccessIsTrue
    <1>4. ASSUME ~intruded
          PROVE  (Attached /\ OneCall /\ Current /\ LiveWatch /\ OwnStatus)'
        <2>1. /\ Attached /\ OneCall /\ Current
              /\ shown.type \notin Watching
              /\ source[t] = "unsent"
            BY <1>4 DEF Own, Bridge, Rendered, Busy, Watching
        <2>2. \A w \in Watches : ~loops[w].live BY <2>1 DEF Attached, Watching
        <2>3. \A u \in Transfers : call[u] = "none"
            BY <2>1 DEF OneCall, Bridge, Busy
        <2>4. OneCall'
            BY <1>1, <1>2, <2>1, <2>3 DEF OneCall, Bridge, HookTypeOK
        <2> QED BY <1>2, <2>1, <2>2, <2>4
                DEF Attached, Current, LiveWatch, Started, OwnStatus, Watching, Bridge
    <1> QED BY <1>3, <1>4 DEF Own, Bridge

\* The wallet switches the chain or refuses.
LEMMA WalletInv ==
    ASSUME HookInv, NEW t \in Transfers, ChainSwitched(t) \/ Refused(t)
    PROVE  HookInv'
    <1> USE DEF HookInv, Told
    <1>1. /\ status' \in Status /\ status'.tx = None
          /\ status'.type \in {"pending", "error"}
          /\ UNCHANGED <<toHyli, shown, relayInfo, hyliHash, messageId, lookups, loops,
                         intruded, worldVars>>
        BY PlainType DEF ChainSwitched, Refused
    <1>2. /\ call' \in [Transfers -> {"none", "switching", "wallet"}]
          /\ \A u \in Transfers : call'[u] # "none" => call[u] # "none"
          /\ status'.type = "error" => call'[t] = "none"
          /\ call[t] # "none"
        BY PlainType DEF ChainSwitched, Refused, HookTypeOK
    <1>3. Told'
        BY <1>1, <1>2 DEF HookTypeOK, Timed, Delivered, SuccessIsTrue, worldVars
    <1>4. ASSUME ~intruded
          PROVE  (Attached /\ OneCall /\ Current /\ LiveWatch /\ OwnStatus)'
        <2>1. Attached /\ OneCall /\ Current BY <1>4 DEF Own
        <2>2. OneCall' BY <1>1, <1>2, <2>1 DEF OneCall, worldVars
        <2> QED BY <1>1, <2>1, <2>2
                DEF Attached, Current, LiveWatch, Started, OwnStatus, Watching, worldVars
    <1> QED BY <1>1, <1>3, <1>4 DEF Own

\* The transaction is sent, and becomes the transfer of relayInfo.
LEMMA SentInv ==
    ASSUME HookInv, NEW t \in Transfers, Sent(t)
    PROVE  HookInv'
    <1> USE DEF HookInv, Told
    <1>1. /\ status' \in Status /\ status'.tx = t /\ status'.type = "confirming"
          /\ status' = Of("confirming", t, None, 0)
        BY OfType, HookAssumption DEF Sent, WithTx
    <1>2. Told' BY <1>1 DEF Sent, HookTypeOK, Timed, Delivered, SuccessIsTrue
    <1>3. ASSUME ~intruded
          PROVE  (Attached /\ OneCall /\ Current /\ LiveWatch /\ OwnStatus)'
        <2>1. /\ Attached /\ OneCall /\ Current
              /\ shown.type \notin Watching
              /\ direction[t] = toHyli
            BY <1>3 DEF Own, OneCall, Sent
        <2>2. \A w \in Watches : ~loops[w].live BY <2>1 DEF Attached, Watching
        <2>3. \A u \in Transfers : call'[u] = "none"
            BY <2>1 DEF OneCall, Sent, HookTypeOK
        <2>4. ~Rendered' BY <1>1, <2>1 DEF Rendered, Watching, Sent
        <2>5. source'[t] # "unsent" BY DEF Sent, HookTypeOK
        <2> QED BY <1>1, <2>1, <2>2, <2>3, <2>4, <2>5
                DEF Attached, OneCall, Current, LiveWatch, OwnStatus, Watching, Sent
    <1> QED BY <1>2, <1>3 DEF Own, Sent

\* The form is reset, or its direction swapped: nothing is watched.
LEMMA ResetInv ==
    ASSUME HookInv, Reset \/ Swap
    PROVE  HookInv'
    <1> USE DEF HookInv, Told
    <1>1. /\ status' \in Status /\ status'.tx = None /\ status'.type = "idle"
          /\ relayInfo' = None /\ toHyli' \in BOOLEAN
          /\ UNCHANGED <<shown, hyliHash, messageId, call, lookups, loops, intruded, worldVars>>
        BY PlainType DEF Reset, Swap, HookTypeOK
    <1>2. Told' BY <1>1 DEF HookTypeOK, Timed, Delivered, SuccessIsTrue, worldVars
    <1>3. ASSUME ~intruded
          PROVE  (Attached /\ OneCall /\ Current /\ LiveWatch /\ OwnStatus)'
        <2>1. /\ Attached /\ OneCall
              /\ status.type \notin Busy /\ shown.type \notin Watching
            BY <1>3 DEF Own, Reset, Swap, Rendered, Busy, Terminal, Watching
        <2>2. \A w \in Watches : ~loops[w].live BY <2>1 DEF Attached, Watching
        <2>3. \A u \in Transfers : call[u] = "none" BY <2>1 DEF OneCall, Busy
        <2> QED BY <1>1, <2>1, <2>2, <2>3
                DEF Attached, OneCall, Current, LiveWatch, Started, OwnStatus, Watching
    <1> QED BY <1>1, <1>2, <1>3 DEF Own

-----------------------------------------------------------------------------
\* The effects.

\* A loop that an effect starts knows no attempt yet.
LEMMA FreshType ==
    ASSUME HookTypeOK, NEW w \in Watches
    PROVE  /\ Fresh(w) \in Loop /\ Fresh(w).live /\ Fresh(w).dest = 0
           /\ Fresh(w).at \in {"sleep", "logs"}
    <1>1. hyliHash[w[1]] \in Transfers \cup {None} BY WatchFields DEF HookTypeOK
    <1>2. 0 \in 0..MaxAttempts BY HookAssumption
    <1> QED BY <1>1, <1>2 DEF Fresh, Loop

\* A cancelled loop goes on waiting.
LEMMA CancelledType ==
    ASSUME NEW l \in Loop
    PROVE  /\ Cancelled(l) \in Loop /\ ~Cancelled(l).live /\ ~Cancelled(l).timer
           /\ Cancelled(l).dest = l.dest /\ Cancelled(l).at = l.at
    BY DEF Cancelled, Loop

\* React cancels the loops of the last status and starts those of the new one.
LEMMA FlushInv ==
    ASSUME HookInv, Flush
    PROVE  HookInv'
    <1> USE DEF HookInv, Told
    <1>1. \A w \in Watches :
            /\ Fresh(w) \in Loop /\ Fresh(w).live /\ Fresh(w).dest = 0
            /\ Fresh(w).at \in {"sleep", "logs"}
            /\ Cancelled(loops[w]) \in Loop /\ ~Cancelled(loops[w]).live
            /\ ~Cancelled(loops[w]).timer
            /\ Cancelled(loops[w]).dest = loops[w].dest /\ Cancelled(loops[w]).at = loops[w].at
        BY FreshType, CancelledType DEF HookTypeOK
    <1>2. \A w \in Watches :
            loops'[w] = IF Started(w) THEN Fresh(w) ELSE Cancelled(loops[w])
        BY DEF Flush
    <1>3. HookTypeOK'
        BY <1>1, StatusFields DEF HookTypeOK, Flush, worldVars
    <1>4. Timed' /\ Delivered' /\ SuccessIsTrue'
        BY <1>1, <1>2 DEF Timed, Delivered, SuccessIsTrue, Flush, worldVars
    <1>5. ASSUME ~intruded
          PROVE  (Attached /\ OneCall /\ Current /\ LiveWatch /\ OwnStatus)'
        <2>1. OneCall /\ Current /\ OwnStatus BY <1>5 DEF Own
        <2>2. \A w \in Watches : Started(w)' <=> Started(w) BY DEF Started, Flush
        <2>3. Attached'
            BY <1>1, <1>2, <2>1, WatchFields
            DEF Attached, Current, Started, Flush, Watching, worldVars
        <2>4. LiveWatch' BY <1>1, <1>2, <2>2 DEF LiveWatch
        <2> QED BY <2>1, <2>3, <2>4 DEF OneCall, Current, OwnStatus, Flush, Watching, worldVars
    <1> QED BY <1>3, <1>4, <1>5 DEF Own, Flush

\* What a loop that is not cancelled reports of its own transfer ends its watch or goes on
\* with it.
LEMMA ReportInv ==
    ASSUME HookInv, NEW w \in Watches, NEW l \in Loop, Goes(w, l),
           status' \in Status,
           SuccessIsTrue',
           l.timer => l.live, l.live => loops[w].live,
           l.dest # 0 => l.dest \in DOMAIN relayed[w[1]],
           l.at = "delivery" => l.dest # 0,
           \/ status' = status
           \/ /\ loops[w].live
              /\ status'.tx \in {None, w[1]}
              /\ status'.type \notin {"switching_chain", "pending"}
              /\ status'.type # "confirming",
           \/ intruded
           \/ status'.type # shown.type
           \/ l.live /\ l.at # "off"
           \/ ~loops[w].live,
           UNCHANGED <<toHyli, shown, relayInfo, hyliHash, call, lookups, intruded, worldVars>>,
           messageId' \in [Transfers -> BOOLEAN]
    PROVE  HookInv'
    <1> USE DEF HookInv, Told
    <1>1. /\ loops' \in [Watches -> Loop] /\ loops'[w] = l
          /\ \A v \in Watches : v # w => loops'[v] = loops[v]
        BY DEF Goes, HookTypeOK
    <1>2. HookTypeOK' BY <1>1 DEF HookTypeOK, worldVars
    <1>3. Timed' /\ Delivered' BY <1>1 DEF Timed, Delivered, worldVars
    <1>4. ASSUME ~intruded
          PROVE  (Attached /\ OneCall /\ Current /\ LiveWatch /\ OwnStatus)'
        <2>1. Attached /\ OneCall /\ Current /\ LiveWatch /\ OwnStatus BY <1>4 DEF Own
        <2>2. Attached' BY <1>1, <2>1 DEF Attached, worldVars
        <2>3. CASE status' = status
            <3>1. LiveWatch'
                BY <1>1, <1>4, <2>1, <2>3 DEF LiveWatch, Rendered, Started
            <3> QED BY <2>1, <2>2, <2>3, <3>1 DEF OneCall, Current, OwnStatus, worldVars
        <2>4. CASE status' # status
            <3>1. /\ w[1] = relayInfo /\ direction[w[1]] = toHyli
                  /\ shown.type \in Watching
                BY <2>1, <2>4 DEF Attached, Watching
            <3>2. OneCall' BY <2>1, <2>4, <3>1 DEF OneCall, worldVars
            <3>3. status'.type = "relaying" => status'.tx = w[1]
                BY <2>4, StatusFields DEF WithTx
            <3>4. Current' BY <2>1, <2>4, <3>1, <3>3 DEF Current, Watching, worldVars
            <3>5. OwnStatus' BY <2>4, <3>1 DEF OwnStatus
            <3>6. LiveWatch'
                <4> SUFFICES ASSUME NEW v \in Watches, Rendered', Started(v)'
                             PROVE  loops'[v].live /\ loops'[v].at # "off"
                    BY DEF LiveWatch
                <4>1. /\ status'.type = "relaying" /\ status'.type = shown.type
                      /\ v[1] = relayInfo /\ v[2] = "dest"
                    BY <2>4 DEF Rendered, Started
                <4>2. w[2] = "dest" BY <2>1, <2>4, <4>1, WatchFields DEF Attached
                <4>3. v = w BY <3>1, <4>1, <4>2, WatchFields
                <4> QED BY <1>1, <1>4, <2>4, <4>1, <4>3
            <3> QED BY <2>2, <3>2, <3>4, <3>5, <3>6
        <2> QED BY <2>3, <2>4
    <1> QED BY <1>2, <1>3, <1>4 DEF Own

\* A live loop's status is the one rendered last.
LEMMA LiveShown ==
    ASSUME HookInv, NEW w \in Watches, loops[w].live
    PROVE  intruded \/ shown.type = IF w[2] = "source" THEN "confirming" ELSE "relaying"
    BY DEF HookInv, Own, Attached

\* The end of a loop.
LEMMA OffType == Off \in Loop /\ ~Off.live /\ ~Off.timer /\ Off.dest = 0 /\ Off.at = "off"
    BY HookAssumption DEF Off, Loop

\* Another round of a loop, or its end.
LEMMA RoundType ==
    ASSUME NEW l \in Loop
    PROVE  /\ Round(l) \in Loop
           /\ Round(l).live => l.live /\ Round(l).at = "sleep"
           /\ l.live => Round(l).live
           /\ Round(l).timer => l.timer
           /\ Round(l).dest # 0 => Round(l).dest = l.dest
           /\ Round(l).at # "delivery"
    BY OffType DEF Round, Loop

\* The attempts to deliver the message of t, numbered from 1.
LEMMA RelayedSeq ==
    ASSUME HookTypeOK, NEW t \in Transfers
    PROVE  /\ relayed[t] \in Seq({"Sequenced", "Success", "Failed"})
           /\ Len(relayed[t]) \in 0..MaxAttempts
           /\ DOMAIN relayed[t] = 1..Len(relayed[t])
           /\ DOMAIN relayed[t] \subseteq 0..MaxAttempts
    <1>1. PICK n \in 0..MaxAttempts : relayed[t] \in [1..n -> {"Sequenced", "Success", "Failed"}]
        BY DEF HookTypeOK
    <1>2. n \in Nat BY HookAssumption
    <1>3. relayed[t] \in Seq({"Sequenced", "Success", "Failed"}) /\ Len(relayed[t]) = n
        BY <1>1, <1>2, SeqDef, LenProperties
    <1> QED BY <1>1, <1>2, <1>3, HookAssumption

\* A watch times out.
LEMMA TimesOutInv ==
    ASSUME HookInv, NEW w \in Watches, TimesOut(w)
    PROVE  HookInv'
    <1> DEFINE l == [loops[w] EXCEPT !.timer = FALSE]
    <1>1. /\ loops[w] \in Loop /\ loops[w].live /\ loops[w].timer
          /\ hyliHash[w[1]] \in Transfers \cup {None}
          /\ loops[w].hyli \in Transfers \cup {None} /\ loops[w].dest \in 0..MaxAttempts
        BY WatchFields DEF HookInv, Told, HookTypeOK, Timed, TimesOut, Loop
    <1>2. /\ l \in Loop /\ l.live /\ ~l.timer /\ l.dest = loops[w].dest /\ l.at = loops[w].at
        BY <1>1 DEF Loop
    <1>3. status' \in Status /\ status'.type = "timeout" /\ status'.tx = w[1]
        <2>1. PICK h \in Transfers \cup {None} : status' = Of("timeout", w[1], h, loops[w].dest)
            BY <1>1 DEF TimesOut
        <2>2. "timeout" \in WithTx BY DEF WithTx
        <2> QED BY <1>1, <2>1, <2>2, OfType, WatchFields
    <1>4. Goes(w, l) /\ UNCHANGED Rest BY DEF TimesOut
    <1>5. SuccessIsTrue' BY <1>3 DEF SuccessIsTrue
    <1>6. intruded \/ status'.type # shown.type BY <1>1, <1>3, LiveShown
    <1>7. /\ l.dest # 0 => l.dest \in DOMAIN relayed[w[1]]
          /\ l.at = "delivery" => l.dest # 0
          /\ messageId \in [Transfers -> BOOLEAN]
        BY <1>2 DEF HookInv, Told, Delivered, HookTypeOK
    <1> HIDE DEF l
    <1> QED BY <1>1, <1>2, <1>3, <1>4, <1>5, <1>6, <1>7, ReportInv DEF Rest

\* A loop wakes up, and ends if it has been cancelled.
LEMMA WakesInv ==
    ASSUME HookInv, NEW t \in Transfers, SourceWakes(t) \/ DestWakes(t)
    PROVE  HookInv'
    <1> DEFINE k == IF SourceWakes(t) THEN "source" ELSE "dest"
               w == <<t, k>>
    <1>1. w \in Watches /\ w[1] = t BY WatchPair
    <1>2. loops[w] \in Loop /\ hyliHash[t] \in Transfers \cup {None}
        BY <1>1 DEF HookInv, Told, HookTypeOK
    <1>3. PICK l : /\ Goes(w, l) /\ UNCHANGED <<status, Rest>>
                   /\ \/ ~loops[w].live /\ l = Off
                      \/ loops[w].live /\ l = [loops[w] EXCEPT !.at = "status",
                                                                !.hyli = hyliHash[t]]
                      \/ loops[w].live /\ loops[w].dest = 0 /\ l = [loops[w] EXCEPT !.at = "find"]
                      \/ loops[w].live /\ loops[w].dest # 0 /\ l = [loops[w] EXCEPT !.at = "delivery"]
        BY DEF SourceWakes, DestWakes
    <1> HIDE DEF w
    <1>4. /\ l \in Loop
          /\ l.live <=> loops[w].live
          /\ l.live => l.at # "off"
          /\ l.timer => l.live \/ loops[w].timer
          /\ l.timer => loops[w].timer
          /\ l.dest # 0 => l.dest = loops[w].dest
          /\ l.at = "delivery" => l.dest # 0
        BY <1>2, <1>3, OffType DEF Loop
    <1>5. /\ l.timer => l.live
          /\ l.dest # 0 => l.dest \in DOMAIN relayed[w[1]]
          /\ status \in Status /\ messageId \in [Transfers -> BOOLEAN]
        BY <1>1, <1>4 DEF HookInv, Told, HookTypeOK, Timed, Delivered
    <1>6. SuccessIsTrue'
        BY <1>3 DEF HookInv, Told, SuccessIsTrue, Rest, worldVars
    <1> QED BY <1>1, <1>3, <1>4, <1>5, <1>6, ReportInv DEF Rest

-----------------------------------------------------------------------------
\* Watching the source.

\* The indexer's answer.  A failure is reported by a cancelled loop, too: of the transfer of
\* relayInfo or an earlier one, and while a bridge() call is in progress it intrudes.
LEMMA SourceStatusInv ==
    ASSUME HookInv, NEW t \in Transfers, SourceStatus(t)
    PROVE  HookInv'
    <1> DEFINE w == <<t, "source">>
    <1>1. w \in Watches /\ w[1] = t BY WatchPair
    <1> HIDE DEF w
    <1>2. /\ loops[w] \in Loop /\ loops[w].hyli \in Transfers \cup {None}
          /\ loops[w].timer => loops[w].live
          /\ loops[w].dest # 0 => loops[w].dest \in DOMAIN relayed[w[1]]
          /\ status \in Status /\ messageId \in [Transfers -> BOOLEAN]
        BY <1>1 DEF HookInv, Told, HookTypeOK, Timed, Delivered, Loop
    <1>3. UNCHANGED <<toHyli, shown, relayInfo, hyliHash, messageId, call, lookups, worldVars>>
        BY DEF SourceStatus
    <1>4. ASSUME /\ status' = Of("source_reverted", t, loops[w].hyli, 0)
                 /\ intruded' = (intruded \/ \E u \in Transfers : call[u] # "none")
                 /\ Goes(w, Off)
          PROVE  HookInv'
        <2>1. /\ status' \in Status /\ status'.type = "source_reverted"
            BY <1>2, <1>4, OfNoneType
        <2>2. /\ loops' \in [Watches -> Loop] /\ loops'[w] = Off
              /\ \A v \in Watches : v # w => loops'[v] = loops[v]
            BY <1>1, <1>4, OffType DEF Goes, HookInv, Told, HookTypeOK
        <2>3. intruded' \in BOOLEAN BY <1>4 DEF HookInv, Told, HookTypeOK
        <2>4. HookTypeOK' BY <1>3, <2>1, <2>2, <2>3 DEF HookInv, Told, HookTypeOK, worldVars
        <2>5. Timed' /\ Delivered' /\ SuccessIsTrue'
            BY <1>3, <2>1, <2>2, OffType
            DEF HookInv, Told, Timed, Delivered, SuccessIsTrue, worldVars
        <2>6. ASSUME ~intruded'
              PROVE  (Attached /\ OneCall /\ Current /\ LiveWatch /\ OwnStatus)'
            <3>1. ~intruded /\ \A u \in Transfers : call[u] = "none" BY <1>4, <2>6
            <3>2. Attached /\ Current BY <3>1 DEF HookInv, Own
            <3>3. Attached' BY <1>3, <2>2, <3>2, OffType DEF Attached, worldVars
            <3> QED BY <1>3, <2>1, <3>1, <3>2, <3>3
                    DEF OneCall, Current, LiveWatch, Started, OwnStatus, Watching, worldVars
        <2> QED BY <2>4, <2>5, <2>6 DEF HookInv, Told, Own
    <1>5. ASSUME NEW l, Goes(w, l), UNCHANGED <<status, intruded>>,
                 \/ l = IF loops[w].live THEN [loops[w] EXCEPT !.at = "receipt"] ELSE Off
                 \/ l = Round(loops[w])
          PROVE  HookInv'
        <2>1. /\ l \in Loop
              /\ l.live <=> loops[w].live
              /\ l.live => l.at # "off"
              /\ l.timer => loops[w].timer
              /\ l.dest # 0 => l.dest = loops[w].dest
              /\ l.at # "delivery"
            <3>1. CASE l = Round(loops[w]) BY <1>2, <3>1, RoundType
            <3>2. CASE l = IF loops[w].live THEN [loops[w] EXCEPT !.at = "receipt"] ELSE Off
                BY <1>2, <3>2, OffType DEF Loop
            <3> QED BY <1>5, <3>1, <3>2
        <2>2. SuccessIsTrue'
            BY <1>3, <1>5 DEF HookInv, Told, SuccessIsTrue, worldVars
        <2> QED BY <1>1, <1>2, <1>3, <1>5, <2>1, <2>2, ReportInv
    <1> QED BY <1>4, <1>5 DEF SourceStatus, w

\* A report of a loop that ends, to the user unless it has been cancelled.
LEMMA LastReportInv ==
    ASSUME HookInv, NEW w \in Watches, NEW s \in Status,
           Goes(w, Off), SetIf(loops[w], s),
           s.tx \in {None, w[1]},
           s.type \in {"error", "source_reverted", "timeout", "success"}
               \cup (IF w[2] = "source" THEN {"relaying"} ELSE {}),
           s.type = "success" => /\ s.tx # None /\ s.dest \in DOMAIN relayed[s.tx]
                                 /\ relayed[s.tx][s.dest] = "Success",
           UNCHANGED <<toHyli, shown, relayInfo, hyliHash, call, lookups, intruded, worldVars>>,
           messageId' \in [Transfers -> BOOLEAN]
    PROVE  HookInv'
    <1>1. status \in Status BY DEF HookInv, Told, HookTypeOK
    <1>2. \/ ~loops[w].live /\ status' = status
          \/ loops[w].live /\ status' = s
        BY DEF SetIf
    <1>3. status' \in Status BY <1>1, <1>2
    <1>4. SuccessIsTrue'
        BY <1>2 DEF HookInv, Told, SuccessIsTrue, worldVars
    <1>5. intruded \/ status'.type # shown.type \/ ~loops[w].live BY <1>2, LiveShown
    <1> QED BY <1>2, <1>3, <1>4, <1>5, OffType, ReportInv

\* The bridge server's receipt.
LEMMA SourceReceiptInv ==
    ASSUME HookInv, NEW t \in Transfers, SourceReceipt(t)
    PROVE  HookInv'
    <1> DEFINE w == <<t, "source">>
    <1>1. w \in Watches /\ w[1] = t /\ w[2] = "source" BY WatchPair
    <1> HIDE DEF w
    <1>2. /\ hyliHash[t] \in Transfers \cup {None}
          /\ messageId \in [Transfers -> BOOLEAN] /\ loops[w].live \in BOOLEAN
        BY <1>1 DEF HookInv, Told, HookTypeOK, Loop
    <1>3. PICK s \in {Plain("error"), Of("source_reverted", t, hyliHash[t], 0),
                      Of("relaying", t, hyliHash[t], 0)} : SetIf(loops[w], s)
        BY DEF SourceReceipt, w
    <1>4. /\ s \in Status /\ s.tx \in {None, t}
          /\ s.type \in {"error", "source_reverted", "relaying"}
        <2>1. CASE s = Plain("error") BY <2>1, PlainType
        <2>2. CASE s = Of("source_reverted", t, hyliHash[t], 0) BY <1>2, <2>2, OfNoneType
        <2>3. CASE s = Of("relaying", t, hyliHash[t], 0) BY <1>2, <2>3, OfNoneType
        <2> QED BY <1>3, <2>1, <2>2, <2>3
    <1>5. messageId' \in [Transfers -> BOOLEAN] BY <1>2 DEF SourceReceipt, w
    <1>6. /\ Goes(w, Off)
          /\ UNCHANGED <<toHyli, shown, relayInfo, hyliHash, call, lookups, intruded, worldVars>>
        BY DEF SourceReceipt, w
    <1> QED BY <1>1, <1>3, <1>4, <1>5, <1>6, LastReportInv

\* The Hyli hash of the current transfer's object.
LEMMA LookupAnsweredInv ==
    ASSUME HookInv, NEW t \in Transfers, LookupAnswered(t)
    PROVE  HookInv'
    <1> USE DEF HookInv, Told
    <1>1. status \in Status BY DEF HookTypeOK
    <1>2. \/ status' = status
          \/ status.tx # None /\ status' = [status EXCEPT !.hyli = t]
        BY DEF LookupAnswered
    <1>3. /\ status' \in Status /\ status'.type = status.type
          /\ status'.tx = status.tx /\ status'.dest = status.dest
        <2>1. CASE status' = status BY <1>1, <2>1
        <2>2. CASE status.tx # None /\ status' = [status EXCEPT !.hyli = t]
            <3>1. status \in [type : WithTx, tx : Transfers, hyli : Transfers \cup {None},
                              dest : 0..MaxAttempts]
                BY <1>1, <2>2 DEF Status
            <3> QED BY <2>2, <3>1 DEF Status
        <2> QED BY <1>2, <2>1, <2>2
    <1>4. /\ lookups' \subseteq Transfers
          /\ hyliHash' \in [Transfers -> Transfers \cup {None}]
        <2>1. /\ relayInfo \in Transfers \cup {None} /\ lookups \subseteq Transfers
              /\ hyliHash \in [Transfers -> Transfers \cup {None}]
            BY DEF HookTypeOK
        <2>2. lookups' \subseteq lookups BY DEF LookupAnswered
        <2>3. \/ hyliHash' = hyliHash
              \/ relayInfo # None /\ hyliHash' = [hyliHash EXCEPT ![relayInfo] = t]
            BY DEF LookupAnswered
        <2> QED BY <2>1, <2>2, <2>3
    <1>5. UNCHANGED <<toHyli, shown, relayInfo, messageId, call, loops, intruded, worldVars>>
        BY DEF LookupAnswered
    <1>6. HookTypeOK' BY <1>3, <1>4, <1>5 DEF HookTypeOK, worldVars
    <1>7. Timed' /\ Delivered' /\ SuccessIsTrue'
        BY <1>3, <1>5 DEF Timed, Delivered, SuccessIsTrue, worldVars
    <1>8. Own'
        BY <1>3, <1>5
        DEF Own, Attached, OneCall, Current, LiveWatch, Rendered, Started, OwnStatus, worldVars
    <1> QED BY <1>6, <1>7, <1>8

\* wagmi's receipt of a Sepolia source.
LEMMA SepoliaReceiptInv ==
    ASSUME HookInv, SepoliaReceipt
    PROVE  HookInv'
    <1> USE DEF HookInv, Told
    <1>1. status.type = "confirming" /\ status.tx \in Transfers /\ shown.type = "confirming"
        BY StatusFields DEF SepoliaReceipt, HookTypeOK, Rendered, WithTx
    <1>2. PICK s \in {Plain("error"), Of("source_reverted", status.tx, None, 0),
                      Of("relaying", status.tx, None, 0)} : status' = s
        BY DEF SepoliaReceipt
    <1>3. /\ s \in Status
          /\ s.type \in {"error", "source_reverted", "relaying"}
          /\ s.tx \in {None, status.tx}
          /\ s.type = "relaying" => s.tx = status.tx
        <2>1. CASE s = Plain("error") BY <2>1, PlainType
        <2>2. CASE s = Of("source_reverted", status.tx, None, 0) BY <1>1, <2>2, OfNoneType
        <2>3. CASE s = Of("relaying", status.tx, None, 0) BY <1>1, <2>3, OfNoneType
        <2> QED BY <1>2, <2>1, <2>2, <2>3
    <1>4. messageId' \in [Transfers -> BOOLEAN] BY DEF SepoliaReceipt, HookTypeOK
    <1>5. UNCHANGED <<toHyli, shown, relayInfo, hyliHash, call, lookups, loops, intruded, worldVars>>
        BY DEF SepoliaReceipt
    <1>6. Told'
        BY <1>2, <1>3, <1>4, <1>5
        DEF HookTypeOK, Timed, Delivered, SuccessIsTrue, worldVars
    <1>7. Own'
        BY <1>1, <1>2, <1>3, <1>5
        DEF Own, Attached, OneCall, Current, LiveWatch, Rendered, OwnStatus, Watching, worldVars
    <1> QED BY <1>6, <1>7

-----------------------------------------------------------------------------
\* Watching the destination.

\* A loop has learned nothing.
LEMMA RoundInv ==
    ASSUME HookInv, NEW w \in Watches, Goes(w, Round(loops[w])), UNCHANGED <<status, Rest>>
    PROVE  HookInv'
    <1> DEFINE l == Round(loops[w])
    <1>1. /\ loops[w] \in Loop
          /\ loops[w].timer => loops[w].live
          /\ loops[w].dest # 0 => loops[w].dest \in DOMAIN relayed[w[1]]
          /\ status \in Status /\ messageId \in [Transfers -> BOOLEAN]
        BY DEF HookInv, Told, HookTypeOK, Timed, Delivered
    <1>2. /\ l \in Loop
          /\ l.live => loops[w].live /\ l.at = "sleep"
          /\ loops[w].live => l.live
          /\ l.timer => loops[w].timer
          /\ l.dest # 0 => l.dest = loops[w].dest
          /\ l.at # "delivery"
        BY <1>1, RoundType
    <1>3. SuccessIsTrue' BY DEF HookInv, Told, SuccessIsTrue, Rest, worldVars
    <1> HIDE DEF l
    <1>4. Goes(w, l) BY DEF l
    <1> QED BY <1>1, <1>2, <1>3, <1>4, ReportInv DEF Rest

\* The message index names the last attempt, and the loop goes on with it.
LEMMA DestFindInv ==
    ASSUME HookInv, NEW t \in Transfers, DestFind(t)
    PROVE  HookInv'
    <1> DEFINE w == <<t, "dest">>
               n == Len(relayed[t])
    <1>1. w \in Watches /\ w[1] = t /\ w[2] = "dest" BY WatchPair
    <1> HIDE DEF w
    <1>2. /\ loops[w] \in Loop
          /\ loops[w].timer => loops[w].live
          /\ loops[w].dest # 0 => loops[w].dest \in DOMAIN relayed[t]
          /\ status \in Status /\ messageId \in [Transfers -> BOOLEAN]
          /\ SuccessIsTrue
        BY <1>1 DEF HookInv, Told, HookTypeOK, Timed, Delivered
    <1>3. UNCHANGED Rest BY DEF DestFind
    <1>4. ASSUME /\ relayed[t] # <<>>
                 /\ SetIf(loops[w], Of("relaying", t, None, n))
                 /\ Goes(w, [loops[w] EXCEPT !.at = "delivery", !.dest = n])
          PROVE  HookInv'
        <2> DEFINE l == [loops[w] EXCEPT !.at = "delivery", !.dest = n]
                   s == Of("relaying", t, None, n)
        <2>1. n \in 0..MaxAttempts /\ n # 0 /\ n \in DOMAIN relayed[t]
            BY <1>4, RelayedSeq, EmptySeq DEF HookInv, Told
        <2> HIDE DEF n
        <2>2. /\ l \in Loop /\ l.at = "delivery" /\ l.dest = n
              /\ l.live <=> loops[w].live
              /\ l.timer <=> loops[w].timer
            BY <1>2, <2>1 DEF Loop
        <2>3. s \in Status /\ s.type = "relaying" /\ s.tx = t
            <3>1. "relaying" \in WithTx /\ None \in Transfers \cup {None} BY DEF WithTx
            <3> QED BY <2>1, <3>1, OfType
        <2>4. \/ loops[w].live /\ status' = s
              \/ ~loops[w].live /\ status' = status
            BY <1>4 DEF SetIf
        <2>5. Goes(w, l) BY <1>4
        <2> HIDE DEF l, s
        <2>6. SuccessIsTrue' BY <1>2, <1>3, <2>3, <2>4 DEF SuccessIsTrue, Rest, worldVars
        <2>7. status' \in Status BY <1>2, <2>3, <2>4
        <2>8. \/ status' = status
              \/ /\ loops[w].live /\ status'.tx \in {None, w[1]}
                 /\ status'.type = "relaying"
            BY <1>1, <2>3, <2>4
        <2>9. (l.live /\ l.at # "off") \/ ~loops[w].live BY <2>2
        <2> QED BY <1>1, <1>2, <1>3, <2>1, <2>2, <2>5, <2>6, <2>7, <2>8, <2>9, ReportInv
                DEF Rest
    <1>5. ASSUME Goes(w, Round(loops[w])), UNCHANGED status PROVE HookInv'
        BY <1>1, <1>3, <1>5, RoundInv
    <1> QED BY <1>4, <1>5 DEF DestFind, w

\* The indexer's answer: only the success of that attempt ends the watch.
LEMMA DestDeliveryInv ==
    ASSUME HookInv, NEW t \in Transfers, DestDelivery(t)
    PROVE  HookInv'
    <1> DEFINE w == <<t, "dest">>
    <1>1. w \in Watches /\ w[1] = t /\ w[2] = "dest" BY WatchPair
    <1> HIDE DEF w
    <1>2. /\ loops[w] \in Loop
          /\ loops[w].timer => loops[w].live
          /\ loops[w].dest # 0 => loops[w].dest \in DOMAIN relayed[t]
          /\ loops[w].at = "delivery" => loops[w].dest # 0
          /\ loops[w].dest \in 0..MaxAttempts
          /\ status \in Status /\ messageId \in [Transfers -> BOOLEAN]
          /\ SuccessIsTrue
        BY <1>1 DEF HookInv, Told, HookTypeOK, Timed, Delivered, Loop
    <1>3. UNCHANGED Rest /\ loops[w].at = "delivery" BY DEF DestDelivery, w
    <1>4. ASSUME /\ relayed[t][loops[w].dest] = "Success"
                 /\ SetIf(loops[w], Of("success", t, None, loops[w].dest))
                 /\ Goes(w, Off)
          PROVE  HookInv'
        <2> DEFINE s == Of("success", t, None, loops[w].dest)
        <2>1. s \in Status /\ s.type = "success" /\ s.tx = t /\ s.dest = loops[w].dest
            <3>1. "success" \in WithTx /\ None \in Transfers \cup {None} BY DEF WithTx
            <3>2. loops[w].dest \in 0..MaxAttempts BY <1>2
            <3> QED BY <3>1, <3>2, OfType
        <2>2. SetIf(loops[w], s) BY <1>4
        <2> HIDE DEF s
        <2>3. s.tx # None /\ s.dest \in DOMAIN relayed[s.tx] /\ relayed[s.tx][s.dest] = "Success"
            BY <1>2, <1>3, <1>4, <2>1, HookAssumption
        <2> QED BY <1>1, <1>2, <1>3, <1>4, <2>1, <2>2, <2>3, LastReportInv DEF Rest
    <1>5. ASSUME Goes(w, Round(loops[w])), UNCHANGED status PROVE HookInv'
        BY <1>1, <1>3, <1>5, RoundInv
    <1> QED BY <1>4, <1>5 DEF DestDelivery, w

\* The mailbox's logs on Sepolia.
LEMMA DestLogsInv ==
    ASSUME HookInv, NEW t \in Transfers, DestLogs(t)
    PROVE  HookInv'
    <1> DEFINE w == <<t, "dest">>
               h == loops[w].hyli
    <1>1. w \in Watches /\ w[1] = t /\ w[2] = "dest" BY WatchPair
    <1> HIDE DEF w
    <1>2. /\ h \in Transfers \cup {None} /\ HookTypeOK
          /\ messageId \in [Transfers -> BOOLEAN]
        BY <1>1 DEF HookInv, Told, HookTypeOK, Loop
    <1>3. UNCHANGED Rest /\ Goes(w, Off) BY DEF DestLogs, w
    <1>4. PICK s : /\ SetIf(loops[w], s)
                   /\ \/ s = Plain("error")
                      \/ s = Of("timeout", t, h, 0)
                      \/ \E n \in DOMAIN relayed[t] :
                            relayed[t][n] = "Success" /\ s = Of("success", t, h, n)
        BY DEF DestLogs, w
    <1> HIDE DEF h
    <1>5. /\ s \in Status /\ s.tx \in {None, w[1]}
          /\ s.type \in {"error", "timeout", "success"}
          /\ s.type = "success" => /\ s.tx # None /\ s.dest \in DOMAIN relayed[s.tx]
                                   /\ relayed[s.tx][s.dest] = "Success"
        <2>1. CASE s = Plain("error") BY <2>1, PlainType
        <2>2. CASE s = Of("timeout", t, h, 0) BY <1>1, <1>2, <2>2, OfNoneType
        <2>3. ASSUME NEW n \in DOMAIN relayed[t], relayed[t][n] = "Success",
                     s = Of("success", t, h, n)
              PROVE  /\ s \in Status /\ s.tx = t /\ s.type = "success" /\ s.dest = n
                     /\ s.tx # None
            <3>1. "success" \in WithTx /\ n \in 0..MaxAttempts
                BY <1>2, RelayedSeq DEF WithTx
            <3> QED BY <1>2, <2>3, <3>1, OfType, HookAssumption
        <2> QED BY <1>1, <1>4, <2>1, <2>2, <2>3
    <1> QED BY <1>1, <1>2, <1>3, <1>4, <1>5, LastReportInv DEF Rest

-----------------------------------------------------------------------------
\* The world.

\* The sources of transfers settle, and the server hears of it.
LEMMA SourceSettlesInv ==
    ASSUME HookInv, NEW t \in Transfers, SourceSettles(t) \/ Serve(t)
    PROVE  HookInv'
    <1> USE DEF HookInv, Told
    <1>1. /\ source' \in [Transfers -> {"unsent", "pending", "ok", "failed"}]
          /\ served' \in [Transfers -> BOOLEAN]
          /\ \A u \in Transfers : source'[u] = "unsent" <=> source[u] = "unsent"
          /\ UNCHANGED <<hookVars, direction, relayed>>
        BY ZenonT(60) DEF SourceSettles, Serve, HookTypeOK
    <1>2. Told' BY <1>1 DEF HookTypeOK, Timed, Delivered, SuccessIsTrue, hookVars
    <1>3. relayInfo \in Transfers \cup {None} BY DEF HookTypeOK
    <1>4. Own'
        BY <1>1, <1>3
        DEF Own, Attached, OneCall, Current, LiveWatch, Rendered, Started, OwnStatus, hookVars
    <1> QED BY <1>2, <1>4

\* The relayer's attempts are numbered once and for all, and a success stays one.
LEMMA RelayInv ==
    ASSUME HookInv, NEW t \in Transfers, Relay(t) \/ RelaySettles(t)
    PROVE  HookInv'
    <1> USE DEF HookInv, Told
    <1> DEFINE Outcomes == {"Sequenced", "Success", "Failed"}
    <1>1. /\ relayed[t] \in Seq(Outcomes) /\ Len(relayed[t]) \in Nat
          /\ DOMAIN relayed[t] = 1..Len(relayed[t])
        BY RelayedSeq, HookAssumption
    <1>2. /\ relayed'[t] \in Seq(Outcomes) /\ Len(relayed'[t]) \in 0..MaxAttempts
          /\ \A n \in DOMAIN relayed[t] :
                /\ n \in DOMAIN relayed'[t]
                /\ relayed[t][n] = "Success" => relayed'[t][n] = "Success"
        <2>1. CASE Relay(t)
            <3>1. relayed'[t] = Append(relayed[t], "Sequenced") /\ Len(relayed[t]) < MaxAttempts
                BY <2>1 DEF Relay, HookTypeOK
            <3>2. /\ relayed'[t] \in Seq(Outcomes) /\ Len(relayed'[t]) = Len(relayed[t]) + 1
                  /\ \A n \in 1..Len(relayed[t]) : relayed'[t][n] = relayed[t][n]
                  /\ DOMAIN relayed'[t] = 1..Len(relayed'[t])
                BY <1>1, <3>1, AppendProperties, LenProperties
            <3> QED BY <1>1, <3>1, <3>2, HookAssumption
        <2>2. CASE RelaySettles(t)
            <3>1. PICK outcome \in {"Success", "Failed"} :
                    relayed'[t] = [relayed[t] EXCEPT ![Len(relayed[t])] = outcome]
                BY <2>2 DEF RelaySettles, HookTypeOK
            <3>2. /\ Len(relayed[t]) \in 1..Len(relayed[t]) /\ Len(relayed[t]) \in 0..MaxAttempts
                  /\ relayed[t][Len(relayed[t])] = "Sequenced"
                BY <1>1, <2>2, EmptySeq, RelayedSeq DEF RelaySettles
            <3>3. /\ relayed'[t] \in Seq(Outcomes) /\ Len(relayed'[t]) = Len(relayed[t])
                  /\ \A n \in 1..Len(relayed[t]) :
                        relayed'[t][n] = IF n = Len(relayed[t]) THEN outcome ELSE relayed[t][n]
                  /\ DOMAIN relayed'[t] = 1..Len(relayed'[t])
                BY <1>1, <3>1, <3>2, ExceptSeq, LenProperties
            <3> QED BY <1>1, <3>2, <3>3
        <2> QED BY <2>1, <2>2
    <1>3. /\ UNCHANGED <<hookVars, direction, source, served>>
          /\ \A u \in Transfers : u # t => relayed'[u] = relayed[u]
          /\ DOMAIN relayed' = Transfers
          /\ relayed' = [u \in Transfers |-> relayed'[u]]
        BY DEF Relay, RelaySettles, HookTypeOK
    <1>4. relayed' \in [Transfers -> UNION {[1..n -> Outcomes] : n \in 0..MaxAttempts}]
        <2>1. relayed'[t] \in [1..Len(relayed'[t]) -> Outcomes]
            BY <1>2, LenProperties, ElementOfSeq
        <2>2. relayed'[t] \in UNION {[1..n -> Outcomes] : n \in 0..MaxAttempts}
            BY <1>2, <2>1
        <2>3. \A u \in Transfers : u # t =>
                relayed'[u] \in UNION {[1..n -> Outcomes] : n \in 0..MaxAttempts}
            BY <1>3 DEF HookTypeOK
        <2> QED BY <1>3, <2>2, <2>3
    <1>5. HookTypeOK' BY <1>3, <1>4 DEF HookTypeOK, hookVars
    <1>6. \A u \in Transfers : \A n \in DOMAIN relayed[u] :
            /\ n \in DOMAIN relayed'[u]
            /\ relayed[u][n] = "Success" => relayed'[u][n] = "Success"
        BY <1>2, <1>3
    <1>7. Timed' BY <1>3 DEF Timed, hookVars
    <1>8. Delivered' BY <1>3, <1>6, WatchFields DEF Delivered, hookVars
    <1>9. SuccessIsTrue'
        <2>1. status \in Status BY DEF HookTypeOK
        <2> QED BY <1>3, <1>6, <2>1, StatusFields DEF SuccessIsTrue, hookVars
    <1>10. Own'
        BY <1>3
        DEF Own, Attached, OneCall, Current, LiveWatch, Rendered, Started, OwnStatus, hookVars
    <1> QED BY <1>5, <1>7, <1>8, <1>9, <1>10

-----------------------------------------------------------------------------

\* The inductive invariant of the hook.
THEOREM HookInvariant == Spec => []HookInv
    <1>1. HookInv /\ Next => HookInv'
        BY BridgeInv, WalletInv, SentInv, ResetInv, FlushInv, TimesOutInv, WakesInv,
           SourceStatusInv, SourceReceiptInv, LookupAnsweredInv, SepoliaReceiptInv,
           DestFindInv, DestDeliveryInv, DestLogsInv, SourceSettlesInv, RelayInv
        DEF Next
    <1>2. HookInv /\ UNCHANGED vars => HookInv'
        BY DEF HookInv, Told, Own, HookTypeOK, Timed, Delivered, SuccessIsTrue, Attached,
               OneCall, Current, LiveWatch, Rendered, Started, OwnStatus, vars, hookVars,
               worldVars
    <1> QED BY <1>1, <1>2, InitHookInv, PTL DEF Spec

\* Every variable of the hook has its type, and a status a transaction exactly when its
\* variant has one.
THEOREM HookTypeCorrect == Spec => []HookTypeOK
    <1>1. HookInv => HookTypeOK BY DEF HookInv, Told
    <1> QED BY <1>1, HookInvariant, PTL

\* A transfer is reported delivered only if it was, by the attempt that is named.
THEOREM HookTellsTruth == Spec => []SuccessIsTrue
    <1>1. HookInv => SuccessIsTrue BY DEF HookInv, Told
    <1> QED BY <1>1, HookInvariant, PTL

\* One watch at a time, of the transfer of relayInfo, for every watched status.
THEOREM HookWatches == Spec => []WatchIsLive
    <1>1. ASSUME HookInv, ~intruded PROVE WatchIsLive
        <2>1. Attached /\ Current /\ LiveWatch /\ HookTypeOK BY <1>1 DEF HookInv, Told, Own
        <2>2. ASSUME NEW v \in Watches, NEW w \in Watches, loops[v].live, loops[w].live
              PROVE  v = w
            BY <2>1, <2>2, WatchFields DEF Attached
        <2>3. ASSUME Rendered, Watched
              PROVE  \E w \in Watches : w[1] = relayInfo /\ loops[w].live /\ loops[w].at # "off"
            <3>1. status.tx = relayInfo /\ relayInfo \in Transfers
                BY <2>1, <2>3, StatusFields DEF Watched, Current, Watching, HookTypeOK, WithTx
            <3> DEFINE k == IF status.type = "relaying" THEN "dest" ELSE "source"
                       w == <<relayInfo, k>>
            <3>2. w \in Watches /\ w[1] = relayInfo /\ Started(w)
                BY <2>3, <3>1, WatchPair DEF Watched, Started
            <3> QED BY <2>1, <2>3, <3>2 DEF LiveWatch
        <2> QED BY <2>2, <2>3 DEF WatchIsLive
    <1>2. HookInv => WatchIsLive BY <1>1 DEF WatchIsLive
    <1> QED BY <1>2, HookInvariant, PTL

\* The status is that of the transfer of relayInfo,
THEOREM HookKeepsToItsTransfer == Spec => []OwnStatus
    <1>1. HookInv => OwnStatus BY DEF HookInv, Own, OwnStatus, Current, Watching
    <1> QED BY <1>1, HookInvariant, PTL

\* and a transfer is watched on the chains it was sent between, whatever the form shows.
THEOREM HookKeepsItsDirection == Spec => []OwnDirection
    <1>1. HookInv => OwnDirection BY DEF HookInv, Own, OwnDirection, Current, Watching
    <1> QED BY <1>1, HookInvariant, PTL

=============================================================================
