------------------------ MODULE RethCanonical_proofs ------------------------
(***************************************************************************)
(* What the server speculates and serves against the canonical chain.      *)
(*                                                                         *)
(* One invariant, SpeculationInv, on top of TrackingInv: the settled state *)
(* is in every field that of the chain Hyli reported; the newest settled   *)
(* state in state_history agrees with it; and every speculative state is   *)
(* the execution of its transaction on the newest state before it, with    *)
(* the proofs built there.  Until a success is ignored, that is: skipped.  *)
(* While it holds, what the server speculates is the committed state       *)
(* followed by what is in flight, and what it publishes is one of the two  *)
(* (PendingInv).                                                           *)
(*                                                                         *)
(* When the server is the only prover it never ignores a success; then an  *)
(* indexer misses nothing and the settled state refines EvmLedger.         *)
(***************************************************************************)
EXTENDS RethTracking_proofs

-----------------------------------------------------------------------------
\* The newest state in state_history of the transactions in D, in Hyli's order, or genesis.

NewestState(h, D, s) ==
    \/ DOMAIN h \cap D = {} /\ s = Genesis
    \/ \E x \in DOMAIN h \cap D :
        /\ s = h[x].state
        /\ \A y \in DOMAIN h \cap D : y = x \/ y \in Before(x)

\* There is only one.
LEMMA NewestUnique ==
    ASSUME Distinct(order), NEW h, NEW D, NEW s, NEW u, NewestState(h, D, s), NewestState(h, D, u)
    PROVE  s = u
    BY BeforeOrder DEF NewestState

\* It is the current state when D has everything recorded.
LEMMA CurrentIsNewest ==
    ASSUME TrackingInv, NEW D, DOMAIN stateHistory \subseteq D
    PROVE  NewestState(stateHistory, D, CurrentState(stateHistory))
    <1> DEFINE h == stateHistory
    <1>1. /\ DOMAIN h \subseteq ToSet(order) /\ Distinct(order) /\ DOMAIN h \cap D = DOMAIN h
          /\ \A t \in DOMAIN h : h[t].rank \in Nat
          /\ \A t, u \in DOMAIN h : t \in Before(u) => h[t].rank < h[u].rank
        BY TrackingFacts DEF TrackingInv, ChainInv, HistoryInv
    <1>2. CASE DOMAIN h = {}
        <2>1. CurrentState(h) = Genesis BY <1>2 DEF CurrentState
        <2> QED BY <1>1, <1>2, <2>1 DEF NewestState
    <1>3. CASE DOMAIN h # {}
        <2>1. \E t \in DOMAIN h : IsLatest(h, t) BY <1>3, NextRankIsLast
        <2>2. PICK x \in DOMAIN h : x = CHOOSE t \in DOMAIN h : IsLatest(h, t) BY <1>3
        <2>3. IsLatest(h, x) BY <2>1, <2>2
        <2>4. CurrentState(h) = h[x].state BY <2>1, <2>2 DEF CurrentState
        <2>5. \A y \in DOMAIN h : y = x \/ y \in Before(x)
            <3> SUFFICES ASSUME NEW y \in DOMAIN h, x \in Before(y) PROVE FALSE
                BY <1>1, BeforeOrder
            <3>1. h[x].rank < h[y].rank BY <1>1
            <3>2. h[y].rank <= h[x].rank BY <2>3 DEF IsLatest
            <3> QED BY <1>1, <3>1, <3>2
        <2> QED BY <1>1, <2>4, <2>5 DEF NewestState
    <1> QED BY <1>2, <1>3

\* Every state recorded is sound, and so is genesis.
LEMMA NewestSound ==
    ASSUME NEW h, SoundHistory(h), NEW D, NEW s, NewestState(h, D, s)
    PROVE  s \in Sound
    BY GenesisSound DEF NewestState, SoundHistory

\* Only the states of D count.
LEMMA NewestSame ==
    ASSUME NEW h, NEW D, NEW s, NewestState(h, D, s), NEW g, NEW E,
           DOMAIN g \cap E = DOMAIN h \cap D, \A t \in DOMAIN h \cap D : g[t].state = h[t].state
    PROVE  NewestState(g, E, s)
    BY DEF NewestState

-----------------------------------------------------------------------------
\* The invariant.

\* The state is the execution of t on s, and what could be proved there was.
ExecutedOn(state, s, t, submittedProofs) ==
    /\ Agree(state, ApplySpeculative(s, Blobs[t]))
    /\ ProofsOf(s, t, {i \in DOMAIN Blobs[t] : BuildsProof(s, Blobs[t], i)}) \subseteq submittedProofs

SpeculationInv ==
    ~skipped =>
        /\ Canonical(settled, told)
        /\ \E s \in Sound : NewestState(stateHistory, HeardSettled, s) /\ Agree(s, settled)
        /\ \A t \in DOMAIN stateHistory \cap HeardSequenced : \E s \in Sound :
            /\ NewestState(stateHistory, Before(t), s)
            /\ ExecutedOn(stateHistory[t].state, s, t, proofs)

\* What a step that keeps Hyli's order has to show.
LEMMA SpeculationStep ==
    ASSUME NEW h, h = stateHistory', \A u \in DOMAIN h : Before(u)' = Before(u),
           ~skipped' =>
                /\ Canonical(settled', told')
                /\ \E s \in Sound : NewestState(h, HeardSettled', s) /\ Agree(s, settled')
                /\ \A t \in DOMAIN h \cap HeardSequenced' : \E s \in Sound :
                    NewestState(h, Before(t), s) /\ ExecutedOn(h[t].state, s, t, proofs')
    PROVE  SpeculationInv'
    <1> SUFFICES ASSUME ~skipped' PROVE
            /\ Canonical(settled', told')
            /\ \E s \in Sound : NewestState(stateHistory, HeardSettled, s)' /\ Agree(s, settled')
            /\ \A t \in DOMAIN stateHistory' \cap HeardSequenced' : \E s \in Sound :
                /\ NewestState(stateHistory, Before(t), s)'
                /\ ExecutedOn(stateHistory'[t].state, s, t, proofs')
        BY DEF SpeculationInv
    <1>1. \E s \in Sound : NewestState(stateHistory, HeardSettled, s)' /\ Agree(s, settled')
        BY DEF NewestState
    <1>2. ASSUME NEW t \in DOMAIN h \cap HeardSequenced', NEW s, NewestState(h, Before(t), s)
          PROVE  NewestState(stateHistory, Before(t), s)'
        BY <1>2 DEF NewestState
    <1> QED BY <1>1, <1>2

\* A step that records and settles nothing.
LEMMA SpeculationSame ==
    ASSUME TrackingInv, SpeculationInv,
           UNCHANGED <<stateHistory, told>>, ~skipped' => ~skipped,
           proofs \subseteq proofs', Agree(settled, settled'),
           \A u \in ToSet(order) : Before(u)' = Before(u),
           DOMAIN stateHistory \cap HeardSettled' = DOMAIN stateHistory \cap HeardSettled,
           DOMAIN stateHistory \cap HeardSequenced' \subseteq HeardSequenced
    PROVE  SpeculationInv'
    <1> DEFINE h == stateHistory
    <1>1. DOMAIN h \subseteq ToSet(order) BY TrackingFacts DEF TrackingInv, ChainInv, HistoryInv
    <1> SUFFICES ASSUME ~skipped' PROVE
            /\ Canonical(settled', told')
            /\ \E s \in Sound : NewestState(h, HeardSettled', s) /\ Agree(s, settled')
            /\ \A t \in DOMAIN h \cap HeardSequenced' : \E s \in Sound :
                NewestState(h, Before(t), s) /\ ExecutedOn(h[t].state, s, t, proofs')
        BY <1>1, SpeculationStep
    <1>2. Canonical(settled', told') BY CanonicalAgree DEF SpeculationInv
    <1>3. \E s \in Sound : NewestState(h, HeardSettled', s) /\ Agree(s, settled')
        <2>1. PICK s \in Sound : NewestState(h, HeardSettled, s) /\ Agree(s, settled)
            BY DEF SpeculationInv
        <2>2. NewestState(h, HeardSettled', s) BY <2>1, NewestSame
        <2>3. Agree(s, settled') BY <2>1 DEF Agree
        <2> QED BY <2>2, <2>3
    <1>4. \A t \in DOMAIN h \cap HeardSequenced' : \E s \in Sound :
                NewestState(h, Before(t), s) /\ ExecutedOn(h[t].state, s, t, proofs')
        BY DEF SpeculationInv, ExecutedOn
    <1> QED BY <1>2, <1>3, <1>4

-----------------------------------------------------------------------------
\* The steps.

\* Executing the next transaction on the current state, and recording it.
LEMMA SpeculationInsert ==
    ASSUME TrackingInv, SpeculationInv, NEW t \in Txs, DOMAIN stateHistory \subseteq Before(t),
           stateHistory' = Insert(stateHistory, t,
                                ApplySpeculative(CurrentState(stateHistory), Blobs[t])),
           proofs' = proofs \cup ProofsOf(CurrentState(stateHistory), t,
                {i \in DOMAIN Blobs[t] : BuildsProof(CurrentState(stateHistory), Blobs[t], i)}),
           UNCHANGED <<told, skipped>>, Agree(settled, settled'),
           \A u : Before(u)' = Before(u),
           HeardSettled' = HeardSettled, HeardSequenced' \subseteq HeardSequenced \cup {t},
           t \notin HeardSettled
    PROVE  SpeculationInv'
    <1> DEFINE h == stateHistory
               before == CurrentState(stateHistory)
               b == Blobs[t]
               built == {i \in DOMAIN b : BuildsProof(before, b, i)}
    <1>0. PICK g : g = stateHistory' OBVIOUS
    <1>1. /\ t \notin DOMAIN h /\ DOMAIN g = DOMAIN h \cup {t}
          /\ \A u \in DOMAIN h : g[u] = h[u]
          /\ g[t].state = ApplySpeculative(before, b)
        <2>1. PICK after : after = ApplySpeculative(before, b) OBVIOUS
        <2>2. g = Insert(stateHistory, t, after) BY <1>0, <2>1
        <2>3. t \notin DOMAIN h BY TrackingFacts, BeforeOrder
        <2> HIDE DEF before, b
        <2> QED BY <2>1, <2>2, <2>3 DEF Insert
    <1>2. before \in Sound BY TrackingFacts, CurrentStateSound
    <1>3. NewestState(h, Before(t), before) BY CurrentIsNewest
    <1>4. /\ t \notin Before(t)
          /\ \A u \in DOMAIN h : t \notin Before(u)
        BY TrackingFacts, BeforeOrder
    <1> SUFFICES ASSUME ~skipped' PROVE
            /\ Canonical(settled', told')
            /\ \E s \in Sound : NewestState(g, HeardSettled', s) /\ Agree(s, settled')
            /\ \A u \in DOMAIN g \cap HeardSequenced' : \E s \in Sound :
                NewestState(g, Before(u), s) /\ ExecutedOn(g[u].state, s, u, proofs')
        BY <1>0, SpeculationStep
    <1>5. Canonical(settled', told') BY CanonicalAgree DEF SpeculationInv
    <1>6. \E s \in Sound : NewestState(g, HeardSettled', s) /\ Agree(s, settled')
        <2>1. PICK s \in Sound : NewestState(h, HeardSettled, s) /\ Agree(s, settled)
            BY DEF SpeculationInv
        <2>2. DOMAIN g \cap HeardSettled' = DOMAIN h \cap HeardSettled BY <1>1
        <2>3. NewestState(g, HeardSettled', s) BY <1>1, <2>1, <2>2, NewestSame
        <2>4. Agree(s, settled') BY <2>1 DEF Agree
        <2> QED BY <2>3, <2>4
    <1>7. ASSUME NEW u \in DOMAIN g \cap HeardSequenced', u # t
          PROVE  \E s \in Sound : NewestState(g, Before(u), s) /\ ExecutedOn(g[u].state, s, u, proofs')
        <2>1. u \in DOMAIN h \cap HeardSequenced BY <1>1, <1>7
        <2>2. PICK s \in Sound : NewestState(h, Before(u), s) /\ ExecutedOn(h[u].state, s, u, proofs)
            BY <2>1 DEF SpeculationInv
        <2>3. DOMAIN g \cap Before(u) = DOMAIN h \cap Before(u) BY <1>1, <1>4, <2>1
        <2>4. NewestState(g, Before(u), s) BY <1>1, <2>2, <2>3, NewestSame
        <2>5. ExecutedOn(g[u].state, s, u, proofs') BY <1>1, <2>1, <2>2 DEF ExecutedOn
        <2> QED BY <2>4, <2>5
    <1>8. NewestState(g, Before(t), before) /\ ExecutedOn(g[t].state, before, t, proofs')
        <2>1. DOMAIN g \cap Before(t) = DOMAIN h \cap Before(t) BY <1>1, <1>4
        <2>2. NewestState(g, Before(t), before) BY <1>1, <1>3, <2>1, NewestSame
        <2>3. Agree(g[t].state, ApplySpeculative(before, b)) BY <1>1 DEF Agree
        <2> QED BY <2>2, <2>3 DEF ExecutedOn
    <1> QED BY <1>2, <1>5, <1>6, <1>7, <1>8

\* A report that a transaction was sequenced: buffered, executed or given up.
LEMMA ReportSequencedSpeculation ==
    ASSUME TrackingInv, SpeculationInv, NEW t \in Txs, ReportSequenced(t)
    PROVE  SpeculationInv'
    <1>1. /\ HeardSettled' = HeardSettled /\ HeardSequenced' = HeardSequenced \cup {t}
          /\ \A u : Before(u)' = Before(u)
          /\ heard[t] = "nothing" /\ t \notin HeardSettled
          /\ t \notin DOMAIN stateHistory /\ DOMAIN stateHistory \subseteq Before(t)
        BY SequencedFacts DEF HeardSettled
    <1>2. UNCHANGED <<told, skipped>> BY DEF ReportSequenced, listenerVars
    <1>3. settled \in Sound BY TrackingFacts, InvFacts
    <1>4. Agree(settled, settled')
        <2>1. settled' = IndexMessages(settled, t)
            BY DEF ReportSequenced, SequencedCatchingUp, SequencedLive, SequencedUnprovable
        <2> QED BY <1>3, <2>1, AgreeIndex
    <1>5. CASE SequencedLive(t)
        <2> DEFINE before == CurrentState(stateHistory)
                   b == Blobs[t]
        <2>1. /\ \A i \in DOMAIN b : BuildsProof(before, b, i)
              /\ proofs' = proofs \cup ProofsOf(before, t, DOMAIN b)
              /\ stateHistory' = Insert(stateHistory, t, ApplySpeculative(before, b))
            BY <1>5 DEF SequencedLive
        <2>2. {i \in DOMAIN b : BuildsProof(before, b, i)} = DOMAIN b BY <2>1
        <2> HIDE DEF before, b
        <2>3. proofs' = proofs \cup ProofsOf(before, t, {i \in DOMAIN b : BuildsProof(before, b, i)})
            BY <2>1, <2>2
        <2> QED BY <1>1, <1>2, <1>4, <2>1, <2>3, SpeculationInsert DEF before, b
    <1>6. CASE SequencedCatchingUp(t) \/ SequencedUnprovable(t)
        <2>1. stateHistory' = stateHistory /\ proofs \subseteq proofs'
            BY <1>6 DEF SequencedCatchingUp, SequencedUnprovable
        <2> QED BY <1>1, <1>2, <1>4, <2>1, SpeculationSame
    <1> QED BY <1>5, <1>6 DEF ReportSequenced

\* A replay re-executes the transactions in Hyli's order.
LEMMA ReplaySpeculation ==
    ASSUME TrackingInv, SpeculationInv, Replay
    PROVE  SpeculationInv'
    <1> DEFINE t == Head(todo)
               before == CurrentState(stateHistory)
    <1>1. TrackedInv /\ HistoryInv BY DEF TrackingInv, ChainInv
    <1>2. todo # <<>> /\ heard' = heard BY DEF Replay, ReplayTx
    <1>3. t \in Txs /\ t \in ToSet(todo)
        <2>1. todo \in Seq(Txs) /\ Sorted(todo) /\ Distinct(order) BY <1>1, TrackingFacts DEF TrackedInv
        <2> QED BY <1>2, <2>1, SortedTail
    <1>4. t \in ToSet(pendingProofs) /\ t \in HeardSequenced BY <1>1, <1>3 DEF TrackedInv
    <1>5. DOMAIN stateHistory \subseteq Before(t) BY <1>1, <1>3 DEF HistoryInv
    <1>6. /\ stateHistory' = Insert(stateHistory, t, ApplySpeculative(before, Blobs[t]))
          /\ proofs' = proofs \cup
                ProofsOf(before, t, {i \in DOMAIN Blobs[t] : BuildsProof(before, Blobs[t], i)})
          /\ settled' = settled \/ settled' = IndexMessages(settled, t)
        BY <1>4 DEF Replay, ReplayTx
    <1>7. Agree(settled, settled')
        <2>1. settled \in Sound BY TrackingFacts, InvFacts
        <2>2. Agree(settled, settled) BY DEF Agree
        <2> QED BY <1>6, <2>1, <2>2, AgreeIndex
    <1>8. /\ HeardSettled' = HeardSettled /\ HeardSequenced' = HeardSequenced
          /\ \A u : Before(u)' = Before(u) /\ UNCHANGED <<told, skipped>>
        BY <1>2, BeforeSame DEF HeardSettled, HeardSequenced, Replay, hyliVars, listenerVars
    <1>9. t \notin HeardSettled BY <1>4 DEF HeardSettled, HeardSequenced
    <1> HIDE DEF t, before
    <1> QED BY <1>3, <1>4, <1>5, <1>6, <1>7, <1>8, <1>9, SpeculationInsert DEF before

\* A success that the server hears of runs on the chain it was told of, and every blob of it
\* executes.
LEMMA SuccessRuns ==
    ASSUME TrackingInv, NEW t \in Txs, ReportSuccess(t)
    PROVE  /\ commitment[t] = told \o Marks(Blobs[t]) /\ commitment[t] \in Accounts
           /\ told' = commitment[t] /\ told \in Accounts
           /\ AllExecuted(Blobs[t]) /\ Blobs[t] \in Seq(Evm) /\ Blobs[t] # <<>>
    <1>1. /\ status[t] = "success" /\ \A u \in Before(t) : heard[u] = "settled"
          /\ told' = commitment[t]
        BY DEF ReportSuccess
    <1>2. heard[t] # "settled" BY SettledFacts
    <1>3. /\ commitment[t] = told \o Marks(Blobs[t]) /\ Runs(told, t)
        BY <1>1, <1>2, NextCommitment DEF TrackingInv
    <1>4. AllExecuted(Blobs[t]) BY <1>3 DEF Runs, Provable, AllExecuted
    <1>5. commitment[t] \in Accounts /\ told \in Accounts
        BY <1>1 DEF TrackingInv, SystemInv, SystemTypes
    <1> QED BY <1>1, <1>3, <1>4, <1>5, BlobsType

\* Executing it on a state of that chain gives one of the chain it leads to.
LEMMA SuccessCanonical ==
    ASSUME TrackingInv, NEW t \in Txs, ReportSuccess(t), NEW s \in Sound, Canonical(s, told)
    PROVE  /\ Canonical(ApplySpeculative(s, Blobs[t]), commitment[t])
           /\ ApplySettled(s, Blobs[t], commitment[t]) = ApplySpeculative(s, Blobs[t])
    <1> DEFINE b == Blobs[t]
    <1>1. /\ commitment[t] = told \o Marks(b) /\ commitment[t] \in Accounts
          /\ told \in Accounts /\ AllExecuted(b) /\ b \in Seq(Evm) /\ b # <<>>
        BY SuccessRuns
    <1> HIDE DEF b
    <1>2. Canonical(ApplySpeculative(s, b), told \o Marks(b)) BY <1>1, CanonicalSpeculative
    <1>3. commitment[t] = AccountsAfter(s, b, Len(b))
        <2>1. ApplySpeculative(s, b).accounts = AccountsAfter(s, b, Len(b))
            BY <1>1, ApplySpeculativeFields
        <2> QED BY <1>1, <1>2, <2>1 DEF Canonical
    <1>4. ApplySettled(s, b, commitment[t]) = ApplySpeculative(s, b)
        BY <1>1, <1>3, SettledIsSpeculative
    <1> QED BY <1>1, <1>2, <1>4 DEF b

\* A success heard while catching up is executed on the settled state.
LEMMA SettledCatchingUpSpeculation ==
    ASSUME TrackingInv, SpeculationInv, NEW t \in Txs, ReportSuccess(t),
           SettledSuccessCatchingUp(t, commitment[t])
    PROVE  SpeculationInv'
    <1> DEFINE h == stateHistory
               before == CurrentState(stateHistory)
               b == Blobs[t]
               after == ApplySettled(before, b, commitment[t])
    <1>0. PICK g : g = stateHistory' OBVIOUS
    <1>1. /\ HeardSettled' = HeardSettled \cup {t} /\ HeardSequenced' = HeardSequenced \ {t}
          /\ HeardSettled = Before(t) /\ \A u : Before(u)' = Before(u)
          /\ t \notin HeardSettled
        BY SettledFacts
    <1>2. /\ catchingUp /\ skipped' = skipped
        BY DEF SettledSuccessCatchingUp, ReportSuccess, SettledSuccessLive, SettledUntracked
    <1>3. DOMAIN h \subseteq HeardSettled BY <1>2 DEF TrackingInv, ChainInv, HistoryInv
    <1>4. commitment[t] \in Accounts /\ told' = commitment[t] BY SuccessRuns
    <1>5. commitment[t] # NoCommitment BY <1>4, CommitmentAssumption
    <1>6. g = Insert(h, t, after) /\ settled' = after
        BY <1>0, <1>5 DEF SettledSuccessCatchingUp
    <1> HIDE DEF after
    <1>7. /\ t \notin DOMAIN h /\ DOMAIN g = DOMAIN h \cup {t}
          /\ \A u \in DOMAIN h : g[u] = h[u]
          /\ g[t].state = after
        <2>1. t \notin DOMAIN h BY <1>1, <1>3
        <2> QED BY <1>6, <2>1 DEF Insert
    <1> SUFFICES ASSUME ~skipped' PROVE
            /\ Canonical(settled', told')
            /\ \E s \in Sound : NewestState(g, HeardSettled', s) /\ Agree(s, settled')
            /\ \A u \in DOMAIN g \cap HeardSequenced' : \E s \in Sound :
                NewestState(g, Before(u), s) /\ ExecutedOn(g[u].state, s, u, proofs')
        BY <1>0, <1>1, SpeculationStep
    <1>8. before \in Sound BY TrackingFacts, CurrentStateSound
    <1>9. Agree(before, settled) /\ Canonical(settled, told)
        <2>1. PICK s \in Sound : NewestState(h, HeardSettled, s) /\ Agree(s, settled)
            BY <1>2 DEF SpeculationInv
        <2>2. NewestState(h, HeardSettled, before) BY <1>3, CurrentIsNewest
        <2>3. s = before BY <2>1, <2>2, TrackingFacts, NewestUnique
        <2> QED BY <1>2, <2>1, <2>3 DEF SpeculationInv
    <1>10. Canonical(before, told)
        <2>1. Agree(settled, before) BY <1>9 DEF Agree
        <2> QED BY <1>9, <2>1, CanonicalAgree
    <1>11. Canonical(after, commitment[t]) /\ after \in Sound
        <2>1. /\ Canonical(ApplySpeculative(before, b), commitment[t])
              /\ after = ApplySpeculative(before, b)
            BY <1>8, <1>10, SuccessCanonical DEF after
        <2>2. ApplySpeculative(before, b) \in Sound BY <1>8, BlobsType, ApplySpeculativeSound
        <2> QED BY <2>1, <2>2
    <1>12. NewestState(g, HeardSettled', after)
        <2>1. \A u \in DOMAIN g : u = t \/ u \in Before(t) BY <1>1, <1>3, <1>7
        <2> QED BY <1>1, <1>7, <2>1 DEF NewestState
    <1>13. DOMAIN g \cap HeardSequenced' = {}
        BY <1>1, <1>3, <1>7 DEF HeardSettled, HeardSequenced
    <1>14. Agree(after, settled') BY <1>6 DEF Agree
    <1> QED BY <1>4, <1>6, <1>11, <1>12, <1>13, <1>14

\* A success heard live confirms the state speculated for it: Hyli's root is the one it has.
LEMMA SettledLiveSpeculation ==
    ASSUME TrackingInv, SpeculationInv, NEW t \in Txs, ReportSuccess(t),
           SettledSuccessLive(t, commitment[t])
    PROVE  SpeculationInv'
    <1> DEFINE h == stateHistory
               pos == Position(txChain, t)
               previous == IF pos > 1 THEN {txChain[pos - 1]} ELSE {}
    <1>0. PICK g : g = stateHistory' OBVIOUS
    <1>1. /\ HeardSettled' = HeardSettled \cup {t} /\ HeardSequenced' = HeardSequenced \ {t}
          /\ HeardSettled = Before(t) /\ \A u : Before(u)' = Before(u)
          /\ t \notin HeardSettled
        BY SettledFacts
    <1>2. ~catchingUp /\ t \in ToSet(txChain) /\ proofs' = proofs BY DEF SettledSuccessLive
    <1>3. skipped' = skipped
        BY <1>2 DEF ReportSuccess, SettledSuccessCatchingUp, SettledUntracked
    <1>4. told' = commitment[t] BY SuccessRuns
    <1>5. /\ previous \subseteq HeardSettled
          /\ DOMAIN g = DOMAIN h \ previous
          /\ \A u \in DOMAIN g : u # t => g[u] = h[u]
          /\ g[t].state = [h[t].state EXCEPT !.state_root = commitment[t]]
          /\ t \in DOMAIN g /\ settled' = g[t].state
        <2>1. /\ previous \subseteq HeardSettled
              /\ DOMAIN stateHistory' = DOMAIN stateHistory \ previous
              /\ t \in DOMAIN stateHistory' /\ settled' = stateHistory'[t].state
            BY SettledSuccessLiveFacts
        <2>2. \A u \in DOMAIN stateHistory' : u # t => stateHistory'[u] = stateHistory[u]
            BY SettledSuccessLiveFacts
        <2>3. stateHistory'[t].state = [stateHistory[t].state EXCEPT !.state_root = commitment[t]]
            BY SettledSuccessLiveFacts
        <2> HIDE DEF previous
        <2> QED BY <1>0, <2>1, <2>2, <2>3
    <1> HIDE DEF previous, pos
    <1>6. t \in DOMAIN h \cap HeardSequenced
        <2>1. t \in ToSet(pendingProofs) BY <1>2, SettledPosition
        <2> QED BY <1>5, <2>1 DEF TrackingInv, ChainInv, TrackedInv
    <1> SUFFICES ASSUME ~skipped' PROVE
            /\ Canonical(settled', told')
            /\ \E s \in Sound : NewestState(g, HeardSettled', s) /\ Agree(s, settled')
            /\ \A u \in DOMAIN g \cap HeardSequenced' : \E s \in Sound :
                NewestState(g, Before(u), s) /\ ExecutedOn(g[u].state, s, u, proofs')
        BY <1>0, <1>1, SpeculationStep
    <1>7. h[t].state \in Sound BY <1>6, TrackingFacts DEF SoundHistory
    <1>8. Canonical(h[t].state, commitment[t])
        <2>1. PICK s \in Sound : NewestState(h, Before(t), s) /\ ExecutedOn(h[t].state, s, t, proofs)
            BY <1>3, <1>6 DEF SpeculationInv
        <2>2. PICK u \in Sound : NewestState(h, HeardSettled, u) /\ Agree(u, settled)
            BY <1>3 DEF SpeculationInv
        <2>3. s = u BY <1>1, <2>1, <2>2, TrackingFacts, NewestUnique
        <2>4. Canonical(s, told)
            <3>1. Agree(settled, s) BY <2>2, <2>3 DEF Agree
            <3> QED BY <1>3, <3>1, CanonicalAgree DEF SpeculationInv
        <2>5. Canonical(ApplySpeculative(s, Blobs[t]), commitment[t])
            BY <2>1, <2>4, SuccessCanonical
        <2>6. Agree(ApplySpeculative(s, Blobs[t]), h[t].state)
            BY <2>1 DEF ExecutedOn, Agree
        <2> QED BY <2>5, <2>6, CanonicalAgree
    <1>9. g[t].state = h[t].state
        <2>1. h[t].state \in EthState /\ h[t].state.state_root = commitment[t]
            BY <1>7, <1>8 DEF Sound, Canonical
        <2> QED BY <1>5, <2>1 DEF EthState
    <1>10. NewestState(g, HeardSettled', g[t].state)
        BY <1>1, <1>5 DEF NewestState
    <1>11. ASSUME NEW u \in DOMAIN g \cap HeardSequenced'
           PROVE  \E s \in Sound :
                    NewestState(g, Before(u), s) /\ ExecutedOn(g[u].state, s, u, proofs')
        <2>1. u \in DOMAIN h \cap HeardSequenced /\ u # t BY <1>1, <1>5
        <2>2. PICK s \in Sound : NewestState(h, Before(u), s) /\ ExecutedOn(h[u].state, s, u, proofs)
            BY <1>3, <2>1 DEF SpeculationInv
        <2>3. t \in Before(u)
            <3>1. u \in Txs /\ heard[u] = "sequenced" /\ heard'[u] # "settled" /\ heard'[t] = "settled"
                BY <1>1, <2>1 DEF HeardSequenced, HeardSettled, Hear
            <3>2. u \in ToSet(order) /\ t \in ToSet(order) /\ Distinct(order)
                BY <3>1, SettledFacts, TrackingFacts
            <3>3. u \notin Before(t) BY <1>1, <2>1 DEF HeardSettled, HeardSequenced
            <3> QED BY <2>1, <3>2, <3>3, BeforeOrder
        <2>4. PICK x \in DOMAIN h \cap Before(u) :
                /\ s = h[x].state
                /\ \A y \in DOMAIN h \cap Before(u) : y = x \/ y \in Before(x)
            BY <1>6, <2>2, <2>3 DEF NewestState
        <2>5. x \notin previous
            <3> SUFFICES ASSUME x \in Before(t) PROVE FALSE BY <1>1, <1>5
            <3>1. t = x \/ t \in Before(x) BY <1>6, <2>3, <2>4
            <3> QED BY <3>1, TrackingFacts, BeforeOrder
        <2>6. x \in DOMAIN g \cap Before(u) /\ g[x].state = h[x].state
            BY <1>5, <1>9, <2>4, <2>5
        <2>7. \A y \in DOMAIN g \cap Before(u) : y = x \/ y \in Before(x) BY <1>5, <2>4
        <2>8. NewestState(g, Before(u), s) BY <2>4, <2>6, <2>7 DEF NewestState
        <2>9. g[u].state = h[u].state BY <1>5, <2>1
        <2> QED BY <1>2, <2>2, <2>8, <2>9
    <1>12. Canonical(settled', told') BY <1>4, <1>5, <1>8, <1>9
    <1>13. Agree(g[t].state, settled') BY <1>5 DEF Agree
    <1> QED BY <1>7, <1>9, <1>10, <1>11, <1>12, <1>13

\* A failure heard live takes back every speculative state and no settled one.
LEMMA FailedLiveForgets ==
    ASSUME TrackingInv, NEW t \in Txs, ReportFailed(t), SettledFailedLive(t),
           NEW g, g = stateHistory'
    PROVE  /\ DOMAIN g = DOMAIN stateHistory \cap HeardSettled
           /\ \A u \in DOMAIN g : g[u] = stateHistory[u]
           /\ DOMAIN g \cap HeardSettled' = DOMAIN g /\ DOMAIN g \cap HeardSequenced' = {}
    <1> DEFINE h == stateHistory
               pos == Position(txChain, t)
               n == Len(txChain)
               after == SubSeq(txChain, pos + 1, n)
    <1>1. /\ HeardSettled' = HeardSettled \cup {t} /\ HeardSequenced' = HeardSequenced \ {t}
          /\ t \notin HeardSettled /\ todo = <<>>
        BY SettledFacts
    <1>2. ~catchingUp /\ t \in ToSet(txChain) BY DEF SettledFailedLive
    <1>3. /\ n \in Nat /\ DOMAIN txChain = 1..n /\ pos \in 1..n /\ txChain[pos] = t
          /\ \A i \in 1..n : i < pos => i = 1 /\ heard[txChain[i]] = "settled"
          /\ \A i \in 1..n : i > pos => heard[txChain[i]] = "sequenced"
        BY <1>2, SettledPosition
    <1>4. /\ DOMAIN g = DOMAIN h \ ({t} \cup ToSet(after))
          /\ \A u \in DOMAIN g : g[u] = h[u]
        BY DEF SettledFailedLive, Invalidated, Without, Restrict
    <1>5. ToSet(after) = {txChain[i] : i \in (pos + 1)..n}
        <2>1. /\ txChain \in Seq(Txs) /\ pos + 1 \in 1..(Len(txChain) + 1) /\ n \in 0..Len(txChain)
            BY <1>3, TrackingFacts
        <2> QED BY <2>1, SubSeqElements
    <1> HIDE DEF pos, n, after
    <1>6. DOMAIN h \cap HeardSettled \subseteq DOMAIN g
        <2>1. \A u \in ToSet(after) : heard[u] = "sequenced" BY <1>3, <1>5
        <2>2. \A u \in HeardSettled : u \notin ToSet(after) BY <2>1 DEF HeardSettled
        <2> QED BY <1>1, <1>4, <2>2
    <1>7. DOMAIN g \cap HeardSequenced = {}
        <2> SUFFICES ASSUME NEW u \in DOMAIN h \cap HeardSequenced, u # t PROVE u \in ToSet(after)
            BY <1>1, <1>4
        <2>1. u \in ToSet(txChain)
            BY <1>2 DEF TrackingInv, ChainInv, HistoryInv, TrackedInv
        <2>2. PICK i \in 1..n : u = txChain[i] BY <1>3, <2>1 DEF ToSet
        <2>3. heard[u] = "sequenced" BY DEF HeardSequenced
        <2>4. ~ (i < pos) /\ i # pos BY <1>3, <2>2, <2>3
        <2> QED BY <1>3, <1>5, <2>2, <2>4
    <1>8. DOMAIN h \subseteq HeardSettled \cup HeardSequenced
        BY TrackingFacts DEF TrackingInv, ChainInv, HistoryInv, HeardSettled, HeardSequenced
    <1> QED BY <1>1, <1>4, <1>6, <1>7, <1>8

LEMMA FailedLiveSpeculation ==
    ASSUME TrackingInv, SpeculationInv, NEW t \in Txs, ReportFailed(t), SettledFailedLive(t)
    PROVE  SpeculationInv'
    <1> DEFINE h == stateHistory
    <1>0. PICK g : g = stateHistory' OBVIOUS
    <1>1. \A u : Before(u)' = Before(u) BY SettledFacts
    <1>2. settled' = settled /\ told' = told /\ skipped' = skipped
        BY DEF SettledFailedLive, ReportFailed, listenerVars
    <1>3. /\ DOMAIN g = DOMAIN h \cap HeardSettled
          /\ \A u \in DOMAIN g : g[u] = h[u]
          /\ DOMAIN g \cap HeardSettled' = DOMAIN g /\ DOMAIN g \cap HeardSequenced' = {}
        BY <1>0, FailedLiveForgets
    <1> SUFFICES ASSUME ~skipped' PROVE
            /\ Canonical(settled', told')
            /\ \E s \in Sound : NewestState(g, HeardSettled', s) /\ Agree(s, settled')
            /\ \A u \in DOMAIN g \cap HeardSequenced' : \E s \in Sound :
                NewestState(g, Before(u), s) /\ ExecutedOn(g[u].state, s, u, proofs')
        BY <1>0, <1>1, SpeculationStep
    <1>4. PICK s \in Sound : NewestState(h, HeardSettled, s) /\ Agree(s, settled)
        BY <1>2 DEF SpeculationInv
    <1>5. NewestState(g, HeardSettled', s) BY <1>3, <1>4, NewestSame
    <1> QED BY <1>2, <1>3, <1>4, <1>5 DEF SpeculationInv

\* A report that a transaction settled, of whatever kind.
LEMMA ReportSettledSpeculation ==
    ASSUME TrackingInv, SpeculationInv, NEW t \in Txs, ReportSuccess(t) \/ ReportFailed(t)
    PROVE  SpeculationInv'
    <1>1. CASE ReportSuccess(t) /\ SettledUntracked(t)
        <2>1. skipped'
            BY <1>1 DEF ReportSuccess, SettledUntracked, SettledSuccessCatchingUp, SettledSuccessLive
        <2> QED BY <2>1 DEF SpeculationInv
    <1>2. CASE ReportSuccess(t) /\ ~SettledUntracked(t)
        BY <1>2, SettledCatchingUpSpeculation, SettledLiveSpeculation DEF ReportSuccess
    <1>3. CASE ReportFailed(t) /\ SettledFailedLive(t) BY <1>3, FailedLiveSpeculation
    <1>4. CASE ReportFailed(t) /\ (SettledFailedCatchingUp(t) \/ SettledUntracked(t))
        <2>1. UNCHANGED <<stateHistory, told, skipped, settled, proofs>>
            BY <1>4 DEF ReportFailed, SettledFailedCatchingUp, SettledUntracked, listenerVars
        <2>2. /\ HeardSettled' = HeardSettled \cup {t} /\ HeardSequenced' = HeardSequenced \ {t}
              /\ \A u : Before(u)' = Before(u) /\ t \notin HeardSettled
              /\ ~catchingUp => heard[t] = "sequenced"
            BY <1>4, SettledFacts
        <2>3. t \notin DOMAIN stateHistory
            <3>1. CASE catchingUp BY <2>2, <3>1 DEF TrackingInv, ChainInv, HistoryInv
            <3>2. CASE ~catchingUp
                <4>1. t \notin ToSet(txChain) /\ t \in HeardSequenced
                    BY <1>4, <2>2, <3>2 DEF SettledFailedCatchingUp, SettledUntracked, HeardSequenced
                <4> QED BY <3>2, <4>1 DEF TrackingInv, ChainInv, HistoryInv, TrackedInv
            <3> QED BY <3>1, <3>2
        <2>4. Agree(settled, settled') BY <2>1 DEF Agree
        <2> QED BY <2>1, <2>2, <2>3, <2>4, SpeculationSame
    <1> QED BY <1>1, <1>2, <1>3, <1>4 DEF ReportFailed

\* A server that starts has genesis, and was told of nothing.
LEMMA StartSpeculation ==
    ASSUME settled' = Genesis, stateHistory' = EmptyHistory, told' = <<>>,
           \A u : Before(u)' = Before(u)
    PROVE  SpeculationInv'
    <1>0. PICK g : g = stateHistory' OBVIOUS
    <1>1. DOMAIN g = {} BY <1>0 DEF EmptyHistory
    <1>2. NewestState(g, HeardSettled', Genesis) BY <1>1 DEF NewestState
    <1>3. Agree(Genesis, settled') BY DEF Agree
    <1>4. Canonical(settled', told') BY GenesisCanonical
    <1> QED BY <1>0, <1>1, <1>2, <1>3, <1>4, GenesisSound, SpeculationStep

\* It is so when everything starts.
LEMMA InitSpeculation == Init => SpeculationInv
    <1> SUFFICES ASSUME Init PROVE SpeculationInv OBVIOUS
    <1>1. settled = Genesis /\ DOMAIN stateHistory = {} /\ told = <<>>
        BY DEF Init, ModuleInit, Start, EmptyHistory
    <1>2. NewestState(stateHistory, HeardSettled, Genesis) BY <1>1 DEF NewestState
    <1>3. Agree(Genesis, settled) BY <1>1 DEF Agree
    <1>4. Canonical(settled, told) BY <1>1, GenesisCanonical
    <1> QED BY <1>1, <1>2, <1>3, <1>4, GenesisSound DEF SpeculationInv

\* Steps that neither record nor settle: those of Hyli and of clients, and the end of the
\* backfill.
LEMMA OtherSpeculation ==
    ASSUME TrackingInv, SpeculationInv,
           \/ \E t \in Txs : HyliSequences(t) \/ HyliSettlesSuccess(t) \/ HyliSettlesFailed(t)
           \/ \E t \in Txs : Submit(t) \/ Record(t)
           \/ EndBackfill \/ PollTip \/ PollLogs \/ UNCHANGED vars
    PROVE  SpeculationInv'
    <1>1. UNCHANGED <<stateHistory, told, skipped, settled, proofs, heard>>
        BY DEF HyliSequences, HyliSettlesSuccess, HyliSettlesFailed, Submit, SendRawTransaction,
               Record, RecordSubmission, EndBackfill, BackfillComplete, PollTip, PollLogs, vars,
               moduleVars, listenerVars
    <1>2. \A u \in ToSet(order) : Before(u)' = Before(u)
        <2>1. CASE \E t \in Txs : HyliSequences(t)
            <3>1. PICK t \in Txs : HyliSequences(t) BY <2>1
            <3>2. t \notin ToSet(order) /\ order' = Append(order, t)
                BY <3>1, TrackingFacts DEF HyliSequences, OrderInv
            <3> QED BY <3>2, TrackingFacts, BeforeAppend
        <2>2. CASE order' = order BY <2>2, BeforeSame
        <2>3. order' = order \/ \E t \in Txs : HyliSequences(t)
            BY DEF HyliSettlesSuccess, HyliSettlesFailed, Submit, Record, EndBackfill, PollTip,
                   PollLogs, vars, hyliVars
        <2> QED BY <2>1, <2>2, <2>3
    <1>3. HeardSettled' = HeardSettled /\ HeardSequenced' = HeardSequenced
        BY <1>1 DEF HeardSettled, HeardSequenced
    <1>4. Agree(settled, settled') BY <1>1 DEF Agree
    <1> QED BY <1>1, <1>2, <1>3, <1>4, SpeculationSame

\* The invariant of this module, and that of the one before.
CanonicalInv == TrackingInv /\ SpeculationInv

\* Every step of the composed system keeps it.
LEMMA CanonicalStep ==
    ASSUME CanonicalInv, [Next]_vars
    PROVE  CanonicalInv'
    <1> USE DEF CanonicalInv
    <1>1. TrackingInv' BY TrackingStep
    <1>2. CASE ServerRestart
        <2>1. /\ settled' = Genesis /\ stateHistory' = EmptyHistory /\ told' = <<>>
              /\ order' = order
            BY <1>2 DEF ServerRestart, Restart, hyliVars
        <2> QED BY <1>1, <2>1, BeforeSame, StartSpeculation
    <1> QED BY <1>1, <1>2, ReportSequencedSpeculation, ReportSettledSpeculation,
               ReplaySpeculation, OtherSpeculation DEF Next

\* In every state of the composed system: the settled state is that of the chain Hyli
\* reported, and the speculative ones are executions on it, one after the other.
THEOREM SpeculationInvariant == Spec => []CanonicalInv
    <1>1. Init => CanonicalInv BY InitTrackingInv, InitSpeculation DEF CanonicalInv
    <1> QED BY <1>1, CanonicalStep, PTL DEF Spec

-----------------------------------------------------------------------------
\* What the runs check of the settled state.

\* The settled state and the chain it is canonical for.
LEMMA SettledFactsCanonical ==
    ASSUME CanonicalInv, ~skipped
    PROVE  settled \in Sound /\ told \in Accounts /\ Canonical(settled, told)
    BY TrackingFacts, InvFacts DEF CanonicalInv, SpeculationInv, TrackingInv, SystemInv, SystemTypes

\* SettledIsCanonical (see RethSystem), whatever was replayed, rolled back or restarted: the
\* accounts, the root, the block number and the header the next proof chains from are those
\* Hyli reported last.
LEMMA CanonicalSettled == CanonicalInv => SettledIsCanonical
    <1> SUFFICES ASSUME CanonicalInv, ~skipped
                 PROVE  /\ settled.accounts = told
                        /\ settled.state_root = told
                        /\ LatestHeader(settled).state_root = told
                        /\ settled.block_number = Len(told)
        BY DEF SettledIsCanonical
    <1>1. settled \in Sound /\ told \in Accounts /\ Canonical(settled, told)
        BY SettledFactsCanonical
    <1>2. LatestHeader(settled) = [number |-> Len(told), state_root |-> told]
        BY <1>1, CanonicalHeaders
    <1> QED BY <1>1, <1>2 DEF Canonical

THEOREM SettledStateCanonical == Spec => []SettledIsCanonical
    BY CanonicalSettled, SpeculationInvariant, PTL

\* ReceiptsAreCanonical (see RethViews): a transaction has a receipt exactly when Hyli executed
\* it, with its place in the chain as the block.
THEOREM ReceiptsCanonical == Spec => []ReceiptsAreCanonical
    <1>1. CanonicalInv => ReceiptsAreCanonical
        <2> SUFFICES ASSUME CanonicalInv, ~skipped, NEW e \in Evm, NEW places,
                            places = {i \in DOMAIN told : told[i].tx = e}
                     PROVE  GetTransactionReceipt(e) =
                                IF places = {} THEN None
                                ELSE [block_number |-> Max(places), logs |-> TRUE]
            BY DEF ReceiptsAreCanonical
        <2>1. settled \in Sound /\ told \in Accounts /\ Canonical(settled, told)
            BY SettledFactsCanonical
        <2>2. DOMAIN told \subseteq Int BY <2>1, LenProperties DEF Accounts
        <2>3. ReceiptOf(told, e, settled.settled_receipts[e]) BY <2>1 DEF Canonical
        <2>4. PICK r : r = settled.settled_receipts[e] OBVIOUS
        <2>5. ReceiptOf(told, e, r) BY <2>3, <2>4
        <2>6. r = IF places = {} THEN None
                  ELSE [block_number |-> Max(places), logs |-> TRUE]
            BY ONLY <2>2, <2>5, CanonicalReceipt, places = {i \in DOMAIN told : told[i].tx = e}
        <2> QED BY <2>4, <2>6 DEF GetTransactionReceipt
    <1> QED BY <1>1, SpeculationInvariant, PTL

-----------------------------------------------------------------------------
\* What the runs check of the speculation.

\* States that agree differ in the index of messages at most.
LEMMA AgreeButIndex ==
    ASSUME NEW s \in EthState, NEW u \in EthState, Agree(s, u)
    PROVE  [s EXCEPT !.message_id_index = <<>>] = [u EXCEPT !.message_id_index = <<>>]
    BY DEF EthState, Agree

\* Between two events, once live: everything tracked has a state, and what comes before the
\* one in flight is either the anchor or what settled.
LEMMA ChainBase ==
    ASSUME TrackingInv, ~catchingUp, Idle, NEW i \in DOMAIN txChain, NEW t, t = txChain[i]
    PROVE  /\ t \in DOMAIN stateHistory /\ t \in Txs
           /\ heard[t] # "settled" =>
                /\ t \in HeardSequenced
                /\ i = 1 => DOMAIN stateHistory \cap Before(t) = DOMAIN stateHistory \cap HeardSettled
                /\ i # 1 => /\ i - 1 \in DOMAIN txChain
                            /\ NewestState(stateHistory, Before(t), stateHistory[txChain[i - 1]].state)
    <1> DEFINE h == stateHistory
    <1>1. /\ Len(txChain) \in Nat /\ DOMAIN txChain = 1..Len(txChain)
          /\ Distinct(order) /\ DOMAIN h \subseteq Txs
          /\ \A u \in DOMAIN h : heard[u] # "nothing" /\ u \in ToSet(order)
          /\ \A u \in ToSet(txChain) : u \in Txs /\ heard[u] # "nothing" /\ u \in ToSet(order)
          /\ heard \in [Txs -> {"nothing", "sequenced", "settled"}]
        BY TrackingFacts, LenProperties DEF TrackingInv, ChainInv, HistoryInv
    <1>2. /\ DOMAIN h \cap HeardSequenced = ToSet(txChain) \cap HeardSequenced
          /\ Sorted(txChain)
        <2>1. ToSet(todo) = {} BY DEF Idle, ToSet
        <2> QED BY <2>1 DEF TrackingInv, ChainInv, TrackedInv, HistoryInv
    <1>3. \A j \in DOMAIN txChain : txChain[j] \in ToSet(txChain) BY DEF ToSet
    <1>4. \A j \in DOMAIN txChain : txChain[j] \in DOMAIN h
        <2> TAKE j \in DOMAIN txChain
        <2>1. CASE heard[txChain[j]] = "settled"
            BY <2>1 DEF TrackingInv, ChainInv, AnchorInv
        <2>2. CASE heard[txChain[j]] # "settled"
            BY <1>1, <1>2, <1>3, <2>2 DEF HeardSequenced
        <2> QED BY <2>1, <2>2
    <1>5. ASSUME NEW u \in DOMAIN h, heard[u] # "settled"
          PROVE  \E j \in DOMAIN txChain : u = txChain[j]
        BY <1>1, <1>2, <1>5 DEF HeardSequenced, ToSet
    <1>6. ASSUME heard[t] # "settled", NEW u \in Txs, heard[u] = "settled" PROVE u \in Before(t)
        BY <1>1, <1>3, <1>6, HeardFirst, TrackingFacts
    <1>7. ASSUME heard[t] # "settled", i = 1
          PROVE  DOMAIN h \cap Before(t) = DOMAIN h \cap HeardSettled
        <2>1. ASSUME NEW u \in DOMAIN h, u \in Before(t), heard[u] # "settled" PROVE FALSE
            <3>1. PICK j \in DOMAIN txChain : u = txChain[j] BY <1>5, <2>1
            <3>2. j = i \/ i < j BY <1>1, <1>7
            <3>3. u = t \/ t \in Before(u) BY <1>2, <3>1, <3>2 DEF Sorted
            <3> QED BY <1>1, <2>1, <3>3, BeforeOrder
        <2> QED BY <1>1, <1>6, <1>7, <2>1 DEF HeardSettled
    <1>8. ASSUME heard[t] # "settled", i # 1
          PROVE  /\ i - 1 \in DOMAIN txChain
                 /\ NewestState(h, Before(t), h[txChain[i - 1]].state)
        <2>1. i - 1 \in DOMAIN txChain /\ i - 1 < i BY <1>1, <1>8
        <2>2. PICK x : x = txChain[i - 1] OBVIOUS
        <2>3. x \in DOMAIN h \cap Before(t) BY <1>2, <1>4, <2>1, <2>2 DEF Sorted
        <2>4. ASSUME NEW y \in DOMAIN h \cap Before(t), y # x PROVE y \in Before(x)
            <3>1. CASE heard[y] # "settled"
                <4>1. PICK j \in DOMAIN txChain : y = txChain[j] BY <1>5, <3>1
                <4>2. j # i /\ ~ (i < j)
                    <5>1. y # t /\ t \notin Before(y) BY <1>1, BeforeOrder
                    <5> QED BY <1>2, <4>1, <5>1 DEF Sorted
                <4>3. j < i - 1 BY <1>1, <2>2, <2>4, <4>1, <4>2
                <4> QED BY <1>2, <2>1, <2>2, <4>1, <4>3 DEF Sorted
            <3>2. CASE heard[y] = "settled" /\ heard[x] # "settled"
                BY <1>1, <2>3, <3>2, HeardFirst, TrackingFacts
            <3>3. CASE heard[y] = "settled" /\ heard[x] = "settled"
                <4>1. x \notin Before(y)
                    BY <1>1, <2>1, <2>2, <3>3 DEF TrackingInv, ChainInv, AnchorInv, HeardSettled
                <4> QED BY <1>1, <2>3, <2>4, <4>1, BeforeOrder
            <3> QED BY <3>1, <3>2, <3>3
        <2> QED BY <2>1, <2>2, <2>3, <2>4 DEF NewestState
    <1>9. heard[t] # "settled" => t \in HeardSequenced BY <1>1, <1>3 DEF HeardSequenced
    <1> QED BY <1>1, <1>3, <1>4, <1>7, <1>8, <1>9

\* The state of a transaction in flight is its execution on the settled state if it is the
\* first, and on the state before it if not.
LEMMA ExecutedInFlight ==
    ASSUME CanonicalInv, ~skipped, ~catchingUp, Idle, NEW i \in DOMAIN txChain,
           NEW t, t = txChain[i], heard[t] # "settled"
    PROVE  \E s \in Sound :
                /\ IF i = 1 THEN Agree(s, settled) ELSE s = stateHistory[txChain[i - 1]].state
                /\ ExecutedOn(stateHistory[t].state, s, t, proofs)
    <1> USE DEF CanonicalInv
    <1>1. /\ t \in DOMAIN stateHistory \cap HeardSequenced
          /\ i = 1 => DOMAIN stateHistory \cap Before(t) = DOMAIN stateHistory \cap HeardSettled
          /\ i # 1 => NewestState(stateHistory, Before(t), stateHistory[txChain[i - 1]].state)
        BY ChainBase
    <1>2. PICK s \in Sound : /\ NewestState(stateHistory, Before(t), s)
                             /\ ExecutedOn(stateHistory[t].state, s, t, proofs)
        BY <1>1 DEF SpeculationInv
    <1>3. CASE i = 1
        <2>1. PICK u \in Sound : NewestState(stateHistory, HeardSettled, u) /\ Agree(u, settled)
            BY DEF SpeculationInv
        <2>2. NewestState(stateHistory, Before(t), u) BY <1>1, <1>3, <2>1, NewestSame
        <2>3. s = u BY <1>2, <2>2, TrackingFacts, NewestUnique
        <2> QED BY <1>2, <1>3, <2>1, <2>3
    <1>4. CASE i # 1
        <2>1. s = stateHistory[txChain[i - 1]].state
            BY <1>1, <1>2, <1>4, TrackingFacts, NewestUnique
        <2> QED BY <1>2, <1>4, <2>1
    <1> QED BY <1>3, <1>4

\* SpeculationIsChained (see RethViews), whatever was rolled back, replayed or settled in
\* between, and whichever transactions fail.
THEOREM SpeculationChained == Spec => []SpeculationIsChained
    <1>1. CanonicalInv => SpeculationIsChained
        <2> SUFFICES ASSUME CanonicalInv, ~catchingUp, Idle, ~skipped, NEW i \in DOMAIN txChain,
                            NEW t, t = txChain[i], NEW base,
                            base = IF i = 1 THEN settled ELSE stateHistory[txChain[i - 1]].state
                     PROVE  /\ t \in DOMAIN stateHistory
                            /\ heard[t] # "settled" =>
                                [stateHistory[t].state EXCEPT !.message_id_index = <<>>]
                                    = [ApplySpeculative(base, Blobs[t])
                                        EXCEPT !.message_id_index = <<>>]
            BY DEF SpeculationIsChained
        <2>1. TrackingInv /\ SoundHistory(stateHistory) /\ settled \in Sound
            BY TrackingFacts, InvFacts DEF CanonicalInv
        <2>2. t \in DOMAIN stateHistory /\ t \in Txs BY <2>1, ChainBase
        <2>3. PICK state : state = stateHistory[t].state OBVIOUS
        <2>4. state \in Sound BY <2>1, <2>2, <2>3 DEF SoundHistory
        <2>5. ASSUME heard[t] # "settled"
              PROVE  [state EXCEPT !.message_id_index = <<>>]
                        = [ApplySpeculative(base, Blobs[t]) EXCEPT !.message_id_index = <<>>]
            <3>1. PICK s \in Sound :
                    /\ IF i = 1 THEN Agree(s, settled) ELSE s = stateHistory[txChain[i - 1]].state
                    /\ ExecutedOn(stateHistory[t].state, s, t, proofs)
                BY <2>5, ExecutedInFlight
            <3>2. base \in Sound /\ Agree(s, base)
                <4>1. CASE i = 1 BY <2>1, <3>1, <4>1
                <4>2. CASE i # 1 BY <3>1, <4>2 DEF Agree
                <4> QED BY <4>1, <4>2
            <3>3. Blobs[t] \in Seq(Evm) BY <2>2, BlobsType
            <3>4. Agree(ApplySpeculative(s, Blobs[t]), ApplySpeculative(base, Blobs[t]))
                BY <3>2, <3>3, AgreeSpeculative
            <3>5. Agree(state, ApplySpeculative(s, Blobs[t])) BY <2>3, <3>1 DEF ExecutedOn
            <3>6. Agree(state, ApplySpeculative(base, Blobs[t])) BY <3>4, <3>5 DEF Agree
            <3>7. ApplySpeculative(base, Blobs[t]) \in EthState /\ state \in EthState
                BY <2>4, <3>2, <3>3, ApplySpeculativeSound DEF Sound
            <3> QED BY <3>6, <3>7, AgreeButIndex
        <2> QED BY <2>2, <2>3, <2>5
    <1> QED BY <1>1, SpeculationInvariant, PTL

\* On the canonical state, the proofs of a transaction that runs chain from the canonical
\* state, blob by blob.
LEMMA CanonicalProofs ==
    ASSUME NEW s \in Sound, NEW c \in Accounts, Canonical(s, c), NEW b \in Seq(Evm),
           AllExecuted(b), NEW i \in DOMAIN b, NEW pre, pre = c \o SubSeq(Marks(b), 1, i - 1)
    PROVE  AccountsAfter(s, b, i - 1) = pre /\ ParentRoot(s, b, i) = pre
    <1>1. s.accounts = c /\ LatestHeader(s).state_root = c
        <2>1. LatestHeader(s) = [number |-> Len(c), state_root |-> c] BY CanonicalHeaders
        <2> QED BY <2>1 DEF Canonical
    <1>2. AccountsAfter(s, b, i - 1) = pre BY <1>1 DEF AccountsAfter
    <1>3. Len(b) \in Nat /\ DOMAIN b = 1..Len(b) BY LenProperties
    <1>4. CASE i = 1
        <2>1. Marks(b) \in Seq(Mark) BY MarksType
        <2>2. PICK m : m = SubSeq(Marks(b), 1, 0) OBVIOUS
        <2>3. m = <<>> BY <2>1, <2>2, SubSeqProperties, EmptySeq
        <2>4. c \o <<>> = c BY ConcatEmptySeq DEF Accounts
        <2>5. i - 1 = 0 BY <1>4
        <2>6. pre = c \o m BY <2>2, <2>5
        <2>7. pre = c BY <2>3, <2>4, <2>6
        <2> QED BY <1>1, <1>2, <1>4, <2>7 DEF ParentRoot
    <1>5. CASE i # 1
        <2>1. i - 1 \in 1..Len(b) BY <1>3, <1>5
        <2>2. RootAfter(s, b, i - 1) = AccountsAfter(s, b, i - 1) BY <2>1, AllRun
        <2> QED BY <1>2, <1>5, <2>2 DEF ParentRoot
    <1> QED BY <1>4, <1>5

\* The first in flight was executed on the settled state, be there an anchor or not.
LEMMA FirstInFlight ==
    ASSUME CanonicalInv, ~skipped, ~catchingUp, Idle, InFlight # <<>>
    PROVE  /\ Head(InFlight) \in Txs
           /\ \E s \in Sound :
                /\ Agree(s, settled)
                /\ ExecutedOn(stateHistory[Head(InFlight)].state, s, Head(InFlight), proofs)
    <1> USE DEF CanonicalInv
    <1>1. PICK k \in 0..1 : /\ k <= Len(txChain)
                            /\ InFlight = SubSeq(txChain, k + 1, Len(txChain))
                            /\ k = 1 => heard[txChain[1]] = "settled"
                            /\ \A i \in (k + 1)..Len(txChain) : txChain[i] \in HeardSequenced
        BY InFlightIs
    <1>2. txChain \in Seq(Txs) /\ Len(txChain) \in Nat /\ DOMAIN txChain = 1..Len(txChain)
        BY TrackingFacts, LenProperties
    <1>3. PICK t : t = Head(InFlight) OBVIOUS
    <1>4. PICK first : first = k + 1 OBVIOUS
    <1>5. first \in DOMAIN txChain /\ t = txChain[first] /\ t \in Txs
        <2>1. k + 1 \in 1..(Len(txChain) + 1) /\ Len(txChain) \in 0..Len(txChain) BY <1>1, <1>2
        <2>2. /\ InFlight \in Seq(Txs)
              /\ Len(InFlight) = IF k + 1 <= Len(txChain) THEN Len(txChain) - (k + 1) + 1 ELSE 0
              /\ \A i \in 1..Len(InFlight) : InFlight[i] = txChain[(k + 1) + i - 1]
            BY <1>1, <1>2, <2>1, SubSeqElements
        <2>3. Len(InFlight) # 0 /\ Head(InFlight) = InFlight[1] /\ t \in Txs
            BY <1>3, <2>2, EmptySeq, HeadTailProperties
        <2>4. PICK l, n : l = Len(InFlight) /\ n = Len(txChain) OBVIOUS
        <2>5. n \in Nat /\ l # 0 /\ l = IF k + 1 <= n THEN n - (k + 1) + 1 ELSE 0
            BY <1>2, <2>2, <2>3, <2>4
        <2>6. k + 1 <= n /\ 1 \in 1..l /\ (k + 1) + 1 - 1 = k + 1 /\ k + 1 \in 1..n BY <2>5
        <2>7. InFlight[1] = txChain[(k + 1) + 1 - 1] BY <2>2, <2>4, <2>6
        <2>8. InFlight[1] = txChain[first] /\ first \in 1..n BY <1>4, <2>6, <2>7
        <2> QED BY <1>2, <1>3, <2>3, <2>4, <2>8
    <1>6. heard[t] # "settled"
        <2>1. first \in (k + 1)..Len(txChain) BY <1>1, <1>2, <1>4, <1>5
        <2> QED BY <1>1, <1>5, <2>1 DEF HeardSequenced
    <1>7. PICK s \in Sound :
            /\ IF first = 1 THEN Agree(s, settled) ELSE s = stateHistory[txChain[first - 1]].state
            /\ ExecutedOn(stateHistory[t].state, s, t, proofs)
        BY <1>5, <1>6, ExecutedInFlight
    <1>8. CASE k = 0 BY <1>3, <1>4, <1>5, <1>7, <1>8
    <1>9. CASE k = 1
        <2>1. PICK x : x = txChain[1] OBVIOUS
        <2>2. 1 \in DOMAIN txChain /\ first # 1 /\ first - 1 = 1 BY <1>1, <1>2, <1>4, <1>9
        <2>3. s = stateHistory[x].state BY <1>7, <2>1, <2>2
        <2>4. heard[x] = "settled" /\ x \in Txs BY <1>1, <1>2, <1>9, <2>1, <2>2, ElementOfSeq
        <2>5. /\ x \in DOMAIN stateHistory
              /\ \A u \in DOMAIN stateHistory \cap HeardSettled : x \notin Before(u)
            BY <2>1, <2>2, <2>4 DEF TrackingInv, ChainInv, AnchorInv
        <2>6. \A u \in DOMAIN stateHistory : u \in ToSet(order)
            BY TrackingFacts DEF TrackingInv, ChainInv, HistoryInv
        <2>7. \A u \in DOMAIN stateHistory \cap HeardSettled : u = x \/ u \in Before(x)
            BY <2>5, <2>6, TrackingFacts, BeforeOrder
        <2>8. NewestState(stateHistory, HeardSettled, s)
            BY <2>3, <2>4, <2>5, <2>7 DEF NewestState, HeardSettled
        <2>9. PICK u \in Sound : NewestState(stateHistory, HeardSettled, u) /\ Agree(u, settled)
            BY DEF SpeculationInv
        <2>10. s = u BY <2>8, <2>9, TrackingFacts, NewestUnique
        <2> QED BY <1>3, <1>5, <1>7, <2>9, <2>10
    <1> QED BY <1>8, <1>9

\* NextInFlightProved (see RethSystem): the next transaction to settle is proved from the
\* committed state if it can be, so that Hyli does not wait in vain for this server.
LEMMA CanonicalNext == CanonicalInv => NextInFlightProved
    <1> SUFFICES ASSUME CanonicalInv, ~skipped, ~catchingUp, Idle, InFlight # <<>>,
                        NEW t, t = Head(InFlight), NEW b, b = Blobs[t],
                        \A i \in DOMAIN b :
                            Provable(told \o SubSeq(Marks(b), 1, i - 1), b[i]),
                        NEW i \in DOMAIN b,
                        NEW pre, pre = told \o SubSeq(Marks(b), 1, i - 1)
                 PROVE  [tx |-> t, blob |-> i, pre |-> pre, parent |-> pre] \in proofs
        BY DEF NextInFlightProved
    <1>1. told \in Accounts /\ Canonical(settled, told) BY SettledFactsCanonical
    <1>2. t \in Txs BY FirstInFlight
    <1>3. PICK s \in Sound : Agree(s, settled) /\ ExecutedOn(stateHistory[t].state, s, t, proofs)
        BY FirstInFlight
    <1>4. b \in Seq(Evm) BY <1>2, BlobsType
    <1>5. Canonical(s, told)
        <2>1. Agree(settled, s) BY <1>3 DEF Agree
        <2> QED BY <1>1, <2>1, CanonicalAgree
    <1>6. AllExecuted(b) BY DEF AllExecuted, Provable
    <1>7. AccountsAfter(s, b, i - 1) = pre /\ ParentRoot(s, b, i) = pre
        BY <1>1, <1>4, <1>5, <1>6, CanonicalProofs, ZenonT(60)
    <1>8. BuildsProof(s, b, i) BY <1>7 DEF BuildsProof
    <1>9. ProofsOf(s, t, {j \in DOMAIN b : BuildsProof(s, b, j)}) \subseteq proofs
        BY <1>3 DEF ExecutedOn
    <1> QED BY <1>7, <1>8, <1>9 DEF ProofsOf

THEOREM NextProved == Spec => []NextInFlightProved
    BY CanonicalNext, SpeculationInvariant, PTL

-----------------------------------------------------------------------------
\* The speculative state is the committed one followed by what is in flight.

\* Executing a transaction adds its marks.
LEMMA ExecutedAccounts ==
    ASSUME NEW state, NEW s \in Sound, NEW t \in Txs, NEW found, ExecutedOn(state, s, t, found)
    PROVE  /\ Marks(Blobs[t]) \in Seq(Mark)
           /\ state.accounts = s.accounts \o Marks(Blobs[t])
    <1> DEFINE b == Blobs[t]
               m == Marks(b)
    <1>1. b \in Seq(Evm) /\ Len(b) \in Nat BY BlobsType, LenProperties
    <1>2. m \in Seq(Mark) /\ Len(m) = Len(b) BY <1>1, MarksType
    <1>3. SubSeq(m, 1, Len(b)) = m
        <2> HIDE DEF m
        <2> QED BY <1>2, SubSeqFull
    <1>4. PICK u : u = ApplySpeculative(s, b) OBVIOUS
    <1>5. state.accounts = u.accounts BY <1>4 DEF ExecutedOn, Agree
    <1>6. u.accounts = AccountsAfter(s, b, Len(b)) BY <1>1, <1>4, ApplySpeculativeFields
    <1> QED BY <1>2, <1>3, <1>5, <1>6 DEF AccountsAfter

\* Each of what is in flight was executed on the state of the one before it.
LEMMA EachInFlight ==
    ASSUME CanonicalInv, ~skipped, ~catchingUp, Idle, NEW j \in 1..Len(InFlight),
           NEW t, t = InFlight[j]
    PROVE  /\ t \in Txs /\ heard[t] = "sequenced" /\ t \in DOMAIN stateHistory
           /\ \E s \in Sound :
                /\ IF j = 1 THEN Agree(s, settled) ELSE s = stateHistory[InFlight[j - 1]].state
                /\ ExecutedOn(stateHistory[t].state, s, t, proofs)
    <1> USE DEF CanonicalInv
    <1>1. PICK k \in 0..1 : /\ k <= Len(txChain)
                            /\ InFlight = SubSeq(txChain, k + 1, Len(txChain))
                            /\ \A i \in (k + 1)..Len(txChain) : txChain[i] \in HeardSequenced
        BY InFlightIs
    <1>2. PICK n, l : n = Len(txChain) /\ l = Len(InFlight) OBVIOUS
    <1>3. txChain \in Seq(Txs) /\ n \in Nat /\ DOMAIN txChain = 1..n
        BY <1>2, TrackingFacts, LenProperties
    <1>4. /\ InFlight \in Seq(Txs)
          /\ l = IF k + 1 <= n THEN n - (k + 1) + 1 ELSE 0
          /\ \A i \in 1..l : InFlight[i] = txChain[(k + 1) + i - 1]
        <2>1. k + 1 \in 1..(Len(txChain) + 1) /\ Len(txChain) \in 0..Len(txChain)
            BY <1>1, <1>2, <1>3
        <2>2. /\ InFlight \in Seq(Txs)
              /\ Len(InFlight) = IF k + 1 <= Len(txChain) THEN Len(txChain) - (k + 1) + 1 ELSE 0
              /\ \A i \in 1..Len(InFlight) : InFlight[i] = txChain[(k + 1) + i - 1]
            BY <1>1, <1>3, <2>1, SubSeqElements
        <2> QED BY <1>2, <2>2
    <1>5. j \in 1..l /\ l = n - k /\ k <= n BY <1>1, <1>2, <1>3, <1>4
    <1>6. PICK i : i = k + j OBVIOUS
    <1>7. /\ i \in DOMAIN txChain /\ i \in (k + 1)..n /\ (k + 1) + j - 1 = i
          /\ j # 1 => i # 1 /\ j - 1 \in 1..l /\ (k + 1) + (j - 1) - 1 = i - 1
        BY <1>3, <1>5, <1>6
    <1>8. t = txChain[i] BY <1>4, <1>5, <1>7
    <1>9. t \in HeardSequenced BY <1>1, <1>2, <1>7, <1>8
    <1>10. t \in Txs /\ heard[t] = "sequenced" BY <1>9 DEF HeardSequenced
    <1>11. t \in DOMAIN stateHistory BY <1>7, <1>8, ChainBase
    <1>12. CASE j = 1
        <2>1. Len(InFlight) # 0 BY <1>2, <1>5
        <2>2. InFlight # <<>> /\ Head(InFlight) = InFlight[1]
            BY <1>4, <2>1, EmptySeq, HeadTailProperties
        <2> QED BY <1>10, <1>11, <1>12, <2>2, FirstInFlight
    <1>13. CASE j # 1
        <2>1. InFlight[j - 1] = txChain[i - 1] BY <1>4, <1>7, <1>13
        <2>2. PICK s \in Sound :
                /\ IF i = 1 THEN Agree(s, settled) ELSE s = stateHistory[txChain[i - 1]].state
                /\ ExecutedOn(stateHistory[t].state, s, t, proofs)
            BY <1>7, <1>8, <1>10, ExecutedInFlight
        <2> QED BY <1>7, <1>10, <1>11, <1>13, <2>1, <2>2
    <1> QED BY <1>12, <1>13

\* The current state is that of the last in flight; with none in flight it has the committed
\* accounts.
LEMMA CurrentInFlight ==
    ASSUME CanonicalInv, ~skipped, ~catchingUp, Idle, NEW l, l = Len(InFlight)
    PROVE  LET current == CurrentState(stateHistory)
           IN  /\ l \in Nat
               /\ l = 0 => current.accounts = told
               /\ l # 0 => current = stateHistory[InFlight[l]].state
    <1> USE DEF CanonicalInv
    <1> DEFINE h == stateHistory
    <1>1. PICK current : current = CurrentState(h) OBVIOUS
    <1>2. NewestState(h, DOMAIN h, current) BY <1>1, CurrentIsNewest
    <1>3. /\ Distinct(order) /\ DOMAIN h \subseteq Txs
          /\ \A u \in DOMAIN h : heard[u] # "nothing" /\ u \in ToSet(order)
          /\ heard \in [Txs -> {"nothing", "sequenced", "settled"}]
        BY TrackingFacts DEF TrackingInv, ChainInv, HistoryInv
    <1>4. DOMAIN h \cap HeardSequenced = ToSet(txChain) \cap HeardSequenced
        <2>1. ToSet(todo) = {} BY DEF Idle, ToSet
        <2> QED BY <2>1 DEF TrackingInv, ChainInv, TrackedInv, HistoryInv
    <1>5. PICK k \in 0..1 : /\ k <= Len(txChain)
                            /\ InFlight = SubSeq(txChain, k + 1, Len(txChain))
                            /\ k = 1 => heard[txChain[1]] = "settled"
        BY InFlightIs
    <1>6. PICK n : n = Len(txChain) OBVIOUS
    <1>7. txChain \in Seq(Txs) /\ n \in Nat /\ DOMAIN txChain = 1..n /\ k <= n
        BY <1>5, <1>6, TrackingFacts, LenProperties
    <1>8. /\ l = IF k + 1 <= n THEN n - (k + 1) + 1 ELSE 0
          /\ \A i \in 1..l : InFlight[i] = txChain[(k + 1) + i - 1]
        <2>1. k + 1 \in 1..(Len(txChain) + 1) /\ Len(txChain) \in 0..Len(txChain)
            BY <1>5, <1>6, <1>7
        <2>2. /\ Len(InFlight) = IF k + 1 <= Len(txChain) THEN Len(txChain) - (k + 1) + 1 ELSE 0
              /\ \A i \in 1..Len(InFlight) : InFlight[i] = txChain[(k + 1) + i - 1]
            BY <1>5, <1>7, <2>1, SubSeqElements
        <2> QED BY <1>6, <2>2
    <1>9. l \in Nat /\ l = n - k BY <1>7, <1>8
    <1>10. CASE l = 0
        <2>1. \A u \in DOMAIN h : u \in HeardSettled
            <3> SUFFICES ASSUME NEW u \in DOMAIN h, heard[u] # "settled" PROVE FALSE
                BY <1>3 DEF HeardSettled
            <3>1. u \in HeardSequenced BY <1>3 DEF HeardSequenced
            <3>2. PICK i \in 1..n : u = txChain[i] BY <1>4, <1>7, <3>1 DEF ToSet
            <3>3. i = 1 /\ k = 1 BY <1>5, <1>7, <1>9, <1>10
            <3> QED BY <1>5, <3>2, <3>3
        <2>2. DOMAIN h \cap HeardSettled = DOMAIN h BY <2>1
        <2>3. PICK s \in Sound : NewestState(h, HeardSettled, s) /\ Agree(s, settled)
            BY DEF SpeculationInv
        <2>4. NewestState(h, DOMAIN h, s) BY <2>2, <2>3, NewestSame
        <2>5. current = s BY <1>2, <1>3, <2>4, NewestUnique
        <2>6. settled.accounts = told BY SettledFactsCanonical DEF Canonical
        <2>7. current.accounts = told BY <2>3, <2>5, <2>6 DEF Agree
        <2> QED BY <1>1, <1>9, <1>10, <2>7
    <1>11. CASE l # 0
        <2>1. PICK x : x = InFlight[l] OBVIOUS
        <2>2. l \in 1..l /\ (k + 1) + l - 1 = n BY <1>7, <1>9, <1>11
        <2>3. x = txChain[n] /\ n \in 1..n BY <1>7, <1>8, <1>9, <1>11, <2>1, <2>2
        <2>4. x \in Txs /\ heard[x] = "sequenced" /\ x \in DOMAIN h
            <3>1. l \in 1..Len(InFlight) BY <2>2
            <3> QED BY <2>1, <3>1, EachInFlight
        <2>5. ASSUME NEW y \in DOMAIN h, y # x PROVE y \in Before(x)
            <3>1. CASE heard[y] = "settled"
                BY <1>3, <2>4, <3>1, HeardFirst, TrackingFacts
            <3>2. CASE heard[y] # "settled"
                <4>1. y \in HeardSequenced BY <1>3, <3>2 DEF HeardSequenced
                <4>2. PICK i \in 1..n : y = txChain[i] BY <1>4, <1>7, <4>1 DEF ToSet
                <4>3. i < n BY <1>7, <2>3, <2>5, <4>2
                <4> QED BY <1>7, <2>3, <4>2, <4>3 DEF TrackingInv, ChainInv, TrackedInv, Sorted
            <3> QED BY <3>1, <3>2
        <2>6. PICK s : s = h[x].state OBVIOUS
        <2>7. NewestState(h, DOMAIN h, s) BY <2>4, <2>5, <2>6 DEF NewestState
        <2>8. current = s BY <1>2, <1>3, <2>7, NewestUnique
        <2> QED BY <1>1, <1>9, <1>11, <2>1, <2>6, <2>8
    <1> QED BY <1>10, <1>11

\* SpeculationIsInFlight (see RethSystem): a rollback leaves no trace, a replay loses nothing.
LEMMA CanonicalSpeculation == CanonicalInv => SpeculationIsInFlight
    <1> SUFFICES ASSUME CanonicalInv, ~skipped, ~catchingUp, Idle
                 PROVE  CurrentState(stateHistory).accounts = told \o FlattenSeq(
                            [i \in DOMAIN InFlight |-> Marks(Blobs[InFlight[i]])])
        BY DEF SpeculationIsInFlight, CurrentState
    <1>1. PICK l, current : l = Len(InFlight) /\ current = CurrentState(stateHistory)
        OBVIOUS
    <1>2. /\ l \in Nat
          /\ l = 0 => current.accounts = told
          /\ l # 0 => current = stateHistory[InFlight[l]].state
        BY <1>1, CurrentInFlight
    <1>3. DOMAIN InFlight = 1..l
        <2>1. PICK k \in 0..1 : k <= Len(txChain) /\ InFlight = SubSeq(txChain, k + 1, Len(txChain))
            BY InFlightIs DEF CanonicalInv
        <2>2. txChain \in Seq(Txs) /\ Len(txChain) \in Nat
            BY TrackingFacts, LenProperties DEF CanonicalInv
        <2>3. k + 1 \in 1..(Len(txChain) + 1) /\ Len(txChain) \in 0..Len(txChain) BY <2>1, <2>2
        <2> QED BY <1>1, <2>1, <2>2, <2>3, SubSeqElements
    <1>4. told \in Seq(Mark) /\ settled.accounts = told
        BY SettledFactsCanonical DEF Canonical, Accounts
    <1> DEFINE f == [i \in 1..l |-> Marks(Blobs[InFlight[i]])]
               g == [j \in 0..l |-> IF j = 0 THEN told
                                    ELSE stateHistory[InFlight[j]].state.accounts]
    <1>5. ASSUME NEW j \in 1..l PROVE f[j] \in Seq(Mark) /\ g[j] = g[j - 1] \o f[j]
        <2>1. PICK t : t = InFlight[j] OBVIOUS
        <2>2. PICK s \in Sound :
                /\ t \in Txs
                /\ IF j = 1 THEN Agree(s, settled) ELSE s = stateHistory[InFlight[j - 1]].state
                /\ ExecutedOn(stateHistory[t].state, s, t, proofs)
            <3>1. j \in 1..Len(InFlight) BY <1>1
            <3> QED BY <2>1, <3>1, EachInFlight
        <2>3. /\ Marks(Blobs[t]) \in Seq(Mark)
              /\ stateHistory[t].state.accounts = s.accounts \o Marks(Blobs[t])
            BY <2>2, ExecutedAccounts
        <2>4. f[j] = Marks(Blobs[t]) BY <2>1
        <2>5. g[j] = stateHistory[t].state.accounts BY <1>2, <2>1
        <2>6. g[j - 1] = s.accounts
            <3>1. CASE j = 1
                <4>1. s.accounts = told BY <1>4, <2>2, <3>1 DEF Agree
                <4>2. j - 1 = 0 /\ g[0] = told BY <1>2, <3>1
                <4> HIDE DEF g
                <4> QED BY <4>1, <4>2
            <3>2. CASE j # 1
                <4>1. j - 1 \in 0..l /\ j - 1 # 0 BY <1>2, <3>2
                <4>2. g[j - 1] = stateHistory[InFlight[j - 1]].state.accounts BY <4>1, SMTT(30)
                <4> QED BY <2>2, <3>2, <4>2
            <3> QED BY <3>1, <3>2
        <2> HIDE DEF f, g
        <2> QED BY <2>3, <2>4, <2>5, <2>6
    <1>6. f \in [1..l -> Seq(Mark)] BY <1>5
    <1>7. g[0] = told /\ g[l] = current.accounts BY <1>2
    <1>8. f = [i \in DOMAIN InFlight |-> Marks(Blobs[InFlight[i]])] BY <1>3
    <1> HIDE DEF f, g
    <1>9. \A j \in 1..l : g[j] = g[j - 1] \o f[j] BY <1>5
    <1>10. g[l] = told \o FlattenSeq(f)
        BY ONLY <1>2, <1>4, <1>6, <1>7, <1>9, FlattenFrom, ZenonT(60)
    <1> QED BY <1>1, <1>7, <1>8, <1>10

THEOREM SpeculationFollows == Spec => []SpeculationIsInFlight
    BY CanonicalSpeculation, SpeculationInvariant, PTL

-----------------------------------------------------------------------------
\* The published snapshot.

\* What a publication copies.
Speculated == IF DOMAIN stateHistory = {} THEN settled ELSE CurrentState(stateHistory)

\* The snapshot shows the accounts speculated, or still those settled when the replay of the
\* backfill, which publishes nothing, was the last to change them.  Nothing is said of it while
\* a rollback is being replayed.
PendingInv ==
    /\ Idle <=> replay = "none"
    /\ catchingUp => pending.accounts = Speculated.accounts
    /\ ~skipped /\ replay = "backfill" => pending.accounts = settled.accounts
    /\ ~skipped /\ Idle => pending.accounts \in {settled.accounts, Speculated.accounts}

\* A publication copies the accounts.
LEMMA PublishedAccounts ==
    ASSUME NEW h, SoundHistory(h), NEW s \in Sound, NEW local
    PROVE  Published(h, s, local).accounts
                = (IF DOMAIN h = {} THEN s ELSE CurrentState(h)).accounts
    <1> DEFINE current == IF DOMAIN h = {} THEN s ELSE CurrentState(h)
               hashes == Extend(s.evm_to_hyli_hash, local)
               index == s.message_id_index
               u == [current EXCEPT !.message_id_index = index, !.evm_to_hyli_hash = hashes]
    <1>1. current \in Sound BY CurrentStateSound
    <1>2. Published(h, s, local) = u BY DEF Published
    <1> HIDE DEF current, hashes, index
    <1>3. u.accounts = current.accounts BY <1>1 DEF Sound, EthState
    <1> QED BY <1>2, <1>3 DEF current

\* A step that publishes and does not start a replay.
LEMMA PendingPublished ==
    ASSUME TrackingInv', NEW local, pending' = Published(stateHistory', settled', local),
           todo' = <<>>, replay' = "none"
    PROVE  PendingInv'
    <1>1. PICK h, s : h = stateHistory' /\ s = settled' OBVIOUS
    <1>2. SoundHistory(h) /\ s \in Sound BY <1>1 DEF TrackingInv, SystemInv, Inv, AllSound
    <1>3. Published(h, s, local).accounts = (IF DOMAIN h = {} THEN s ELSE CurrentState(h)).accounts
        BY <1>2, PublishedAccounts
    <1>4. pending'.accounts = Speculated'.accounts BY <1>1, <1>3 DEF Speculated
    <1> QED BY <1>4 DEF PendingInv, Idle

\* A step that leaves the snapshot, and what it is copied from, as they are.
LEMMA PendingSame ==
    ASSUME PendingInv, UNCHANGED <<pending, stateHistory, todo, replay, catchingUp>>,
           settled'.accounts = settled.accounts, ~skipped' => ~skipped
    PROVE  PendingInv'
    <1>1. Speculated'.accounts = Speculated.accounts BY DEF Speculated
    <1> QED BY <1>1 DEF PendingInv, Idle

\* What the listener reports is published, but for what is buffered, ignored, or rolled back
\* with something after it.
LEMMA ReportPending ==
    ASSUME TrackingInv, TrackingInv', PendingInv, NEW t \in Txs,
           ReportSequenced(t) \/ ReportSuccess(t) \/ ReportFailed(t)
    PROVE  PendingInv'
    <1>1. todo = <<>> /\ replay = "none"
        BY SequencedFacts, SettledFacts DEF PendingInv, Idle
    <1>2. CASE SequencedCatchingUp(t)
        <2>1. settled \in Sound /\ settled' = IndexMessages(settled, t)
            BY <1>2, TrackingFacts, InvFacts DEF SequencedCatchingUp
        <2>2. settled'.accounts = settled.accounts BY <2>1, AgreeIndex DEF Agree
        <2>3. skipped' = skipped
            BY <1>2 DEF SequencedCatchingUp, HearSequenced, ReportSequenced, ReportSuccess,
                   ReportFailed, SettledSuccessCatchingUp, SettledSuccessLive, SettledUntracked,
                   listenerVars
        <2> QED BY <1>2, <2>2, <2>3, PendingSame DEF SequencedCatchingUp
    <1>3. CASE SettledUntracked(t)
        <2>1. skipped' = TRUE \/ skipped' = skipped
            BY DEF ReportSequenced, ReportSuccess, ReportFailed, listenerVars
        <2> QED BY <1>3, <2>1, PendingSame DEF SettledUntracked
    <1>4. CASE SettledFailedLive(t)
        <2>1. CASE todo' = <<>>
            <3>1. replay' = "none" /\ settled' = settled
                BY <1>4, <2>1 DEF SettledFailedLive
            <3>2. pending' = Published(stateHistory', settled', submitted')
                BY <1>4, <2>1, <3>1 DEF SettledFailedLive
            <3> QED BY <2>1, <3>1, <3>2, PendingPublished
        <2>2. CASE todo' # <<>>
            <3>1. replay' = "rollback" /\ ~catchingUp'
                BY <1>4, <2>2 DEF SettledFailedLive
            <3> QED BY <2>2, <3>1 DEF PendingInv, Idle
        <2> QED BY <2>1, <2>2
    <1>5. CASE \/ SequencedLive(t) \/ SequencedUnprovable(t)
               \/ SettledSuccessCatchingUp(t, commitment[t])
               \/ SettledSuccessLive(t, commitment[t]) \/ SettledFailedCatchingUp(t)
        <2>1. todo' = todo /\ replay' = replay
            BY <1>5 DEF SequencedLive, SequencedUnprovable, SettledSuccessCatchingUp,
                   SettledSuccessLive, SettledFailedCatchingUp
        <2>2. pending' = Published(stateHistory', settled', submitted')
            BY <1>5 DEF SequencedLive, SequencedUnprovable, SettledSuccessCatchingUp,
                   SettledSuccessLive, SettledFailedCatchingUp
        <2> QED BY <1>1, <2>1, <2>2, PendingPublished
    <1> QED BY <1>2, <1>3, <1>4, <1>5 DEF ReportSequenced, ReportSuccess, ReportFailed

\* The end of the backfill publishes nothing: what was published is the settled state.
LEMMA EndBackfillPending ==
    ASSUME CanonicalInv, PendingInv, EndBackfill
    PROVE  PendingInv'
    <1>1. /\ catchingUp /\ ~catchingUp' /\ UNCHANGED <<pending, stateHistory, settled, skipped>>
          /\ replay' = IF todo' = <<>> THEN "none" ELSE "backfill"
        BY DEF EndBackfill, BackfillComplete, listenerVars
    <1>2. ~skipped => pending.accounts = settled.accounts
        <2> SUFFICES ASSUME ~skipped PROVE Speculated.accounts = settled.accounts
            BY <1>1 DEF PendingInv
        <2>1. PICK s \in Sound : NewestState(stateHistory, HeardSettled, s) /\ Agree(s, settled)
            BY DEF CanonicalInv, SpeculationInv
        <2>2. DOMAIN stateHistory \subseteq HeardSettled
            BY <1>1 DEF CanonicalInv, TrackingInv, ChainInv, HistoryInv
        <2>3. NewestState(stateHistory, HeardSettled, CurrentState(stateHistory))
            BY <2>2, CurrentIsNewest DEF CanonicalInv
        <2>4. s = CurrentState(stateHistory)
            BY <2>1, <2>3, TrackingFacts, NewestUnique DEF CanonicalInv
        <2> QED BY <2>1, <2>4 DEF Speculated, Agree
    <1> QED BY <1>1, <1>2 DEF PendingInv, Idle

\* A replay: that of a rollback publishes at its end, that of the backfill never does.
LEMMA ReplayPending ==
    ASSUME TrackingInv, TrackingInv', PendingInv, Replay
    PROVE  PendingInv'
    <1>1. /\ todo # <<>> /\ UNCHANGED <<catchingUp, skipped>>
          /\ replay' = IF todo' = <<>> THEN "none" ELSE replay
        BY DEF Replay, ReplayTx, listenerVars
    <1>2. ~catchingUp /\ replay # "none"
        BY <1>1 DEF TrackingInv, ChainInv, TrackedInv, PendingInv, Idle
    <1>3. CASE todo' = <<>> /\ replay = "rollback"
        <2>1. pending' = Published(stateHistory', settled', submitted)
            BY <1>3 DEF Replay, ReplayTx
        <2> QED BY <1>1, <1>3, <2>1, PendingPublished
    <1>4. CASE ~ (todo' = <<>> /\ replay = "rollback")
        <2>1. pending' = pending BY <1>4 DEF Replay, ReplayTx
        <2>2. settled'.accounts = settled.accounts
            <3>1. settled \in Sound BY TrackingFacts, InvFacts
            <3>2. settled' = settled \/ settled' = IndexMessages(settled, Head(todo))
                BY DEF Replay, ReplayTx
            <3> QED BY <3>1, <3>2, AgreeIndex DEF Agree
        <2>3. replay \in {"backfill", "rollback"}
            BY <1>2, TrackingFacts DEF TypeOK
        <2> QED BY <1>1, <1>2, <1>4, <2>1, <2>2, <2>3 DEF PendingInv, Idle
    <1> QED BY <1>3, <1>4

\* A server that starts publishes genesis.
LEMMA StartPending ==
    ASSUME Start PROVE PendingInv
    BY DEF Start, EmptyHistory, PendingInv, Speculated, Idle

\* Every step of the composed system keeps PendingInv.
LEMMA PendingStep ==
    ASSUME CanonicalInv, CanonicalInv', PendingInv, [Next]_vars
    PROVE  PendingInv'
    <1>1. TrackingInv /\ TrackingInv' BY DEF CanonicalInv
    <1>2. CASE \E t \in Txs : ReportSequenced(t) \/ ReportSuccess(t) \/ ReportFailed(t)
        BY <1>1, <1>2, ReportPending
    <1>3. CASE EndBackfill BY <1>3, EndBackfillPending
    <1>4. CASE Replay BY <1>1, <1>4, ReplayPending
    <1>5. CASE ServerRestart
        <2>1. /\ pending' = Genesis /\ settled' = Genesis /\ stateHistory' = EmptyHistory
              /\ todo' = <<>> /\ replay' = "none"
            BY <1>5 DEF ServerRestart, Restart
        <2> QED BY <2>1 DEF EmptyHistory, PendingInv, Speculated, Idle
    <1>6. CASE \/ \E t \in Txs : \/ HyliSequences(t) \/ HyliSettlesSuccess(t)
                                 \/ HyliSettlesFailed(t) \/ Submit(t) \/ Record(t)
               \/ PollTip \/ PollLogs \/ UNCHANGED vars
        <2>1. UNCHANGED <<pending, stateHistory, todo, replay, catchingUp, settled, skipped>>
            BY <1>6 DEF HyliSequences, HyliSettlesSuccess, HyliSettlesFailed, Submit,
                   SendRawTransaction, Record, RecordSubmission, PollTip, PollLogs, vars,
                   moduleVars, listenerVars
        <2> QED BY <2>1, PendingSame
    <1> QED BY <1>2, <1>3, <1>4, <1>5, <1>6 DEF Next

\* The nonces of what was submitted have a bound.
SubmittedBound == \E n \in Nat : \A e \in Keys(submitted) \cap Decodable : Nonce[e] < n

\* A submission is one more; everything else only forgets.
LEMMA SubmittedStep ==
    ASSUME CanonicalInv, SubmittedBound, [Next]_vars
    PROVE  SubmittedBound'
    <1>1. submitted \in [Evm -> Txs \cup {None}]
        BY TrackingFacts, InvFacts DEF CanonicalInv
    <1>2. CASE \E t \in Txs : Record(t)
        <2>1. PICK t \in Txs : Record(t) BY <1>2
        <2>2. PICK f : f = Blobs[t][1] OBVIOUS
        <2>3. submitted' = [submitted EXCEPT ![f] = t] BY <2>1, <2>2 DEF Record, RecordSubmission
        <2>4. Keys(submitted)' \subseteq Keys(submitted) \cup {f} BY <1>1, <2>3 DEF Keys
        <2>5. PICK n \in Nat : \A e \in Keys(submitted) \cap Decodable : Nonce[e] < n
            BY DEF SubmittedBound
        <2>6. CASE f \notin Decodable BY <2>4, <2>5, <2>6 DEF SubmittedBound
        <2>7. CASE f \in Decodable
            <3>1. Nonce \in [Evm -> Nat] /\ Decodable \subseteq Evm BY EthAssumption
            <3>2. Nonce[f] \in Nat /\ \A e \in Decodable : Nonce[e] \in Nat BY <2>7, <3>1
            <3>3. PICK k : k = n + Nonce[f] + 1 OBVIOUS
            <3>4. k \in Nat /\ \A e \in Keys(submitted)' \cap Decodable : Nonce[e] < k
                BY <2>4, <2>5, <3>2, <3>3
            <3> QED BY <3>4 DEF SubmittedBound
        <2> QED BY <2>6, <2>7
    <1>3. CASE ~ (\E t \in Txs : Record(t))
        <2>1. Keys(submitted)' \subseteq Keys(submitted)
            <3>1. \/ submitted' = submitted
                  \/ \E t \in Txs : submitted' = WithoutPayloads(t)
                  \/ \E t \in Txs : submitted' = Forgotten(pendingProofs, t)
                  \/ submitted' = [e \in Evm |-> None]
                BY <1>3, ZenonT(60) DEF Next, HyliSequences, HyliSettlesSuccess, HyliSettlesFailed,
                       ReportSequenced, SequencedCatchingUp, SequencedLive, SequencedUnprovable,
                       ReportSuccess, ReportFailed, SettledSuccessCatchingUp, SettledSuccessLive,
                       SettledFailedCatchingUp, SettledFailedLive, SettledUntracked, Submit,
                       SendRawTransaction, EndBackfill, BackfillComplete, Replay, ReplayTx,
                       ServerRestart, Restart, PollTip, PollLogs, vars, moduleVars
            <3> QED BY <1>1, <3>1 DEF Keys, Forgotten, WithoutPayloads
        <2> QED BY <2>1 DEF SubmittedBound
    <1> QED BY <1>2, <1>3

\* In every state of the composed system, what is published is what is settled or speculated.
THEOREM PendingInvariant == Spec => [](CanonicalInv /\ PendingInv /\ SubmittedBound)
    <1>1. Init => PendingInv BY StartPending DEF Init, ModuleInit
    <1>2. Init => SubmittedBound
        <2>1. ASSUME Init PROVE Keys(submitted) = {} BY <2>1 DEF Init, ModuleInit, Start, Keys
        <2> QED BY <2>1 DEF SubmittedBound
    <1> QED BY <1>1, <1>2, PendingStep, SubmittedStep, SpeculationInvariant, PTL DEF Spec

\* A nonce is a number.
LEMMA NonceType ==
    ASSUME NEW c \in Accounts, NEW a
    PROVE  AccountNonce(c, a) \in Nat
    BY NonceOfLast

\* When blobs change the nonce of an account, one of them is its own, with a nonce that is not
\* above the new one.
LEMMA NonceForced ==
    ASSUME NEW c \in Accounts, NEW b \in Seq(Evm), NEW a,
           AccountNonce(c \o Marks(b), a) # AccountNonce(c, a)
    PROVE  \E e \in ToSet(b) : /\ e \in Decodable /\ Sender[e] = a
                               /\ Nonce[e] <= AccountNonce(c \o Marks(b), a)
    <1>1. PICK m, d, n, k : m = Marks(b) /\ d = c \o m /\ n = Len(c) /\ k = Len(m) OBVIOUS
    <1>2. m \in Seq(Mark) /\ k = Len(b) /\ c \in Seq(Mark)
        BY <1>1, MarksType DEF Accounts
    <1>3. /\ c \o m \in Seq(Mark) /\ Len(c) \in Nat /\ Len(m) \in Nat
          /\ Len(c \o m) = Len(c) + Len(m)
          /\ DOMAIN c = 1..Len(c) /\ DOMAIN (c \o m) = 1..Len(c \o m)
          /\ \A i \in 1..Len(c) : (c \o m)[i] = c[i]
          /\ \A i \in 1..Len(m) : (c \o m)[Len(c) + i] = m[i]
        BY ONLY <1>2, ConcatFacts
    <1>4. /\ d \in Seq(Mark) /\ n \in Nat /\ k \in Nat
          /\ DOMAIN c = 1..n /\ DOMAIN d = 1..(n + k)
          /\ \A i \in 1..n : d[i] = c[i]
          /\ \A i \in 1..k : d[n + i] = m[i]
        BY ONLY <1>1, <1>3
    <1>5. /\ OwnMarks(d, a) \subseteq 1..(n + k)
          /\ OwnMarks(c, a) = OwnMarks(d, a) \cap 1..n
        BY <1>4 DEF OwnMarks
    <1>6. d \in Accounts BY <1>4 DEF Accounts
    <1>7. OwnMarks(d, a) # {}
        BY <1>1, <1>5, <1>6, NonceOfLast
    <1>8. PICK j : LastOwn(d, a, j) BY <1>6, <1>7, NonceOfLast
    <1>9. /\ AccountNonce(d, a) = Nonce[d[j].tx] + (IF d[j].ran THEN 1 ELSE 0)
          /\ Nonce[d[j].tx] \in Nat
        BY <1>6, <1>8, NonceOfLast
    <1>10. j \in 1..(n + k) /\ j \in OwnMarks(d, a) BY <1>5, <1>8 DEF LastOwn
    <1>11. ~ (j <= n)
        <2> SUFFICES ASSUME j <= n PROVE FALSE OBVIOUS
        <2>1. j \in 1..n /\ d[j] = c[j] BY <1>4, <1>10
        <2>2. LastOwn(c, a, j) BY <1>5, <1>8, <2>1 DEF LastOwn
        <2>3. AccountNonce(c, a) = Nonce[c[j].tx] + (IF c[j].ran THEN 1 ELSE 0)
            BY <2>2, NonceOfLast
        <2> QED BY <1>1, <1>9, <2>1, <2>3
    <1>12. PICK i : i = j - n OBVIOUS
    <1>13. i \in 1..k /\ n + i = j BY <1>4, <1>10, <1>11, <1>12
    <1>14. d[j] = m[i] /\ i \in 1..Len(b) BY <1>2, <1>4, <1>13
    <1>15. d[j].tx = b[i]
        <2>1. Marks(b)[i] = [tx |-> b[i], ran |-> b[i] \in Executable] BY <1>14 DEF Marks
        <2> QED BY <1>1, <1>14, <2>1
    <1>16. b[i] \in ToSet(b) BY <1>14, LenProperties DEF ToSet
    <1>17. b[i] \in Decodable /\ Sender[b[i]] = a BY <1>10, <1>15 DEF OwnMarks
    <1>18. Nonce[b[i]] <= AccountNonce(d, a) BY <1>9, <1>15
    <1> QED BY <1>1, <1>16, <1>17, <1>18

\* What the submissions add to a count never lowers it.
LEMMA PendingCount ==
    ASSUME SubmittedBound, NEW a, NEW m \in Nat, m = AccountNonce(pending.accounts, a)
    PROVE  /\ GetTransactionCount(a, "pending") \in Nat
           /\ m <= GetTransactionCount(a, "pending")
    <1> DEFINE used == {Nonce[e] + 1 : e \in
                            {f \in Keys(submitted) \cap Decodable :
                                Sender[f] = a /\ settled.settled_receipts[f] = None}}
               S == {0} \cup used
    <1>1. PICK n \in Nat : \A e \in Keys(submitted) \cap Decodable : Nonce[e] < n
        BY DEF SubmittedBound
    <1>2. Nonce \in [Evm -> Nat] /\ Decodable \subseteq Evm BY EthAssumption
    <1>3. S \subseteq 0..n /\ S # {} BY <1>1, <1>2
    <1>4. SubmittedNonce(a) = Max(S) BY DEF SubmittedNonce
    <1> HIDE DEF S
    <1>5. \E x \in S : \A y \in S : x >= y
        <2>1. PICK x \in S : \A y \in S : y <= x BY <1>3, GreatestNat
        <2>2. \A y \in S : x >= y BY <1>3, <2>1
        <2> QED BY <2>2
    <1>6. Max(S) \in Nat
        <2>1. PICK x \in S : x = Max(S) BY <1>5 DEF Max
        <2>2. x \in 0..n BY <1>3
        <2> QED BY <2>1, <2>2
    <1>7. PICK k \in Nat : k = SubmittedNonce(a) BY <1>4, <1>6
    <1>8. GetTransactionCount(a, "pending") = Max({m, k})
        BY <1>7 DEF GetTransactionCount, StateFor
    <1>9. Max({m, k}) \in Nat /\ m <= Max({m, k})
        <2>1. \E x \in {m, k} : \A y \in {m, k} : x >= y OBVIOUS
        <2>2. Max({m, k}) \in {m, k} /\ \A y \in {m, k} : Max({m, k}) >= y BY <2>1 DEF Max
        <2> QED BY <2>2
    <1> QED BY <1>8, <1>9

\* The "latest" count is the settled nonce.
LEMMA LatestCount ==
    ASSUME NEW a, NEW m \in Nat, m = AccountNonce(settled.accounts, a)
    PROVE  GetTransactionCount(a, "latest") = m
    <1>1. GetTransactionCount(a, "latest") = Max({m, 0}) BY DEF GetTransactionCount, StateFor
    <1>2. \E x \in {m, 0} : \A y \in {m, 0} : x >= y OBVIOUS
    <1>3. Max({m, 0}) \in {m, 0} /\ \A y \in {m, 0} : Max({m, 0}) >= y BY <1>2 DEF Max
    <1>4. Max({m, 0}) = m BY <1>3
    <1> QED BY <1>1, <1>4

\* The first transaction in flight whose execution sets the nonce back has a blob with a used
\* nonce.
LEMMA StaleInFlight ==
    ASSUME CanonicalInv, ~skipped, ~catchingUp, Idle, NEW a, NEW n \in Nat,
           n = AccountNonce(told, a),
           AccountNonce(CurrentState(stateHistory).accounts, a) < n
    PROVE  \E t \in ToSet(InFlight) : \E e \in ToSet(Blobs[t]) : Sender[e] = a /\ Nonce[e] < n
    <1>1. PICK l, current : l = Len(InFlight) /\ current = CurrentState(stateHistory)
        OBVIOUS
    <1>2. /\ l \in Nat
          /\ l = 0 => current.accounts = told
          /\ l # 0 => current = stateHistory[InFlight[l]].state
        BY <1>1, CurrentInFlight
    <1>3. told \in Accounts /\ settled.accounts = told
        BY SettledFactsCanonical DEF Canonical
    <1>4. l # 0 BY <1>1, <1>2
    <1> DEFINE after(j) == AccountNonce(stateHistory[InFlight[j]].state.accounts, a)
               T == {j \in 1..l : after(j) < n}
    <1>5. l \in T BY <1>1, <1>2, <1>4
    <1>6. PICK j \in T : \A i \in T : j <= i
        <2>1. T \subseteq Nat /\ T # {} BY <1>5
        <2> HIDE DEF T
        <2> QED BY <2>1, LeastNat
    <1>7. PICK t : t = InFlight[j] OBVIOUS
    <1>8. j \in 1..Len(InFlight) BY <1>1, <1>6
    <1>9. PICK s \in Sound :
            /\ t \in Txs
            /\ IF j = 1 THEN Agree(s, settled) ELSE s = stateHistory[InFlight[j - 1]].state
            /\ ExecutedOn(stateHistory[t].state, s, t, proofs)
        BY <1>7, <1>8, EachInFlight
    <1>10. /\ stateHistory[t].state.accounts = s.accounts \o Marks(Blobs[t])
           /\ s.accounts \in Accounts /\ Blobs[t] \in Seq(Evm)
        BY <1>9, ExecutedAccounts, BlobsType DEF Sound, EthState
    <1>11. AccountNonce(s.accounts, a) >= n
        <2>1. CASE j = 1
            <3>1. s.accounts = told BY <1>3, <1>9, <2>1 DEF Agree
            <3> QED BY <3>1
        <2>2. CASE j # 1
            <3>1. j - 1 \in 1..l /\ ~ (j <= j - 1) BY <1>2, <1>6, <2>2
            <3>2. j - 1 \notin T
                <4> HIDE DEF T
                <4> QED BY <1>6, <3>1
            <3>3. ~ (after(j - 1) < n) BY <3>1, <3>2
            <3>4. after(j - 1) = AccountNonce(s.accounts, a) BY <1>9, <2>2
            <3>5. AccountNonce(s.accounts, a) \in Nat BY <1>10, NonceType
            <3> HIDE DEF after
            <3> QED BY <3>3, <3>4, <3>5
        <2> QED BY <2>1, <2>2
    <1>12. PICK k : k = AccountNonce(s.accounts \o Marks(Blobs[t]), a) OBVIOUS
    <1>13. k < n
        <2>1. k = after(j) BY <1>7, <1>10, <1>12
        <2> QED BY <1>6, <2>1
    <1>14. /\ k \in Nat /\ AccountNonce(s.accounts, a) \in Nat
        <2>1. Blobs[t] \in Seq(Evm) /\ s.accounts \in Seq(Mark) BY <1>10 DEF Accounts
        <2>2. Marks(Blobs[t]) \in Seq(Mark) BY <2>1, MarksType
        <2>3. s.accounts \o Marks(Blobs[t]) \in Accounts
            BY ONLY <2>1, <2>2, ConcatFacts DEF Accounts
        <2> QED BY <1>10, <1>12, <2>3, NonceType
    <1>15. k # AccountNonce(s.accounts, a) BY <1>11, <1>13, <1>14
    <1>16. PICK e \in ToSet(Blobs[t]) : Sender[e] = a /\ e \in Decodable /\ Nonce[e] <= k
        BY <1>10, <1>12, <1>15, NonceForced
    <1>17. Nonce[e] \in Nat BY <1>16, EthAssumption
    <1>18. Nonce[e] < n BY <1>13, <1>14, <1>16, <1>17
    <1>19. t \in ToSet(InFlight)
        <2>1. DOMAIN InFlight = 1..Len(InFlight)
            <3>1. PICK i \in 0..1 : i <= Len(txChain)
                                    /\ InFlight = SubSeq(txChain, i + 1, Len(txChain))
                BY InFlightIs DEF CanonicalInv
            <3>2. txChain \in Seq(Txs) /\ Len(txChain) \in Nat
                BY TrackingFacts, LenProperties DEF CanonicalInv
            <3>3. i + 1 \in 1..(Len(txChain) + 1) /\ Len(txChain) \in 0..Len(txChain)
                BY <3>1, <3>2
            <3> QED BY <3>1, <3>2, <3>3, SubSeqElements
        <2> QED BY <1>7, <1>8, <2>1 DEF ToSet
    <1> QED BY <1>16, <1>18, <1>19

\* NonceBehindOnlyIfStale (see RethViews): between two events the "pending" count is behind the
\* "latest" one only if a transaction in flight signed with a used nonce.
LEMMA PendingNonce == CanonicalInv /\ PendingInv /\ SubmittedBound => NonceBehindOnlyIfStale
    <1> SUFFICES ASSUME CanonicalInv, PendingInv, SubmittedBound, isReady, Idle, ~skipped,
                        NEW a \in Senders, NEW latest, latest = GetTransactionCount(a, "latest"),
                        GetTransactionCount(a, "pending") < latest
                 PROVE  \E t \in ToSet(InFlight) : \E e \in ToSet(Blobs[t]) :
                            Sender[e] = a /\ Nonce[e] < latest
        BY DEF NonceBehindOnlyIfStale
    <1>1. told \in Accounts /\ settled.accounts = told /\ ~catchingUp
        BY SettledFactsCanonical DEF Canonical, CanonicalInv, TrackingInv, ChainInv, TrackedInv
    <1>2. AccountNonce(told, a) \in Nat BY <1>1, NonceType
    <1>3. latest = AccountNonce(told, a) BY <1>1, <1>2, LatestCount
    <1>4. pending \in Sound BY TrackingFacts, InvFacts DEF CanonicalInv
    <1>5. PICK m : m = AccountNonce(pending.accounts, a) OBVIOUS
    <1>6. m \in Nat BY <1>4, <1>5, NonceType DEF Sound, EthState
    <1>7. m <= GetTransactionCount(a, "pending") BY <1>5, <1>6, PendingCount
    <1>8. m < latest
        <2>1. GetTransactionCount(a, "pending") \in Nat
            BY <1>5, <1>6, PendingCount
        <2> QED BY <1>2, <1>3, <1>6, <1>7, <2>1
    <1>9. pending.accounts # told BY <1>2, <1>3, <1>5, <1>8
    <1>10. pending.accounts = CurrentState(stateHistory).accounts
        BY <1>1, <1>9 DEF PendingInv, Speculated
    <1> QED BY <1>1, <1>2, <1>3, <1>5, <1>8, <1>10, StaleInFlight

\* So it is in every state of the system.
THEOREM NonceFollows == Spec => []NonceBehindOnlyIfStale
    BY PendingNonce, PendingInvariant, PTL

-----------------------------------------------------------------------------
\* What clients find under a block number.

\* The chain told of is a prefix of the ledger, and executes nothing twice.
LEMMA ChainFacts ==
    ASSUME CanonicalInv
    PROVE  /\ told \in Accounts /\ ledger \in Accounts /\ NoncesGrow(told)
           /\ Len(told) \in Nat /\ Len(ledger) \in Nat /\ Len(told) <= Len(ledger)
           /\ DOMAIN told = 1..Len(told) /\ DOMAIN ledger = 1..Len(ledger)
           /\ \A i \in 1..Len(told) : ledger[i] = told[i]
           /\ tip \in Nat /\ cursor \in Nat
           /\ \A u \in Txs : status[u] = "success" =>
                /\ commitment[u] \in Accounts /\ Len(commitment[u]) \in Nat
                /\ Len(commitment[u]) <= Len(ledger)
                /\ heard[u] = "settled" => Len(commitment[u]) <= Len(told)
    <1>1. NodeInv /\ SystemInv /\ ListenerInv BY DEF CanonicalInv, TrackingInv
    <1>2. /\ told \in Accounts /\ ledger \in Accounts /\ tip \in Nat /\ cursor \in Nat
          /\ \A u \in Txs : status[u] = "success" => commitment[u] \in Accounts
        BY <1>1 DEF SystemInv, SystemTypes
    <1>3. /\ NoncesGrow(told) /\ Continues(ledger, told)
          /\ \A u \in Txs : status[u] = "success" => Continues(ledger, commitment[u])
          /\ \A u \in HeardSettled : status[u] = "success" => Continues(told, commitment[u])
        BY <1>1, LedgerGrown
    <1>4. \A u \in Txs : heard[u] = "settled" => u \in HeardSettled BY DEF HeardSettled
    <1> QED BY <1>2, <1>3, <1>4, ContinuesFacts

\* The headers with the number n.
Found(s, n) == {x \in ToSet(s.header_history) : x.number = n}

\* A sound state has one for each of its last blocks, and none for the blocks before them.
LEMMA HeadersFound ==
    ASSUME NEW s \in Sound, NEW n \in 0..s.block_number
    PROVE  /\ n + HeaderCap <= s.block_number => Found(s, n) = {}
           /\ n + HeaderCap > s.block_number =>
                \E i \in DOMAIN s.header_history : Found(s, n) = {s.header_history[i]}
    <1>1. PICK h : h = s.header_history OBVIOUS
    <1>2. PICK l : l = Len(h) OBVIOUS
    <1>3. PICK m : m = s.block_number OBVIOUS
    <1>4. /\ l \in Nat /\ m \in Nat /\ DOMAIN h = 1..l /\ l = IF m < HeaderCap THEN m + 1 ELSE HeaderCap
          /\ HeaderCap \in Nat \ {0} /\ n \in 0..m
        <2>1. s \in EthState /\ Chained(s) /\ h \in Seq(Header) BY <1>1 DEF Sound, EthState
        <2>2. m \in Nat BY <1>3, <2>1 DEF EthState
        <2>3. l = IF m < HeaderCap THEN m + 1 ELSE HeaderCap BY <1>1, <1>2, <1>3, <2>1 DEF Chained
        <2>4. l \in Nat /\ DOMAIN h = 1..l BY <1>2, <2>1, LenProperties
        <2> QED BY <1>3, <2>2, <2>3, <2>4, EthAssumption
    <1>5. \A i \in 1..l : h[i].number = m - l + i BY <1>1, <1>2, <1>3 DEF Sound, Chained
    <1>6. PICK at : at = n - m + l OBVIOUS
    <1>7. \A i \in 1..l : h[i].number = n <=> i = at
        <2> TAKE i \in 1..l
        <2>1. m - l + i = n <=> i = at BY <1>4, <1>6
        <2>2. h[i].number = m - l + i BY <1>5
        <2> QED BY <2>1, <2>2
    <1>8. ToSet(h) = {h[i] : i \in 1..l} BY <1>4 DEF ToSet
    <1>9. CASE n + HeaderCap <= m
        <2>1. at \notin 1..l /\ ~(n + HeaderCap > m) BY <1>4, <1>6, <1>9
        <2>2. Found(s, n) = {} BY <1>1, <1>7, <1>8, <2>1 DEF Found
        <2> QED BY <1>3, <2>1, <2>2
    <1>10. CASE n + HeaderCap > m
        <2>1. at \in 1..l /\ ~(n + HeaderCap <= m) BY <1>4, <1>6, <1>10
        <2>2. h[at] \in Found(s, n) BY <1>1, <1>7, <1>8, <2>1 DEF Found
        <2>3. \A x \in Found(s, n) : x = h[at] BY <1>1, <1>7, <1>8 DEF Found
        <2>4. Found(s, n) = {h[at]} BY <2>2, <2>3
        <2> QED BY <1>1, <1>3, <1>4, <2>1, <2>4
    <1>11. n + HeaderCap <= m \/ n + HeaderCap > m BY <1>4
    <1> QED BY <1>9, <1>10, <1>11

\* Chains that agree on their first elements have the same prefixes there.
LEMMA SamePrefix ==
    ASSUME NEW R, NEW c \in Seq(R), NEW d \in Seq(R), NEW n \in 0..Len(c), n <= Len(d),
           \A i \in 1..n : c[i] = d[i]
    PROVE  SubSeq(c, 1, n) = SubSeq(d, 1, n)
    <1>1. Len(c) \in Nat /\ Len(d) \in Nat /\ n \in Nat BY LenProperties
    <1>2. /\ SubSeq(c, 1, n) \in Seq(R) /\ Len(SubSeq(c, 1, n)) = n
          /\ \A i \in 1..n : SubSeq(c, 1, n)[i] = c[1 + i - 1]
        BY <1>1, SubSeqProperties
    <1>3. /\ SubSeq(d, 1, n) \in Seq(R) /\ Len(SubSeq(d, 1, n)) = n
          /\ \A i \in 1..n : SubSeq(d, 1, n)[i] = d[1 + i - 1]
        BY <1>1, SubSeqProperties
    <1>4. \A i \in 1..n : SubSeq(c, 1, n)[i] = SubSeq(d, 1, n)[i] BY <1>1, <1>2, <1>3
    <1> QED BY <1>2, <1>3, <1>4, SeqEqual

\* What a client is told of the block n.
Answer(n, chain, last) ==
    IF n + HeaderCap > last THEN [number |-> n, state_root |-> SubSeq(chain, 1, n)] ELSE None

\* A block the server has settled has its place in Hyli's chain.
AnswersInv ==
    /\ told \in Accounts /\ Len(told) \in Nat
    /\ ledger \in Accounts /\ Len(ledger) \in Nat
    /\ \A u \in Txs : status[u] = "success" /\ heard[u] = "settled" =>
            Len(commitment[u]) <= Len(told)
    /\ ~skipped =>
        /\ settled.block_number = Len(told) /\ settled.block_number <= Len(ledger)
        /\ \A n \in 0..settled.block_number :
            GetBlockByNumber(n) = Answer(n, ledger, settled.block_number)

LEMMA BlocksAnswered == CanonicalInv => AnswersInv
    <1> SUFFICES ASSUME CanonicalInv, ~skipped
                 PROVE  /\ settled.block_number = Len(told) /\ settled.block_number <= Len(ledger)
                        /\ \A n \in 0..settled.block_number :
                            GetBlockByNumber(n) = Answer(n, ledger, settled.block_number)
        BY ChainFacts DEF AnswersInv
    <1>1. settled \in Sound /\ told \in Accounts /\ Canonical(settled, told)
        BY SettledFactsCanonical
    <1>2. PICK m : m = settled.block_number OBVIOUS
    <1>3. m = Len(told) /\ m \in Nat /\ m <= Len(ledger)
        BY <1>1, <1>2, ChainFacts DEF Canonical
    <1>4. ASSUME NEW n \in 0..m PROVE GetBlockByNumber(n) = Answer(n, ledger, m)
        <2>1. /\ n + HeaderCap <= m => Found(settled, n) = {}
              /\ n + HeaderCap > m => \E i \in DOMAIN settled.header_history :
                    Found(settled, n) = {settled.header_history[i]}
            BY <1>1, <1>2, HeadersFound
        <2>2. n \in Int /\ m \in Int /\ HeaderCap \in Int /\ n # m + 1 BY <1>3, EthAssumption
        <2>3. CASE n + HeaderCap <= m
            <3>1. ~(n + HeaderCap > m) BY <2>2, <2>3
            <3>2. GetBlockByNumber(n) = None
                BY <1>2, <2>1, <2>2, <2>3 DEF GetBlockByNumber, Found
            <3> QED BY <3>1, <3>2 DEF Answer
        <2>4. CASE n + HeaderCap > m
            <3>1. PICK i \in DOMAIN settled.header_history :
                    Found(settled, n) = {settled.header_history[i]}
                BY <2>1, <2>4
            <3>2. PICK x : x = settled.header_history[i] OBVIOUS
            <3>3. Found(settled, n) = {x} /\ x \in Found(settled, n) BY <3>1, <3>2
            <3>4. x.number = n BY <3>3 DEF Found
            <3>5. x.state_root = SubSeq(told, 1, n) BY <1>1, <3>2, <3>4 DEF Canonical, OnChain
            <3>6. x \in Header
                <4>1. settled.header_history \in Seq(Header) BY <1>1 DEF Sound, EthState
                <4> QED BY <3>2, <4>1, ElementOfSeq, LenProperties
            <3>7. SubSeq(told, 1, n) = SubSeq(ledger, 1, n)
                BY <1>3, ChainFacts, SamePrefix DEF Accounts
            <3>8. x = [number |-> n, state_root |-> SubSeq(ledger, 1, n)]
                BY <3>4, <3>5, <3>6, <3>7 DEF Header
            <3>9. GetBlockByNumber(n) = x BY <3>3 DEF GetBlockByNumber, Found
            <3> QED BY <2>4, <3>8, <3>9 DEF Answer
        <2>5. n + HeaderCap <= m \/ n + HeaderCap > m BY <2>2
        <2> QED BY <2>3, <2>4, <2>5
    <1> QED BY <1>2, <1>3, <1>4

\* BlocksAreCanonical (see RethViews): a recent settled block is answered with the root of
\* Hyli's chain at its place, and an older one not at all.
THEOREM BlocksCanonical == Spec => []BlocksAreCanonical
    <1>1. CanonicalInv => BlocksAreCanonical
        BY BlocksAnswered DEF BlocksAreCanonical, AnswersInv, Answer
    <1> QED BY <1>1, SpeculationInvariant, PTL

\* But for a restart, no step takes back what the server has settled, nor an ignored success.
LEMMA ChainsGrow ==
    ASSUME CanonicalInv, AnswersInv', [Next]_vars, ~ServerRestart
    PROVE  /\ skipped => skipped'
           /\ Len(told) <= Len(told')
           /\ Len(ledger) <= Len(ledger')
           /\ \A i \in 1..Len(ledger) : ledger'[i] = ledger[i]
    <1>1. CASE \E t \in Txs : HyliSettlesSuccess(t)
        <2>1. PICK t \in Txs : HyliSettlesSuccess(t) BY <1>1
        <2>2. ledger' = ledger \o Marks(Blobs[t]) /\ UNCHANGED <<told, skipped>>
            BY <2>1 DEF HyliSettlesSuccess, listenerVars
        <2>3. \A i \in 1..Len(ledger) : ledger'[i] = ledger[i]
            BY <2>2, BlobsType, ChainFacts, ExtendedChain
        <2>4. Len(ledger) <= Len(ledger')
            BY <2>2, BlobsType, ChainFacts, ExtendedChain
        <2> QED BY <2>2, <2>3, <2>4, ChainFacts
    <1>2. CASE \E t \in Txs : ReportSuccess(t)
        <2>1. PICK t \in Txs : ReportSuccess(t) BY <1>2
        <2>2. UNCHANGED <<ledger, status, commitment>> /\ (skipped => skipped')
            BY <2>1 DEF ReportSuccess, hyliVars
        <2>3. \A v \in Txs : heard'[v] = IF v = t THEN "settled" ELSE heard[v]
            BY <2>1, SettledFacts DEF CanonicalInv
        <2>4. told = <<>> \/ \E u \in HeardSettled : status[u] = "success" /\ told = commitment[u]
            BY DEF CanonicalInv, TrackingInv, ListenerInv, TipOf
        <2>5. Len(told') \in Nat
              /\ \A u \in Txs : status'[u] = "success" /\ heard'[u] = "settled" =>
                    Len(commitment'[u]) <= Len(told')
            BY DEF AnswersInv
        <2>6. CASE told = <<>> BY <2>2, <2>5, <2>6, ChainFacts, EmptySeq
        <2>7. CASE \E u \in HeardSettled : status[u] = "success" /\ told = commitment[u]
            <3>1. PICK u \in HeardSettled : status[u] = "success" /\ told = commitment[u] BY <2>7
            <3>2. u \in Txs /\ heard[u] = "settled" BY <3>1 DEF HeardSettled
            <3>3. heard'[u] = "settled" BY <2>3, <3>2
            <3>4. Len(told) <= Len(told') BY <2>2, <2>5, <3>1, <3>2, <3>3
            <3> QED BY <2>2, <3>4, ChainFacts
        <2> QED BY <2>4, <2>6, <2>7
    <1>3. CASE UNCHANGED <<told, skipped, ledger>> BY <1>3, ChainFacts
    <1>4. \/ \E t \in Txs : HyliSettlesSuccess(t) \/ ReportSuccess(t)
          \/ UNCHANGED <<told, skipped, ledger>>
        BY DEF Next, HyliSequences, HyliSettlesFailed, ReportSequenced, ReportFailed, Submit, Record,
               EndBackfill, Replay, PollTip, PollLogs, vars, hyliVars, listenerVars
    <1> QED BY <1>1, <1>2, <1>3, <1>4

\* BlocksAreFinal (see RethViews): while the server answers, what a client found under the number
\* of a settled block it finds again, or nothing.
THEOREM BlocksFinal == Spec => BlocksAreFinal
    <1>1. ASSUME CanonicalInv, AnswersInv, AnswersInv', [Next]_vars,
                 isReady, isReady', ~skipped', NEW n \in 0..settled.block_number
          PROVE  GetBlockByNumber(n)' \in {GetBlockByNumber(n), None}
        <2>1. ~ServerRestart BY <1>1 DEF ServerRestart, Restart
        <2>2. /\ ~skipped
              /\ Len(told) <= Len(told')
              /\ Len(ledger) <= Len(ledger')
              /\ \A i \in 1..Len(ledger) : ledger'[i] = ledger[i]
            BY <1>1, <2>1, ChainsGrow
        <2>3. PICK m, m2 : m = settled.block_number /\ m2 = settled'.block_number OBVIOUS
        <2>4. /\ m = Len(told) /\ m <= Len(ledger) /\ m \in Nat
              /\ GetBlockByNumber(n) = Answer(n, ledger, m)
            BY <1>1, <2>2, <2>3 DEF AnswersInv
        <2>5. /\ m2 = Len(told') /\ m2 \in Nat
              /\ \A k \in 0..m2 : GetBlockByNumber(k)' = Answer(k, ledger', m2)
            BY <1>1, <2>3 DEF AnswersInv, Answer
        <2>6. /\ ledger \in Accounts /\ ledger' \in Accounts
              /\ Len(ledger) \in Nat /\ Len(ledger') \in Nat
            BY <1>1 DEF AnswersInv
        <2>7. n \in 0..m /\ n \in 0..m2 BY <2>2, <2>3, <2>4, <2>5
        <2>8. GetBlockByNumber(n)' = Answer(n, ledger', m2) BY <2>5, <2>7
        <2>9. SubSeq(ledger', 1, n) = SubSeq(ledger, 1, n)
            BY <2>2, <2>4, <2>6, <2>7, SamePrefix DEF Accounts
        <2>10. n + HeaderCap > m2 => n + HeaderCap > m
            BY <2>2, <2>4, <2>5, <2>7, EthAssumption
        <2> QED BY <2>4, <2>8, <2>9, <2>10 DEF Answer
    <1>2. CanonicalInv /\ AnswersInv /\ AnswersInv' /\ [Next]_vars =>
            [isReady /\ isReady' /\ ~skipped' =>
                \A n \in 0..settled.block_number :
                    GetBlockByNumber(n)' \in {GetBlockByNumber(n), None}]_vars
        BY <1>1
    <1> QED BY <1>2, BlocksAnswered, SpeculationInvariant, PTL DEF Spec, BlocksAreFinal

-----------------------------------------------------------------------------
\* The indexer, when the server is the only prover.

\* The block number served last is one of the chain a success led to: of one the server
\* has settled, or that it will hear of again before it answers.
Shown(u) ==
    /\ status[u] = "success" /\ tip <= Len(commitment[u]) + 1
    /\ heard[u] = "settled" \/ (catchingUp /\ u \in backlog /\ heard[u] = "nothing")

TipInv ==
    /\ cursor <= tip + 1
    /\ tip > 1 => \E u \in Txs : Shown(u)

ReaderInv == TipInv /\ IndexerMissesNothing

\* Once the server answers, it has settled the block it showed last.
LEMMA TipReached ==
    ASSUME CanonicalInv, ~skipped, TipInv, isReady
    PROVE  tip <= Len(told) + 1 /\ settled.block_number = Len(told)
    <1>1. ~catchingUp BY DEF CanonicalInv, TrackingInv, ChainInv, TrackedInv
    <1>2. settled.block_number = Len(told) BY SettledFactsCanonical DEF Canonical
    <1>3. tip > 1 => tip <= Len(told) + 1
        <2> SUFFICES ASSUME NEW u \in Txs, Shown(u) PROVE tip <= Len(told) + 1 BY DEF TipInv
        <2> QED BY <1>1, ChainFacts DEF Shown
    <1> QED BY <1>2, <1>3, ChainFacts

\* eth_getLogs has the logs of every transaction of the blocks asked for.
LEMMA LogsServed ==
    ASSUME CanonicalInv, ~skipped, NEW from \in Nat, NEW to \in Nat,
           NEW i \in DOMAIN told, from <= i + 1, i < to
    PROVE  told[i].tx \in LogsOf(settled, from, to)
    <1>0. PICK e, r : e = told[i].tx /\ r = settled.settled_receipts[e] OBVIOUS
    <1>1. settled \in Sound /\ told \in Accounts /\ Canonical(settled, told) BY SettledFactsCanonical
    <1>2. e \in Evm /\ i \in Nat BY <1>0, <1>1, AccountsElements
    <1>3. settled.settled_receipts \in [Evm -> Receipt \cup {None}] BY <1>1 DEF Sound, EthState
    <1>4. ReceiptOf(told, e, r) BY <1>0, <1>1, <1>2 DEF Canonical
    <1>5. PICK k \in DOMAIN told : told[k].tx = e /\ r = [block_number |-> k, logs |-> TRUE]
        BY <1>0, <1>4 DEF ReceiptOf
    <1>6. k = i
        <2>1. told \in Accounts /\ NoncesGrow(told) BY ChainFacts
        <2> QED BY <1>0, <1>5, <2>1, ExecutedOnce
    <1>7. r.block_number = i /\ r.logs BY <1>5, <1>6
    <1>8. r # None
        <2>1. r \in [block_number : Nat, logs : BOOLEAN] BY <1>2, <1>5, <1>6
        <2> QED BY <2>1, EthAssumption
    <1>9. e \in Keys(settled.settled_receipts) BY <1>0, <1>2, <1>3, <1>8 DEF Keys
    <1> QED BY <1>0, <1>2, <1>7, <1>9 DEF LogsOf

\* The step of an indexer that asks for the block number,
LEMMA PollTipReader ==
    ASSUME CanonicalInv, ~skipped, ReaderInv, PollTip
    PROVE  ReaderInv' /\ tip' >= tip
    <1>1. /\ isReady /\ tip' = Len(told) + 1 /\ tip <= Len(told) + 1
          /\ UNCHANGED <<cursor, indexed, ledger, status, commitment, heard, catchingUp, backlog>>
        BY TipReached DEF PollTip, ReaderInv, hyliVars, listenerVars, moduleVars
    <1>2. cursor <= tip + 1 BY DEF ReaderInv, TipInv
    <1>3. tip' > 1 => \E u \in Txs : Shown(u)'
        <2> SUFFICES ASSUME Len(told) # 0 PROVE \E u \in Txs : Shown(u)' BY <1>1, ChainFacts
        <2>1. told # <<>> OBVIOUS
        <2>2. PICK u \in HeardSettled : status[u] = "success" /\ told = commitment[u]
            BY <2>1 DEF TipOf, CanonicalInv, TrackingInv, ListenerInv
        <2>3. u \in Txs /\ heard[u] = "settled" BY DEF HeardSettled
        <2>4. tip' <= Len(commitment'[u]) + 1 BY <1>1, <2>2, ChainFacts
        <2> QED BY <1>1, <2>2, <2>3, <2>4 DEF Shown
    <1>4. TipInv' BY <1>1, <1>2, <1>3, ChainFacts DEF TipInv
    <1>5. IndexerMissesNothing' BY <1>1 DEF ReaderInv, IndexerMissesNothing
    <1> QED BY <1>1, <1>4, <1>5, ChainFacts DEF ReaderInv

\* of one that asks for the logs up to it,
LEMMA PollLogsReader ==
    ASSUME CanonicalInv, ~skipped, ReaderInv, PollLogs
    PROVE  ReaderInv' /\ tip' = tip
    <1>1. /\ isReady /\ cursor' = tip + 1 /\ indexed' = indexed \cup LogsOf(settled, cursor, tip)
          /\ UNCHANGED <<tip, ledger, status, commitment, heard, catchingUp, backlog>>
        BY DEF PollLogs, hyliVars, listenerVars, moduleVars
    <1>2. TipInv' BY <1>1, ChainFacts DEF ReaderInv, TipInv, Shown
    <1>3. ASSUME NEW i \in DOMAIN ledger, i + 1 < tip + 1 PROVE ledger[i].tx \in indexed'
        <2>1. CASE i + 1 < cursor BY <1>1, <2>1 DEF ReaderInv, IndexerMissesNothing
        <2>2. CASE cursor <= i + 1
            <3>1. tip <= Len(told) + 1 BY <1>1, TipReached DEF ReaderInv
            <3>2. i \in Nat /\ i < tip /\ i \in DOMAIN told /\ ledger[i] = told[i]
                BY <1>3, <3>1, ChainFacts
            <3>3. told[i].tx \in LogsOf(settled, cursor, tip)
                BY <2>2, <3>2, ChainFacts, LogsServed
            <3> QED BY <1>1, <3>2, <3>3
        <2> QED BY <2>1, <2>2, ChainFacts
    <1>4. IndexerMissesNothing' BY <1>1, <1>3 DEF IndexerMissesNothing
    <1> QED BY <1>1, <1>2, <1>4 DEF ReaderInv

\* of Hyli, whose successes only add to the ledger,
LEMMA HyliReader ==
    ASSUME CanonicalInv, ReaderInv, NEW t \in Txs,
           HyliSequences(t) \/ HyliSettlesSuccess(t) \/ HyliSettlesFailed(t)
    PROVE  ReaderInv' /\ tip' = tip
    <1>1. /\ UNCHANGED <<tip, cursor, indexed, heard, catchingUp, backlog>>
          /\ status[t] # "success"
        BY DEF HyliSequences, HyliSettlesSuccess, HyliSettlesFailed, NextToSettle, clientVars,
               listenerVars, moduleVars
    <1>2. \A u \in Txs : status[u] = "success" =>
            status'[u] = "success" /\ commitment'[u] = commitment[u]
        <2>1. /\ status \in [Txs -> {"unknown", "sequenced"} \cup Settled]
              /\ commitment \in [Txs -> Accounts \cup {NoCommitment}]
            BY DEF CanonicalInv, TrackingInv, SystemInv, SystemTypes
        <2> QED BY <1>1, <2>1 DEF HyliSequences, HyliSettlesSuccess, HyliSettlesFailed
    <1>3. TipInv' BY <1>1, <1>2 DEF ReaderInv, TipInv, Shown
    <1>4. CASE ledger' = ledger BY <1>1, <1>3, <1>4 DEF ReaderInv, IndexerMissesNothing
    <1>5. CASE ledger' = ledger \o Marks(Blobs[t])
        <2> SUFFICES ASSUME NEW i \in DOMAIN ledger', i + 1 < cursor
                     PROVE  ledger'[i].tx \in indexed
            BY <1>1, <1>3 DEF ReaderInv, IndexerMissesNothing
        <2>1. DOMAIN ledger' \subseteq Nat /\ \A j \in 1..Len(ledger) : ledger'[j] = ledger[j]
            BY <1>5, BlobsType, ChainFacts, ExtendedChain
        <2>2. tip <= Len(ledger) + 1
            BY ChainFacts DEF ReaderInv, TipInv, Shown
        <2>3. i \in DOMAIN ledger \/ i = 0
            BY <2>1, <2>2, ChainFacts DEF ReaderInv, TipInv
        <2>4. i # 0 BY <1>5, BlobsType, ChainFacts, ExtendedChain
        <2> QED BY <2>1, <2>3, <2>4, ChainFacts DEF ReaderInv, IndexerMissesNothing
    <1>6. ledger' = ledger \/ ledger' = ledger \o Marks(Blobs[t])
        BY DEF HyliSequences, HyliSettlesSuccess, HyliSettlesFailed
    <1> QED BY <1>1, <1>3, <1>4, <1>5, <1>6 DEF ReaderInv

\* and of the server, which answers again only when it has caught up.
LEMMA ServerReader ==
    ASSUME CanonicalInv, ReaderInv,
           \/ \E t \in Txs : ReportSequenced(t) \/ ReportSuccess(t) \/ ReportFailed(t)
           \/ \E t \in Txs : Submit(t) \/ Record(t)
           \/ EndBackfill \/ Replay \/ ServerRestart \/ UNCHANGED vars
    PROVE  ReaderInv' /\ tip' = tip
    <1>1. UNCHANGED <<tip, cursor, indexed, ledger, status, commitment, order>>
        BY DEF ReportSequenced, ReportSuccess, ReportFailed, Submit, Record, EndBackfill, Replay,
               ServerRestart, hyliVars, clientVars, vars
    <1>2. IndexerMissesNothing' BY <1>1 DEF ReaderInv, IndexerMissesNothing
    <1>3. ASSUME NEW u \in Txs, Shown(u) PROVE Shown(u)'
        <2>1. status[u] = "success" /\ (heard[u] = "settled" \/ heard[u] = "nothing")
            BY <1>3 DEF Shown
        <2>2. CASE \E t \in Txs : ReportSequenced(t)
            <3>1. PICK t \in Txs : ReportSequenced(t) BY <2>2
            <3>2. /\ heard' = [heard EXCEPT ![t] = "sequenced"] /\ heard[t] = "nothing"
                  /\ UNCHANGED <<catchingUp, backlog>>
                  /\ catchingUp => status[t] = "sequenced"
                BY <3>1 DEF ReportSequenced, SequencedCatchingUp, SequencedLive,
                            SequencedUnprovable, HearSequenced, Hear, listenerVars
            <3>3. heard'[u] = IF u = t THEN "sequenced" ELSE heard[u]
                BY <3>2, TrackingFacts DEF CanonicalInv
            <3>4. u # t BY <1>3, <2>1, <3>2 DEF Shown
            <3> QED BY <1>1, <1>3, <3>2, <3>3, <3>4 DEF Shown
        <2>3. CASE \E t \in Txs : ReportSuccess(t) \/ ReportFailed(t)
            <3>1. PICK t \in Txs : ReportSuccess(t) \/ ReportFailed(t) BY <2>3
            <3>2. /\ catchingUp' = catchingUp
                  /\ \A v \in Txs : heard'[v] = IF v = t THEN "settled" ELSE heard[v]
                BY <3>1, SettledFacts DEF CanonicalInv
            <3>3. backlog' = backlog BY <3>1 DEF ReportSuccess, ReportFailed, listenerVars
            <3> QED BY <1>1, <1>3, <3>2, <3>3 DEF Shown
        <2>4. CASE (\E t \in Txs : Submit(t) \/ Record(t)) \/ Replay \/ UNCHANGED vars
            <3>1. UNCHANGED <<heard, catchingUp, backlog>>
                BY <2>4 DEF Submit, SendRawTransaction, Record, RecordSubmission, Replay, ReplayTx,
                            listenerVars, vars, moduleVars
            <3> QED BY <1>1, <1>3, <3>1 DEF Shown
        <2>5. CASE EndBackfill
            <3>1. heard' = heard /\ \A t \in backlog : heard[t] # "nothing"
                BY <2>5 DEF EndBackfill, BackfillComplete
            <3> QED BY <1>1, <1>3, <3>1 DEF Shown
        <2>6. CASE ServerRestart
            <3>1. u \in ToSet(order)
                BY <2>1, TrackingFacts DEF CanonicalInv, OrderInv
            <3>2. catchingUp' /\ backlog' = ToSet(order) /\ heard'[u] = "nothing"
                BY <2>6 DEF ServerRestart, Restart
            <3> QED BY <1>1, <1>3, <3>1, <3>2 DEF Shown
        <2> QED BY <2>2, <2>3, <2>4, <2>5, <2>6
    <1>4. TipInv' BY <1>1, <1>3 DEF ReaderInv, TipInv
    <1> QED BY <1>1, <1>2, <1>4 DEF ReaderInv

\* Every step keeps what the indexer relies on, and the block number.
LEMMA ReaderStep ==
    ASSUME CanonicalInv, NeverSkips, ReaderInv, [Next]_vars
    PROVE  ReaderInv' /\ [tip' >= tip]_vars
    <1>1. tip \in Nat BY ChainFacts
    <1>2. CASE PollTip BY <1>2, PollTipReader DEF NeverSkips
    <1>3. ReaderInv' /\ (tip' = tip \/ tip' >= tip)
        BY <1>2, PollLogsReader, HyliReader, ServerReader DEF Next, NeverSkips
    <1> QED BY <1>1, <1>3

\* Nothing was indexed, nor asked for, when everything starts.
LEMMA InitReader == Init => ReaderInv
    BY EmptySeq DEF Init, ReaderInv, TipInv, IndexerMissesNothing

\* When the server is the only prover: an indexer that follows the block number and asks for
\* each block once misses no log, across rollbacks and restarts of the server,
THEOREM IndexerFollows ==
    ASSUME ~OtherProvers
    PROVE  Spec => []IndexerMissesNothing
    <1>1. ReaderInv => IndexerMissesNothing BY DEF ReaderInv
    <1> QED BY <1>1, InitReader, ReaderStep, SpeculationInvariant, NeverSkipsAlone, PTL DEF Spec

\* and the block number never goes back.
THEOREM TipMonotonic ==
    ASSUME ~OtherProvers
    PROVE  Spec => TipNeverDecreases
    BY InitReader, ReaderStep, SpeculationInvariant, NeverSkipsAlone, PTL
    DEF Spec, TipNeverDecreases

-----------------------------------------------------------------------------
\* The abstract chain, when the server is the only prover: the refinement mapping takes the
\* transactions that succeeded for the log.

Log == Kept(order, {t \in Txs : status[t] = "success"})

\* The account map after the first m transactions of seq.
Executed(seq, m) == FlattenSeq([i \in 1..m |-> ExecutionOf(seq[i])])

\* Hyli's order is one, and the log is what succeeded, in that order.
LEMMA LogFacts ==
    ASSUME OrderInv
    PROVE  /\ Distinct(order) /\ order \in Seq(Txs) /\ Sorted(order)
           /\ Log \in Seq(Txs) /\ Sorted(Log) /\ ToSet(Log) = {t \in Txs : status[t] = "success"}
    <1>1. Distinct(order) /\ order \in Seq(Txs) BY DEF OrderInv, Distinct
    <1>2. Sorted(order) BY BeforeIs DEF Sorted
    <1>3. {t \in Txs : status[t] = "success"} \subseteq ToSet(order) BY DEF OrderInv
    <1>4. PICK S : S = {t \in Txs : status[t] = "success"} OBVIOUS
    <1>5. ToSet(order) \cap S = S BY <1>3, <1>4
    <1>6. Log = Kept(order, S) BY <1>4 DEF Log
    <1>7. Log \in Seq(Txs) /\ Sorted(Log) /\ ToSet(Log) = S
        BY <1>1, <1>2, <1>5, <1>6, KeptSorted
    <1> QED BY <1>1, <1>2, <1>4, <1>7

\* Executing adds one transaction at a time.
LEMMA ExecutedSteps ==
    ASSUME NEW seq \in Seq(Txs)
    PROVE  /\ Executed(seq, 0) = <<>>
           /\ \A m \in 1..Len(seq) : Executed(seq, m) = Executed(seq, m - 1) \o Marks(Blobs[seq[m]])
    <1>1. PICK n : n = Len(seq) OBVIOUS
    <1>2. n \in Nat /\ \A i \in 1..n : seq[i] \in Txs BY <1>1, LenProperties, ElementOfSeq
    <1>3. PICK f : f = [i \in 1..n |-> Marks(Blobs[seq[i]])] OBVIOUS
    <1>4. f \in [1..n -> Seq(Mark)]
        <2>1. \A i \in 1..n : Marks(Blobs[seq[i]]) \in Seq(Mark) BY <1>2, BlobsType, MarksType
        <2> QED BY <1>3, <2>1
    <1>5. PICK T : T = Seq(Mark) OBVIOUS
    <1>6. PICK op : op = [p \in T \X (1..n) |-> p[1] \o f[p[2]]] OBVIOUS
    <1>7. PICK g \in [0..n -> T] : g[0] = <<>> /\ \A i \in 1..n : g[i] = op[<<g[i - 1], i>>]
        <2>1. op \in [T \X (1..n) -> T]
            <3> SUFFICES ASSUME NEW p \in T \X (1..n) PROVE p[1] \o f[p[2]] \in T
                BY <1>6
            <3>1. p[1] \in Seq(Mark) /\ f[p[2]] \in Seq(Mark) BY <1>4, <1>5
            <3> QED BY <1>5, <3>1, ConcatProperties
        <2>2. PICK a : a = <<>> OBVIOUS
        <2>3. a \in T BY <1>5, <2>2, EmptySeq
        <2>4. HasFold(T, a, n, op) BY ONLY <1>2, <2>1, <2>3, FoldExists
        <2> QED BY <2>2, <2>4 DEF HasFold
    <1>8. ASSUME NEW i \in 1..n PROVE i - 1 \in 0..n /\ g[i] = g[i - 1] \o f[i]
        <2>1. i - 1 \in 0..n BY <1>2
        <2>2. op[<<g[i - 1], i>>] = g[i - 1] \o f[i] BY <1>6, <2>1
        <2> QED BY <1>7, <2>1, <2>2
    <1>9. ASSUME NEW m \in 0..n PROVE Executed(seq, m) = g[m]
        <2>1. PICK d : d = [i \in 1..m |-> Marks(Blobs[seq[i]])] OBVIOUS
        <2>2. m \in Nat /\ \A i \in 1..m : i \in 1..n BY <1>2
        <2>3. d \in [1..m -> Seq(Mark)] /\ \A i \in 1..m : d[i] = f[i] BY <1>3, <1>4, <2>1, <2>2
        <2>4. PICK k : k = [i \in 0..m |-> g[i]] OBVIOUS
        <2>5. \A i \in 0..m : i \in 0..n BY <1>2
        <2>6. k \in [0..m -> Seq(Mark)] /\ k[0] = <<>> /\ k[m] = g[m]
            <3>1. 0 \in 0..m /\ m \in 0..m BY <2>2
            <3>2. \A i \in 0..m : g[i] \in Seq(Mark) BY ONLY <1>5, <1>7, <2>5
            <3>3. k \in [0..m -> Seq(Mark)] BY ONLY <2>4, <3>2
            <3>4. k[0] = g[0] /\ k[m] = g[m] BY ONLY <2>4, <3>1
            <3> QED BY <1>7, <3>3, <3>4
        <2>7. \A i \in 1..m : k[i] = k[i - 1] \o d[i]
            <3> TAKE i \in 1..m
            <3>1. i \in 0..m /\ i - 1 \in 0..m /\ i \in 1..n BY <2>2
            <3>2. k[i] = g[i] /\ k[i - 1] = g[i - 1] /\ d[i] = f[i] BY <2>3, <2>4, <3>1
            <3> QED BY <1>8, <3>1, <3>2
        <2>8. FlattenSeq(d) = k[m] BY ONLY <2>2, <2>3, <2>6, <2>7, FlattenSteps, ZenonT(60)
        <2> QED BY <2>1, <2>6, <2>8 DEF Executed, ExecutionOf
    <1>10. 0 \in 0..n BY <1>2
    <1>11. ASSUME NEW m \in 1..n PROVE Executed(seq, m) = Executed(seq, m - 1) \o Marks(Blobs[seq[m]])
        <2>1. m \in 0..n /\ m - 1 \in 0..n BY <1>2
        <2>2. f[m] = Marks(Blobs[seq[m]]) BY <1>3
        <2> QED BY <1>8, <1>9, <2>1, <2>2
    <1> QED BY <1>1, <1>7, <1>9, <1>10, <1>11

\* The commitment of each transaction of the log is the execution up to it, and that of what
\* came before it the execution before it.
LEMMA LogCommitments ==
    ASSUME NodeInv, NEW seq, seq = Log, NEW n, n = Len(seq)
    PROVE  /\ n \in Nat
           /\ \A i \in 1..n : commitment[seq[i]] = Executed(seq, i)
           /\ \A i \in 1..n : \A c : TipOf(Before(seq[i]), c) => c = Executed(seq, i - 1)
    <1>1. /\ Distinct(order) /\ seq \in Seq(Txs) /\ Sorted(seq) /\ LedgerInv
          /\ ToSet(seq) = {t \in Txs : status[t] = "success"}
        BY LogFacts DEF NodeInv
    <1>2. n \in Nat /\ DOMAIN seq = 1..n BY <1>1, LenProperties
    <1>3. \A i \in 1..n : seq[i] \in Txs /\ status[seq[i]] = "success" BY <1>1, <1>2 DEF ToSet
    <1>4. /\ Executed(seq, 0) = <<>>
          /\ \A m \in 1..n : Executed(seq, m) = Executed(seq, m - 1) \o Marks(Blobs[seq[m]])
        BY <1>1, ExecutedSteps
    <1>5. /\ \A x : x \notin Before(x)
          /\ \A x, y : x \in Before(y) => y \notin Before(x) /\ x \in Txs
        BY <1>1, BeforeOrder
    <1>6. ASSUME NEW i \in 1..n, NEW v \in Before(seq[i]), status[v] = "success"
          PROVE  \E j \in 1..n : j < i /\ v = seq[j]
        <2>1. v \in ToSet(seq) BY <1>1, <1>5, <1>6
        <2>2. PICK j \in 1..n : v = seq[j] BY <1>2, <2>1 DEF ToSet
        <2>3. j # i BY <1>5, <1>6, <2>2
        <2>4. ~ (i < j)
            <3> SUFFICES ASSUME i < j PROVE FALSE OBVIOUS
            <3>1. seq[i] \in Before(v) BY <1>1, <1>2, <2>2 DEF Sorted
            <3> QED BY <1>5, <1>6, <3>1
        <2>5. j < i BY <1>2, <2>3, <2>4
        <2> QED BY <2>2, <2>5
    <1> DEFINE Good(i) == commitment[seq[i]] = Executed(seq, i)
               P == {0} \cup {i \in 1..n : Good(i)}
    <1>7. ASSUME NEW i \in 1..n, i - 1 \in P PROVE TipOf(Before(seq[i]), Executed(seq, i - 1))
        <2>1. CASE i = 1
            <3>1. \A v \in Before(seq[i]) : status[v] # "success"
                <4> SUFFICES ASSUME NEW v \in Before(seq[i]), status[v] = "success" PROVE FALSE
                    OBVIOUS
                <4>1. PICK j \in 1..n : j < i BY <1>6
                <4> QED BY <2>1, <4>1
            <3>2. i - 1 = 0 BY <2>1
            <3>3. Executed(seq, i - 1) = <<>> BY <1>4, <3>2
            <3>4. {u \in Before(seq[i]) : status[u] = "success"} = {} BY <3>1
            <3> QED BY <3>3, <3>4 DEF TipOf
        <2>2. CASE i # 1
            <3>1. i - 1 \in 1..n /\ i - 1 < i BY <1>2, <2>2
            <3>2. PICK x : x = seq[i - 1] OBVIOUS
            <3>3. x \in Before(seq[i]) /\ status[x] = "success"
                BY <1>1, <1>2, <1>3, <3>1, <3>2 DEF Sorted
            <3>4. commitment[x] = Executed(seq, i - 1)
                <4>1. i - 1 # 0 BY <3>1
                <4> QED BY <1>7, <3>2, <4>1
            <3>5. ASSUME NEW v \in Before(seq[i]), status[v] = "success"
                  PROVE  v = x \/ v \in Before(x)
                <4>1. PICK j \in 1..n : j < i /\ v = seq[j] BY <1>6, <3>5
                <4>2. j = i - 1 \/ j < i - 1 BY <1>2, <4>1
                <4> QED BY <1>1, <1>2, <3>1, <3>2, <4>1, <4>2 DEF Sorted
            <3> QED BY <3>3, <3>4, <3>5 DEF TipOf
        <2> QED BY <2>1, <2>2
    <1>8. ASSUME NEW i \in 1..n, i - 1 \in P PROVE Good(i)
        <2>1. PICK t, d : t = seq[i] /\ d = Executed(seq, i - 1) OBVIOUS
        <2>2. TipOf(Before(t), d) BY <1>7, <1>8, <2>1
        <2>3. t \in Txs /\ status[t] = "success" BY <1>3, <2>1
        <2>4. PICK c : TipOf(Before(t), c) /\ commitment[t] = c \o Marks(Blobs[t])
            BY <1>1, <2>3 DEF LedgerInv
        <2>5. c = d BY <1>1, <2>2, <2>4, TipUnique
        <2>6. Executed(seq, i) = d \o Marks(Blobs[t]) BY <1>4, <2>1
        <2> QED BY <2>1, <2>4, <2>5, <2>6
    <1> HIDE DEF Good
    <1>9. 0..n \subseteq P
        <2>1. 0 \in P OBVIOUS
        <2>2. \A i \in 1..n : i - 1 \in P => i \in P BY <1>8
        <2> HIDE DEF P
        <2> QED BY <1>2, <2>1, <2>2, CountUp
    <1>10. ASSUME NEW i \in 1..n PROVE i \in P /\ i - 1 \in P /\ i # 0
        <2>1. i \in 0..n /\ i - 1 \in 0..n /\ i # 0 BY <1>2
        <2> HIDE DEF P
        <2> QED BY <1>9, <2>1
    <1>11. \A i \in 1..n : commitment[seq[i]] = Executed(seq, i) BY <1>10 DEF Good
    <1>12. ASSUME NEW i \in 1..n, NEW c, TipOf(Before(seq[i]), c) PROVE c = Executed(seq, i - 1)
        <2>1. PICK d : d = Executed(seq, i - 1) OBVIOUS
        <2>2. TipOf(Before(seq[i]), d) BY <1>7, <1>10, <2>1
        <2> QED BY <1>1, <1>12, <2>1, <2>2, TipUnique
    <1> QED BY <1>2, <1>11, <1>12

\* The log changes with what succeeds, and with nothing else.
LEMMA LogSame ==
    ASSUME order' = order, \A t \in Txs : status'[t] = "success" <=> status[t] = "success"
    PROVE  Log' = Log
    <1>1. {t \in Txs : status'[t] = "success"} = {t \in Txs : status[t] = "success"} OBVIOUS
    <1> QED BY <1>1 DEF Log

\* What Hyli only sequences is not in it.
LEMMA LogSequenced ==
    ASSUME OrderInv, SystemInv, NEW t \in Txs, HyliSequences(t)
    PROVE  Log' = Log
    <1>1. order \in Seq(Txs) /\ order' = Append(order, t) BY LogFacts DEF HyliSequences
    <1>2. \A u \in Txs : status'[u] = IF u = t THEN "sequenced" ELSE status[u]
        BY DEF HyliSequences, SystemInv, SystemTypes
    <1>3. status[t] = "unknown" BY DEF HyliSequences
    <1>4. PICK S : S = {u \in Txs : status[u] = "success"} OBVIOUS
    <1>5. {u \in Txs : status'[u] = "success"} = S /\ t \notin S BY <1>2, <1>3, <1>4
    <1>6. Log = Kept(order, S) BY <1>4 DEF Log
    <1>7. Log' = Kept(Append(order, t), S) BY <1>1, <1>5 DEF Log
    <1>8. Kept(Append(order, t), S) = Kept(order, S) BY <1>1, <1>5, KeptAppend
    <1> QED BY <1>6, <1>7, <1>8

\* What succeeds comes last in it.
LEMMA LogSucceeds ==
    ASSUME NodeInv, SystemInv, NEW t \in Txs, HyliSettlesSuccess(t)
    PROVE  t \notin ToSet(Log) /\ Log' = Append(Log, t)
    <1>1. OrderInv /\ NextToSettle(t) /\ order' = order /\ status[t] = "sequenced"
        BY DEF NodeInv, HyliSettlesSuccess, NextToSettle
    <1>2. \A u \in Txs : status'[u] = IF u = t THEN "success" ELSE status[u]
        BY DEF HyliSettlesSuccess, SystemInv, SystemTypes
    <1>3. PICK S : S = {u \in Txs : status[u] = "success"} OBVIOUS
    <1>4. {u \in Txs : status'[u] = "success"} = S \cup {t} /\ t \notin S BY <1>1, <1>2, <1>3
    <1>5. PICK s : s = Log OBVIOUS
    <1>6. /\ Distinct(order) /\ order \in Seq(Txs) /\ Sorted(order)
          /\ s \in Seq(Txs) /\ Sorted(s) /\ ToSet(s) = S
        BY <1>1, <1>3, <1>5, LogFacts
    <1>7. ToSet(s) \subseteq Before(t)
        <2>1. HyliSettled = Before(t) BY <1>1, SettledIsBefore
        <2> QED BY <1>3, <1>6, <2>1 DEF HyliSettled, Settled
    <1>8. Sorted(Append(s, t)) BY <1>6, <1>7, SortedAppend
    <1>9. ToSet(Append(s, t)) = S \cup {t} /\ Append(s, t) \in Seq(Txs)
        BY <1>6, AppendToSet, AppendProperties
    <1>10. PICK u : u = Kept(order, S \cup {t}) OBVIOUS
    <1>11. /\ u \in Seq(Txs) /\ Sorted(u) /\ ToSet(u) = ToSet(order) \cap (S \cup {t})
        BY <1>6, <1>10, KeptSorted
    <1>12. S \cup {t} \subseteq ToSet(order) BY <1>1, <1>3 DEF OrderInv
    <1>13. u = Append(s, t) BY <1>6, <1>8, <1>9, <1>11, <1>12, SortedUnique
    <1>14. Log' = u BY <1>1, <1>4, <1>10 DEF Log
    <1> QED BY <1>4, <1>5, <1>6, <1>13, <1>14

\* A success that is reported is the next of the log.
LEMMA ReportAdvances ==
    ASSUME CanonicalInv, NEW t \in Txs, ReportSuccess(t)
    PROVE  \E n \in 0..(Len(Log) - 1) : told = Executed(Log, n) /\ told' = Executed(Log, n + 1)
    <1>1. /\ TrackingInv /\ NodeInv /\ ListenerInv BY TrackingFacts DEF CanonicalInv, TrackingInv
    <1>2. status[t] = "success" /\ told' = commitment[t] BY DEF ReportSuccess
    <1>3. TipOf(Before(t), told) BY <1>1, SettledFacts DEF ListenerInv
    <1>4. PICK seq, n : seq = Log /\ n = Len(seq) OBVIOUS
    <1>5. /\ n \in Nat
          /\ \A i \in 1..n : commitment[seq[i]] = Executed(seq, i)
          /\ \A i \in 1..n : \A c : TipOf(Before(seq[i]), c) => c = Executed(seq, i - 1)
        BY <1>1, <1>4, LogCommitments
    <1>6. seq \in Seq(Txs) /\ t \in ToSet(seq) BY <1>1, <1>2, <1>4, LogFacts DEF NodeInv
    <1>7. PICK i \in 1..n : t = seq[i] BY <1>4, <1>6, LenProperties DEF ToSet
    <1>8. told' = Executed(seq, i) /\ told = Executed(seq, i - 1) BY <1>2, <1>3, <1>5, <1>7
    <1>9. PICK m : m = i - 1 OBVIOUS
    <1>10. m \in 0..(n - 1) /\ m + 1 = i BY <1>5, <1>9
    <1> QED BY <1>4, <1>8, <1>9, <1>10

\* What a step of the system is to the abstract chain: a transaction commits, the next one of
\* the log settles, the interface opens, everything is taken back behind a closed interface, or
\* nothing happens.
LedgerMoves(accounts, accounts2) ==
    \/ /\ \E t \in Txs : t \notin ToSet(Log) /\ Log' = Append(Log, t)
       /\ accounts2 = accounts /\ isReady' = isReady
    \/ /\ \E n \in 0..(Len(Log) - 1) :
            accounts = Executed(Log, n) /\ accounts2 = Executed(Log, n + 1)
       /\ Log' = Log /\ isReady' = isReady
    \/ isReady' = TRUE /\ Log' = Log /\ accounts2 = accounts
    \/ accounts2 = <<>> /\ isReady' = FALSE /\ Log' = Log
    \/ Log' = Log /\ accounts2 = accounts /\ isReady' = isReady

LEMMA SystemSteps ==
    ASSUME CanonicalInv, CanonicalInv', ~skipped, ~skipped', [Next]_vars
    PROVE  LedgerMoves(settled.accounts, settled'.accounts)
    <1> PICK accounts, accounts2 : accounts = settled.accounts /\ accounts2 = settled'.accounts
        OBVIOUS
    <1> SUFFICES LedgerMoves(accounts, accounts2) OBVIOUS
    <1> USE DEF LedgerMoves
    <1>1. accounts = told BY SettledFactsCanonical DEF Canonical
    <1>2. accounts2 = told'
        <2>1. Canonical(settled, told)' BY DEF CanonicalInv, SpeculationInv
        <2> QED BY <2>1 DEF Canonical
    <1>3. NodeInv /\ OrderInv /\ SystemInv BY DEF CanonicalInv, TrackingInv, NodeInv
    <1>4. CASE \E t \in Txs : HyliSequences(t)
        <2>1. told' = told /\ isReady' = isReady
            BY <1>4 DEF HyliSequences, moduleVars, listenerVars
        <2>2. Log' = Log BY <1>3, <1>4, LogSequenced
        <2> QED BY <1>1, <1>2, <2>1, <2>2
    <1>5. CASE \E t \in Txs : HyliSettlesSuccess(t)
        <2>1. told' = told /\ isReady' = isReady
            BY <1>5 DEF HyliSettlesSuccess, moduleVars, listenerVars
        <2>2. \E t \in Txs : t \notin ToSet(Log) /\ Log' = Append(Log, t)
            BY <1>3, <1>5, LogSucceeds
        <2> QED BY <1>1, <1>2, <2>1, <2>2
    <1>6. CASE \E t \in Txs : HyliSettlesFailed(t)
        <2>1. PICK t \in Txs : HyliSettlesFailed(t) BY <1>6
        <2>2. told' = told /\ isReady' = isReady
            BY <2>1 DEF HyliSettlesFailed, moduleVars, listenerVars
        <2>3. status[t] = "sequenced" BY <2>1 DEF HyliSettlesFailed, NextToSettle
        <2>4. \A u \in Txs : status'[u] = IF u = t THEN "failed" ELSE status[u]
            BY <1>3, <2>1 DEF HyliSettlesFailed, SystemInv, SystemTypes
        <2>5. order' = order BY <2>1 DEF HyliSettlesFailed
        <2>6. Log' = Log BY <2>3, <2>4, <2>5, LogSame
        <2> QED BY <1>1, <1>2, <2>2, <2>6
    <1>7. CASE \E t \in Txs : ReportSuccess(t)
        <2>1. PICK t \in Txs : ReportSuccess(t) BY <1>7
        <2>2. isReady' = isReady BY <2>1, SettledFacts DEF CanonicalInv
        <2>3. \E n \in 0..(Len(Log) - 1) : told = Executed(Log, n) /\ told' = Executed(Log, n + 1)
            BY <2>1, ReportAdvances
        <2>4. UNCHANGED <<order, status>> BY <2>1 DEF ReportSuccess, hyliVars
        <2>5. Log' = Log BY <2>4, LogSame
        <2> QED BY <1>1, <1>2, <2>2, <2>3, <2>5
    <1>8. CASE EndBackfill
        <2>1. told' = told /\ isReady' = TRUE /\ UNCHANGED <<order, status>>
            BY <1>8 DEF EndBackfill, BackfillComplete, hyliVars, listenerVars
        <2>2. Log' = Log BY <2>1, LogSame
        <2> QED BY <1>1, <1>2, <2>1, <2>2
    <1>9. CASE ServerRestart
        <2>1. told' = <<>> /\ isReady' = FALSE /\ UNCHANGED <<order, status>>
            BY <1>9 DEF ServerRestart, Restart, hyliVars
        <2>2. Log' = Log BY <2>1, LogSame
        <2> QED BY <1>2, <2>1, <2>2
    <1>10. CASE \E t \in Txs : ReportFailed(t)
        <2>1. PICK t \in Txs : ReportFailed(t) BY <1>10
        <2>2. isReady' = isReady BY <2>1, SettledFacts DEF CanonicalInv
        <2>3. told' = told /\ UNCHANGED <<order, status>>
            BY <2>1 DEF ReportFailed, hyliVars, listenerVars
        <2>4. Log' = Log BY <2>3, LogSame
        <2> QED BY <1>1, <1>2, <2>2, <2>3, <2>4
    <1>11. CASE UNCHANGED <<told, isReady, order, status>>
        <2>1. Log' = Log BY <1>11, LogSame
        <2> QED BY <1>1, <1>2, <1>11, <2>1
    <1>12. CASE \E t \in Txs : ReportSequenced(t) \/ Submit(t) \/ Record(t)
        <2>1. UNCHANGED <<told, isReady, order, status>>
            BY <1>12 DEF ReportSequenced, SequencedCatchingUp, SequencedLive, SequencedUnprovable,
                   Submit, SendRawTransaction, Record, RecordSubmission, hyliVars, listenerVars
        <2> QED BY <1>11, <2>1
    <1>13. CASE Replay \/ PollTip \/ PollLogs \/ UNCHANGED vars
        <2>1. UNCHANGED <<told, isReady, order, status>>
            BY <1>13 DEF Replay, ReplayTx, PollTip, PollLogs, vars, moduleVars, hyliVars,
                   listenerVars
        <2> QED BY <1>11, <2>1
    <1>14. Next \/ UNCHANGED vars OBVIOUS
    <1> QED BY <1>4, <1>5, <1>6, <1>7, <1>8, <1>9, <1>10, <1>12, <1>13, <1>14 DEF Next

\* What the abstract chain takes from the library is what the system takes.
LEMMA LedgerOperators ==
    /\ \A s : Ledger!ToSet(s) = ToSet(s)
    /\ \A s : Ledger!FlattenSeq(s) = FlattenSeq(s)
    /\ \A n : Ledger!Execution(n) = Executed(Log, n)
    <1>1. \A s : Ledger!ToSet(s) = ToSet(s) BY DEF Ledger!ToSet, ToSet
    <1>2. \A s : Ledger!FlattenSeq(s) = FlattenSeq(s) BY DEF Ledger!FlattenSeq, FlattenSeq
    <1>3. ASSUME NEW n PROVE Ledger!Execution(n) = Executed(Log, n)
        <2>1. PICK f : f = [i \in 1..n |-> ExecutionOf(Log[i])] OBVIOUS
        <2>2. Ledger!Execution(n) = Ledger!FlattenSeq(f) BY <2>1 DEF Ledger!Execution, Log
        <2>3. Executed(Log, n) = FlattenSeq(f) BY <2>1 DEF Executed
        <2> QED BY <1>2, <2>2, <2>3
    <1> QED BY <1>1, <1>2, <1>3

\* Each of these is a step of the abstract chain, or none.
LEMMA LedgerStep ==
    ASSUME CanonicalInv, CanonicalInv', NeverSkips, NeverSkips', [Next]_vars
    PROVE  [Ledger!LedgerNext]_(Ledger!ledgerVars)
    <1>1. PICK accounts, accounts2 : accounts = settled.accounts /\ accounts2 = settled'.accounts
        OBVIOUS
    <1>2. ~skipped /\ ~skipped' BY DEF NeverSkips
    <1>3. CASE /\ \E t \in Txs : t \notin ToSet(Log) /\ Log' = Append(Log, t)
               /\ accounts2 = accounts /\ isReady' = isReady
        <2>1. PICK t \in Txs : t \notin ToSet(Log) /\ Log' = Append(Log, t) BY <1>3
        <2>2. UNCHANGED <<settled.accounts, isReady>> BY <1>1, <1>3
        <2>3. Ledger!Commit(t) BY ONLY <2>1, <2>2, LedgerOperators DEF Ledger!Commit, Log
        <2>4. \E u \in Txs : Ledger!Commit(u) BY <2>3
        <2> QED BY <2>4 DEF Ledger!LedgerNext
    <1>4. CASE /\ \E n \in 0..(Len(Log) - 1) :
                    accounts = Executed(Log, n) /\ accounts2 = Executed(Log, n + 1)
               /\ Log' = Log /\ isReady' = isReady
        <2>1. PICK n \in 0..(Len(Log) - 1) :
                    accounts = Executed(Log, n) /\ accounts2 = Executed(Log, n + 1)
            BY <1>4
        <2>2. Ledger!Execution(n) = Executed(Log, n) /\ Ledger!Execution(n + 1) = Executed(Log, n + 1)
            BY LedgerOperators
        <2>3. Ledger!Execution(n + 1)' = Ledger!Execution(n + 1)
            BY <1>4 DEF Ledger!Execution, Log
        <2>5. settled.accounts = Ledger!Execution(n) /\ settled'.accounts = Ledger!Execution(n + 1)
            BY <1>1, <2>1, <2>2
        <2>6. UNCHANGED <<Log, isReady>> BY <1>4
        <2>7. Ledger!Settle BY ONLY <2>1, <2>5, <2>6 DEF Ledger!Settle, Log
        <2> QED BY <2>7 DEF Ledger!LedgerNext
    <1>5. CASE isReady' = TRUE /\ Log' = Log /\ accounts2 = accounts
        <2>1. Ledger!Open BY <1>1, <1>5 DEF Ledger!Open, Log
        <2> QED BY <2>1 DEF Ledger!LedgerNext
    <1>6. CASE accounts2 = <<>> /\ isReady' = FALSE /\ Log' = Log
        <2>1. Ledger!Crash BY <1>1, <1>6 DEF Ledger!Crash, Log
        <2> QED BY <2>1 DEF Ledger!LedgerNext
    <1>7. CASE Log' = Log /\ accounts2 = accounts /\ isReady' = isReady
        BY <1>1, <1>7 DEF Ledger!ledgerVars, Log
    <1>8. LedgerMoves(accounts, accounts2) BY <1>1, <1>2, SystemSteps
    <1> QED BY ONLY <1>3, <1>4, <1>5, <1>6, <1>7, <1>8 DEF LedgerMoves

\* ImplementsLedger (see EvmLedger and RethSystem): what the server's clients read is, at all
\* times, the execution of whole transactions that succeeded on Hyli, in Hyli's order, none twice
\* and none left out, and it only moves forward while the interface is open.
THEOREM LedgerRefined == ASSUME ~OtherProvers PROVE Spec => ImplementsLedger
    <1>1. Init => Ledger!LedgerInit
        <2> SUFFICES ASSUME Init PROVE Ledger!LedgerInit OBVIOUS
        <2>1. order = <<>> /\ settled = Genesis /\ isReady = FALSE
            BY DEF Init, ModuleInit, Start
        <2>2. Log = <<>>
            <3>1. CanonicalInv BY InitTrackingInv, InitSpeculation DEF CanonicalInv
            <3>2. OrderInv BY <3>1 DEF CanonicalInv, TrackingInv, NodeInv
            <3>3. PICK s : s = Log OBVIOUS
            <3>4. s \in Seq(Txs) /\ ToSet(s) = {t \in Txs : status[t] = "success"}
                BY <3>2, <3>3, LogFacts
            <3>5. ToSet(s) = {} BY <3>4 DEF Init
            <3>6. s = <<>> BY <3>4, <3>5, LenProperties, EmptySeq DEF ToSet
            <3> QED BY <3>3, <3>6
        <2>3. settled.accounts = <<>> BY <2>1 DEF Genesis
        <2> QED BY <2>1, <2>2, <2>3 DEF Ledger!LedgerInit, Log
    <1>2. Spec => []NeverSkips BY NeverSkipsAlone
    <1>3. CanonicalInv /\ CanonicalInv' /\ NeverSkips /\ NeverSkips' /\ [Next]_vars
            => [Ledger!LedgerNext]_(Ledger!ledgerVars)
        BY LedgerStep
    <1> QED BY <1>1, <1>2, <1>3, SpeculationInvariant, PTL DEF Spec, ImplementsLedger, Ledger!LedgerSpec

=============================================================================
