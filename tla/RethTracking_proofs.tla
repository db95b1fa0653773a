------------------------- MODULE RethTracking_proofs -------------------------
(***************************************************************************)
(* What the server tracks against what Hyli sequenced: two invariants on   *)
(* top of those of the node and the listener.                              *)
(*                                                                         *)
(*   ChainInv: tx_chain, pending_proofs, state_history and the replay      *)
(*     under way agree on what is in flight;                               *)
(*   ProverInv: what the server gives up has a blob that nobody proves.    *)
(***************************************************************************)
EXTENDS RethViews, RethSystem_proofs

-----------------------------------------------------------------------------
\* Sequences of transactions in Hyli's order.

Sorted(seq) == \A i, j \in DOMAIN seq : i < j => seq[i] \in Before(seq[j])

\* A transaction that comes after all of them may follow.
LEMMA SortedAppend ==
    ASSUME NEW seq \in Seq(Txs), Sorted(seq), NEW t \in Txs, ToSet(seq) \subseteq Before(t)
    PROVE  Sorted(Append(seq, t))
    <1> DEFINE new == Append(seq, t)
               n == Len(seq)
    <1>1. /\ n \in Nat /\ DOMAIN seq = 1..n /\ DOMAIN new = 1..(n + 1)
          /\ \A i \in 1..n : new[i] = seq[i] /\ seq[i] \in Before(t)
          /\ new[n + 1] = t
        BY LenProperties, AppendProperties DEF ToSet
    <1> HIDE DEF new, n
    <1>2. ASSUME NEW i \in 1..(n + 1), NEW j \in 1..(n + 1), i < j
          PROVE  new[i] \in Before(new[j])
        <2>1. i \in 1..n BY <1>1, <1>2
        <2>2. CASE j \in 1..n BY <1>1, <1>2, <2>1, <2>2 DEF Sorted
        <2>3. CASE j = n + 1 BY <1>1, <2>1, <2>3
        <2> QED BY <1>1, <2>2, <2>3
    <1>3. Sorted(new) BY <1>1, <1>2 DEF Sorted
    <1> QED BY <1>3 DEF new

\* A segment is in order,
LEMMA SortedSubSeq ==
    ASSUME NEW seq \in Seq(Txs), Sorted(seq), NEW m \in 1..(Len(seq) + 1), NEW n \in 0..Len(seq)
    PROVE  Sorted(SubSeq(seq, m, n))
    <1> DEFINE new == SubSeq(seq, m, n)
    <1>1. /\ Len(seq) \in Nat /\ DOMAIN seq = 1..Len(seq)
          /\ DOMAIN new = 1..Len(new) /\ Len(new) \in Nat
          /\ \A i \in 1..Len(new) : m + i - 1 \in m..n /\ new[i] = seq[m + i - 1]
        BY LenProperties, SubSeqElements
    <1> HIDE DEF new
    <1>2. \A i \in 1..Len(new) : m + i - 1 \in DOMAIN seq BY <1>1
    <1>3. \A i, j \in 1..Len(new) : i < j => m + i - 1 < m + j - 1 BY <1>1
    <1>4. Sorted(new) BY <1>1, <1>2, <1>3 DEF Sorted
    <1> QED BY <1>4 DEF new

\* and so is what is left when one is removed.
LEMMA SortedRemoveAt ==
    ASSUME NEW seq \in Seq(Txs), Sorted(seq), NEW p \in DOMAIN seq
    PROVE  Sorted(RemoveAt(seq, p))
    <1> DEFINE new == RemoveAt(seq, p)
               l == Len(seq)
    <1>1. /\ l \in Nat /\ DOMAIN seq = 1..l /\ DOMAIN new = 1..(l - 1)
          /\ \A i \in 1..(l - 1) : new[i] = IF i < p THEN seq[i] ELSE seq[i + 1]
        BY LenProperties, RemoveAtElements
    <1> HIDE DEF new, l
    <1>2. ASSUME NEW i \in 1..(l - 1), NEW j \in 1..(l - 1), i < j
          PROVE  new[i] \in Before(new[j])
        <2>1. PICK k, m \in 1..l : new[i] = seq[k] /\ new[j] = seq[m] /\ k < m
            <3>1. CASE j < p BY <1>1, <1>2, <3>1
            <3>2. CASE ~ (j < p) /\ i < p BY <1>1, <1>2, <3>2
            <3>3. CASE ~ (i < p) BY <1>1, <1>2, <3>3
            <3> QED BY <3>1, <3>2, <3>3
        <2> QED BY <1>1, <2>1 DEF Sorted
    <1>3. Sorted(new) BY <1>1, <1>2 DEF Sorted
    <1> QED BY <1>3 DEF new

\* The first of them, and the rest.
LEMMA SortedTail ==
    ASSUME Distinct(order), NEW seq \in Seq(Txs), seq # <<>>, Sorted(seq)
    PROVE  /\ Head(seq) \in Txs /\ Head(seq) = seq[1] /\ Head(seq) \in ToSet(seq)
           /\ Tail(seq) \in Seq(Txs) /\ Sorted(Tail(seq))
           /\ ToSet(Tail(seq)) = ToSet(seq) \ {Head(seq)}
           /\ \A u \in ToSet(Tail(seq)) : Head(seq) \in Before(u)
    <1> DEFINE new == Tail(seq)
               l == Len(seq)
    <1>1. /\ l \in Nat \ {0} /\ DOMAIN seq = 1..l /\ Head(seq) = seq[1] /\ seq[1] \in Txs
          /\ new \in Seq(Txs) /\ DOMAIN new = 1..(l - 1)
          /\ \A i \in 1..(l - 1) : new[i] = seq[i + 1]
        <2>1. l \in Nat /\ DOMAIN seq = 1..l /\ l # 0 BY LenProperties, EmptySeq
        <2>2. /\ Head(seq) \in Txs /\ Head(seq) = seq[1] /\ new \in Seq(Txs)
              /\ Len(new) = l - 1 /\ \A i \in 1..Len(new) : new[i] = seq[i + 1]
            BY HeadTailProperties
        <2>3. DOMAIN new = 1..Len(new) BY <2>2, LenProperties
        <2>4. \A i \in 1..(l - 1) : new[i] = seq[i + 1] BY <2>2
        <2> QED BY <2>1, <2>2, <2>3, <2>4
    <1> HIDE DEF new, l
    <1>2. Sorted(new)
        <2>1. \A i \in 1..(l - 1) : i + 1 \in 1..l BY <1>1
        <2>2. \A i, j \in 1..(l - 1) : i < j => i + 1 < j + 1 BY <1>1
        <2> QED BY <1>1, <2>1, <2>2 DEF Sorted
    <1>3. \A i \in 1..(l - 1) : seq[1] \in Before(new[i])
        <2>1. \A i \in 1..(l - 1) : 1 \in 1..l /\ i + 1 \in 1..l /\ 1 < i + 1 BY <1>1
        <2> QED BY <1>1, <2>1 DEF Sorted
    <1>4. seq[1] \notin ToSet(new) BY <1>1, <1>3, BeforeOrder DEF ToSet
    <1>5. ToSet(seq) = ToSet(new) \cup {seq[1]}
        <2>1. ASSUME NEW x \in ToSet(seq), x # seq[1] PROVE x \in ToSet(new)
            <3>1. PICK i \in 1..l : x = seq[i] /\ i # 1 BY <1>1, <2>1 DEF ToSet
            <3>2. i - 1 \in 1..(l - 1) /\ new[i - 1] = seq[(i - 1) + 1] /\ (i - 1) + 1 = i
                BY <1>1, <3>1
            <3> QED BY <1>1, <3>1, <3>2 DEF ToSet
        <2>2. ASSUME NEW x \in ToSet(new) PROVE x \in ToSet(seq)
            <3>1. PICK i \in 1..(l - 1) : x = seq[i + 1] BY <1>1, <2>2 DEF ToSet
            <3>2. i + 1 \in 1..l BY <1>1
            <3> QED BY <1>1, <3>1, <3>2 DEF ToSet
        <2>3. 1 \in 1..l BY <1>1
        <2> QED BY <1>1, <2>1, <2>2, <2>3 DEF ToSet
    <1> QED BY <1>1, <1>2, <1>3, <1>4, <1>5, ZenonT(60) DEF ToSet, new

\* Of some transactions, one is the last.
LEMMA LastOf ==
    ASSUME Distinct(order), NEW S, S \subseteq ToSet(order), S # {}
    PROVE  \E x \in S : \A y \in S : y = x \/ y \in Before(x)
    <1>1. Len(order) \in Nat /\ DOMAIN order = 1..Len(order)
        BY LenProperties DEF Distinct
    <1> DEFINE T == {i \in 1..Len(order) : order[i] \in S}
    <1>2. \A y \in S : \E i \in T : order[i] = y BY <1>1 DEF ToSet
    <1>3. T \subseteq 0..Len(order) /\ T # {} BY <1>1, <1>2
    <1>4. PICK i \in T : \A j \in T : j <= i BY <1>1, <1>3, GreatestNat
    <1>5. ASSUME NEW y \in S PROVE y = order[i] \/ y \in Before(order[i])
        <2>1. PICK j \in T : order[j] = y BY <1>2
        <2>2. j = i \/ j < i BY <1>4
        <2> QED BY <1>1, <2>1, <2>2, BeforeIs
    <1> QED BY <1>4, <1>5

-----------------------------------------------------------------------------
\* What the server tracks.

\* tx_chain and the transactions still to replay are in Hyli's order; pending_proofs holds
\* what of tx_chain is in flight, and all of tx_chain while catching up.
TrackedInv ==
    /\ Sorted(txChain) /\ Sorted(todo)
    /\ isReady = ~catchingUp
    /\ catchingUp =>
        pendingProofs = txChain /\ todo = <<>> /\ ToSet(txChain) = HeardSequenced
    /\ ToSet(pendingProofs) = ToSet(txChain) \cap HeardSequenced
    /\ ToSet(todo) \subseteq ToSet(pendingProofs)

\* state_history has a state of everything in flight that is not to be replayed first, and
\* its positions agree with Hyli's order.
HistoryInv ==
    /\ catchingUp => DOMAIN stateHistory \subseteq HeardSettled
    /\ ~catchingUp =>
        DOMAIN stateHistory \cap HeardSequenced = ToSet(pendingProofs) \ ToSet(todo)
    /\ \A t \in DOMAIN stateHistory : heard[t] # "nothing"
    /\ \A t \in ToSet(todo), u \in DOMAIN stateHistory : u \in Before(t)
    /\ \A t, u \in DOMAIN stateHistory :
        t \in Before(u) => stateHistory[t].rank < stateHistory[u].rank

\* Only the head of tx_chain may have settled; state_history then has its state, and no
\* later one of a transaction that settled.
AnchorInv ==
    \A i \in DOMAIN txChain : heard[txChain[i]] = "settled" =>
        /\ i = 1
        /\ txChain[i] \in DOMAIN stateHistory
        /\ \A u \in DOMAIN stateHistory \cap HeardSettled : txChain[i] \notin Before(u)

ChainInv == TrackedInv /\ HistoryInv /\ AnchorInv

\* The invariant so far.
TrackingInv == SystemInv /\ NodeInv /\ ListenerInv /\ ChainInv

\* What was reported comes before what was not, and what was reported as settled before
\* what was not.
LEMMA HeardFirst ==
    ASSUME OrderInv, ListenerInv, NEW t \in Txs, t \in ToSet(order), NEW u \in Txs,
           \/ heard[u] # "nothing" /\ heard[t] = "nothing"
           \/ heard[u] = "settled" /\ heard[t] # "settled"
    PROVE  u \in Before(t)
    <1>1. u \in ToSet(order) /\ u # t BY DEF ListenerInv
    <1>2. t \notin Before(u) BY DEF ListenerInv, HeardSettled
    <1> QED BY <1>1, <1>2, BeforeOrder DEF OrderInv

\* The facts the steps below rely on.
LEMMA TrackingFacts ==
    ASSUME TrackingInv
    PROVE  /\ Inv /\ TypeOK /\ OrderInv /\ ListenerInv /\ Distinct(order)
           /\ heard \in [Txs -> {"nothing", "sequenced", "settled"}]
           /\ Distinct(txChain) /\ txChain \in Seq(Txs) /\ ToSet(txChain) \subseteq Txs
           /\ Distinct(pendingProofs) /\ ToSet(pendingProofs) \subseteq Txs
           /\ todo \in Seq(Txs) /\ catchingUp \in BOOLEAN
           /\ \A t \in ToSet(txChain) : heard[t] # "nothing"
           /\ SoundHistory(stateHistory) /\ DOMAIN stateHistory \subseteq Txs
           /\ \A t \in DOMAIN stateHistory : stateHistory[t].rank \in Nat
           /\ \A t \in Txs : heard[t] # "nothing" => t \in ToSet(order)
           /\ \A t : Before(t) \subseteq Txs
    <1>1. Inv /\ TypeOK /\ OrderInv /\ ListenerInv /\ Distinct(order)
        BY DEF TrackingInv, SystemInv, NodeInv, OrderInv, Inv
    <1>2. \A t : Before(t) \subseteq Txs BY <1>1, BeforeOrder
    <1>3. SoundHistory(stateHistory) BY <1>1, InvFacts
    <1>4. \A t \in DOMAIN stateHistory : stateHistory[t].rank \in Nat
        BY <1>3 DEF SoundHistory, HistoryEntry
    <1> QED BY <1>1, <1>2, <1>3, <1>4, InvFacts
            DEF TypeOK, Inv, Tracking, Distinct, ListenerInv, SoundHistory

\* The latest entry of state_history exists, and a new one goes behind all others.
LEMMA NextRankIsLast ==
    ASSUME TrackingInv
    PROVE  /\ DOMAIN stateHistory # {} =>
                \E t \in DOMAIN stateHistory : IsLatest(stateHistory, t)
           /\ NextRank(stateHistory) \in Nat
           /\ \A t \in DOMAIN stateHistory : stateHistory[t].rank < NextRank(stateHistory)
    <1> DEFINE h == stateHistory
    <1>1. /\ SoundHistory(h) /\ DOMAIN h \subseteq ToSet(order) /\ Distinct(order)
          /\ \A t \in DOMAIN h : h[t].rank \in Nat
          /\ \A t, u \in DOMAIN h : t \in Before(u) => h[t].rank < h[u].rank
        BY TrackingFacts DEF TrackingInv, ChainInv, HistoryInv
    <1>2. ASSUME DOMAIN h # {} PROVE \E t \in DOMAIN h : IsLatest(h, t)
        <2>1. PICK x \in DOMAIN h : \A y \in DOMAIN h : y = x \/ y \in Before(x)
            BY <1>1, <1>2, LastOf
        <2>2. IsLatest(h, x) BY <1>1, <2>1 DEF IsLatest
        <2> QED BY <2>2
    <1>3. ASSUME NEW t \in DOMAIN h PROVE h[t].rank < NextRank(h)
        <2>1. PICK x \in DOMAIN h : x = CHOOSE u \in DOMAIN h : IsLatest(h, u)
            BY <1>2
        <2>2. IsLatest(h, x) BY <1>2, <2>1
        <2>3. NextRank(h) = h[x].rank + 1 BY <2>1, <2>2 DEF NextRank
        <2> QED BY <1>1, <2>2, <2>3 DEF IsLatest
    <1>4. NextRank(h) \in Nat BY <1>1, NextRankType
    <1> QED BY <1>2, <1>3, <1>4

\* A transaction recorded behind all others.
LEMMA InsertLast ==
    ASSUME TrackingInv, NEW t \in Txs, DOMAIN stateHistory \subseteq Before(t), NEW s,
           NEW h, h = Insert(stateHistory, t, s)
    PROVE  /\ t \notin DOMAIN stateHistory
           /\ DOMAIN h = DOMAIN stateHistory \cup {t}
           /\ \A u \in DOMAIN stateHistory : h[u] = stateHistory[u]
           /\ h[t].state = s
           /\ \A u \in DOMAIN stateHistory : h[u].rank < h[t].rank
           /\ \A u, v \in DOMAIN h : u \in Before(v) => h[u].rank < h[v].rank
    <1>1. t \notin DOMAIN stateHistory BY TrackingFacts, BeforeOrder
    <1>2. /\ DOMAIN h = DOMAIN stateHistory \cup {t}
          /\ \A u \in DOMAIN stateHistory : h[u] = stateHistory[u]
          /\ h[t] = [state |-> s, rank |-> NextRank(stateHistory)]
        BY <1>1 DEF Insert
    <1>3. \A u \in DOMAIN stateHistory : h[u].rank < h[t].rank
        BY <1>2, NextRankIsLast
    <1>4. \A u, v \in DOMAIN h : u \in Before(v) => h[u].rank < h[v].rank
        <2> TAKE u, v \in DOMAIN h
        <2> HAVE u \in Before(v)
        <2>1. u # v /\ v \notin Before(u) BY TrackingFacts, BeforeOrder
        <2>2. u # t BY <1>2, <2>1
        <2>3. CASE v = t BY <1>2, <1>3, <2>2, <2>3
        <2>4. CASE v # t BY <1>2, <2>2, <2>4 DEF TrackingInv, ChainInv, HistoryInv
        <2> QED BY <2>3, <2>4
    <1> QED BY <1>1, <1>2, <1>3, <1>4

\* A step that leaves what is tracked alone.
LEMMA ChainSame ==
    ASSUME TrackingInv,
           UNCHANGED <<pendingProofs, catchingUp, isReady, txChain, stateHistory, todo, heard>>,
           \A u \in ToSet(order) : Before(u)' = Before(u)
    PROVE  ChainInv'
    <1>1. HeardSettled' = HeardSettled /\ HeardSequenced' = HeardSequenced
        BY DEF HeardSettled, HeardSequenced
    <1>2. /\ \A t \in ToSet(txChain) \cup ToSet(todo) \cup DOMAIN stateHistory :
                Before(t)' = Before(t)
          /\ \A i \in DOMAIN txChain : txChain[i] \in ToSet(txChain)
          /\ \A i \in DOMAIN todo : todo[i] \in ToSet(todo)
        <2>1. ToSet(todo) \subseteq ToSet(txChain)
            BY DEF TrackingInv, ChainInv, TrackedInv
        <2> QED BY <2>1, TrackingFacts DEF TrackingInv, ChainInv, HistoryInv, ToSet
    <1>3. TrackedInv' BY <1>1, <1>2 DEF TrackingInv, ChainInv, TrackedInv, Sorted
    <1>4. HistoryInv' BY <1>1, <1>2 DEF TrackingInv, ChainInv, HistoryInv
    <1>5. AnchorInv' BY <1>1, <1>2 DEF TrackingInv, ChainInv, AnchorInv
    <1> QED BY <1>3, <1>4, <1>5 DEF ChainInv

\* What a report that a transaction was sequenced changes, whichever way it is handled.
LEMMA SequencedFacts ==
    ASSUME TrackingInv, NEW t \in Txs, ReportSequenced(t)
    PROVE  /\ todo = <<>> /\ heard[t] = "nothing"
           /\ \A u \in Txs : heard'[u] = IF u = t THEN "sequenced" ELSE heard[u]
           /\ HeardSettled' = HeardSettled /\ HeardSequenced' = HeardSequenced \cup {t}
           /\ t \notin HeardSequenced
           /\ \A u : Before(u)' = Before(u)
           /\ t \notin ToSet(txChain) /\ t \notin DOMAIN stateHistory
           /\ ToSet(txChain) \subseteq Before(t) /\ DOMAIN stateHistory \subseteq Before(t)
    <1>1. /\ todo = <<>> /\ heard[t] = "nothing"
          /\ heard' = [heard EXCEPT ![t] = "sequenced"] /\ order' = order
          /\ status[t] # "unknown"
        BY DEF ReportSequenced, SequencedCatchingUp, SequencedLive, SequencedUnprovable,
               HearSequenced, Hear, Idle, hyliVars, Settled
    <1>2. \A u \in Txs : heard'[u] = IF u = t THEN "sequenced" ELSE heard[u]
        BY <1>1, TrackingFacts
    <1>3. /\ HeardSettled' = HeardSettled /\ HeardSequenced' = HeardSequenced \cup {t}
          /\ t \notin HeardSequenced
        BY <1>1, <1>2 DEF HeardSettled, HeardSequenced
    <1>4. \A u : Before(u)' = Before(u) BY <1>1, BeforeSame
    <1>5. t \in ToSet(order) BY <1>1, TrackingFacts DEF OrderInv
    <1>6. /\ \A u \in ToSet(txChain) : u \in Txs /\ heard[u] # "nothing"
          /\ \A u \in DOMAIN stateHistory : u \in Txs /\ heard[u] # "nothing"
        BY TrackingFacts DEF TrackingInv, ChainInv, HistoryInv
    <1>7. \A u \in Txs : heard[u] # "nothing" => u \in Before(t)
        BY <1>1, <1>5, HeardFirst, TrackingFacts
    <1> QED BY <1>1, <1>2, <1>3, <1>4, <1>6, <1>7

\* Buffering a transaction while catching up keeps what is tracked,
LEMMA SequencedCatchingUpChain ==
    ASSUME TrackingInv, NEW t \in Txs, ReportSequenced(t), SequencedCatchingUp(t)
    PROVE  ChainInv'
    <1> USE DEF SequencedCatchingUp
    <1>1. TrackedInv /\ HistoryInv /\ AnchorInv BY DEF TrackingInv, ChainInv
    <1>2. /\ todo = <<>> /\ HeardSettled' = HeardSettled
          /\ HeardSequenced' = HeardSequenced \cup {t}
          /\ \A u : Before(u)' = Before(u)
          /\ t \notin ToSet(txChain) /\ t \notin DOMAIN stateHistory
          /\ ToSet(txChain) \subseteq Before(t)
          /\ \A u \in Txs : heard'[u] = IF u = t THEN "sequenced" ELSE heard[u]
        BY SequencedFacts
    <1>3. ToSet(txChain') = ToSet(txChain) \cup {t} BY <1>2, TrackingFacts, AppendDistinct
    <1>4. Sorted(txChain)'
        <2>1. Sorted(Append(txChain, t))
            BY <1>1, <1>2, TrackingFacts, SortedAppend DEF TrackedInv
        <2> QED BY <1>2, <2>1 DEF Sorted
    <1>5. TrackedInv'
        <2>1. Sorted(todo)' /\ ToSet(todo') = {} BY <1>2 DEF Sorted, ToSet
        <2> QED BY <1>1, <1>2, <1>3, <1>4, <2>1 DEF TrackedInv
    <1>6. HistoryInv'
        <2>1. ToSet(todo') = {} BY <1>2 DEF ToSet
        <2> QED BY <1>1, <1>2, <2>1, TrackingFacts DEF HistoryInv
    <1>7. AnchorInv'
        <2>1. \A u \in ToSet(txChain') : heard'[u] = "sequenced"
            BY <1>1, <1>2, <1>3, TrackingFacts DEF TrackedInv, HeardSequenced
        <2> QED BY <2>1 DEF AnchorInv, ToSet
    <1> QED BY <1>5, <1>6, <1>7 DEF ChainInv

\* proving and executing it,
LEMMA SequencedLiveChain ==
    ASSUME TrackingInv, NEW t \in Txs, ReportSequenced(t), SequencedLive(t)
    PROVE  ChainInv'
    <1> USE DEF SequencedLive
    <1>1. TrackedInv /\ HistoryInv /\ AnchorInv BY DEF TrackingInv, ChainInv
    <1>2. /\ todo = <<>> /\ HeardSettled' = HeardSettled
          /\ HeardSequenced' = HeardSequenced \cup {t}
          /\ \A u : Before(u)' = Before(u)
          /\ t \notin ToSet(txChain) /\ t \notin DOMAIN stateHistory /\ t \notin HeardSequenced
          /\ ToSet(txChain) \subseteq Before(t) /\ DOMAIN stateHistory \subseteq Before(t)
          /\ \A u \in Txs : heard'[u] = IF u = t THEN "sequenced" ELSE heard[u]
        BY SequencedFacts
    <1>3. t \notin ToSet(pendingProofs) BY <1>1, <1>2 DEF TrackedInv
    <1>4. /\ ToSet(txChain') = ToSet(txChain) \cup {t}
          /\ ToSet(pendingProofs') = ToSet(pendingProofs) \cup {t}
        BY <1>2, <1>3, TrackingFacts, AppendDistinct
    <1>5. Sorted(txChain)'
        <2>1. Sorted(Append(txChain, t))
            BY <1>1, <1>2, TrackingFacts, SortedAppend DEF TrackedInv
        <2> QED BY <1>2, <2>1 DEF Sorted
    <1>6. TrackedInv'
        <2>1. Sorted(todo)' /\ ToSet(todo') = {} BY <1>2 DEF Sorted, ToSet
        <2> QED BY <1>1, <1>2, <1>4, <1>5, <2>1 DEF TrackedInv
    <1>7. /\ DOMAIN stateHistory' = DOMAIN stateHistory \cup {t}
          /\ \A u, v \in DOMAIN stateHistory' :
                u \in Before(v) => stateHistory'[u].rank < stateHistory'[v].rank
        BY <1>2, InsertLast
    <1>8. HistoryInv'
        <2>1. ToSet(todo') = {} /\ ToSet(todo) = {} /\ t \in HeardSequenced'
            BY <1>2 DEF ToSet
        <2>2. DOMAIN stateHistory' \cap HeardSequenced' = ToSet(pendingProofs') \ ToSet(todo')
            BY <1>1, <1>2, <1>4, <1>7, <2>1 DEF HistoryInv
        <2>3. \A u \in DOMAIN stateHistory' : heard'[u] # "nothing"
            BY <1>1, <1>2, <1>7, TrackingFacts DEF HistoryInv
        <2> QED BY <1>2, <1>7, <2>1, <2>2, <2>3 DEF HistoryInv
    <1>9. AnchorInv'
        <2> SUFFICES ASSUME NEW i \in DOMAIN txChain', heard'[txChain'[i]] = "settled"
                     PROVE  /\ i = 1
                            /\ txChain'[i] \in DOMAIN stateHistory'
                            /\ \A u \in DOMAIN stateHistory' \cap HeardSettled' :
                                txChain'[i] \notin Before(u)'
            BY DEF AnchorInv
        <2>1. /\ Len(txChain) \in Nat /\ DOMAIN txChain = 1..Len(txChain)
              /\ DOMAIN txChain' = 1..(Len(txChain) + 1) /\ txChain'[Len(txChain) + 1] = t
              /\ \A j \in 1..Len(txChain) : txChain'[j] = txChain[j]
            BY TrackingFacts, LenProperties, AppendProperties
        <2>2. i \in 1..Len(txChain) /\ txChain'[i] = txChain[i] BY <1>2, <2>1
        <2>3. txChain[i] \in Txs BY <2>1, <2>2, TrackingFacts DEF ToSet
        <2>4. heard[txChain[i]] = "settled" BY <1>2, <2>2, <2>3
        <2>5. t \notin HeardSettled' BY <1>2 DEF HeardSettled
        <2> QED BY <1>1, <1>2, <1>7, <2>1, <2>2, <2>4, <2>5 DEF AnchorInv
    <1> QED BY <1>6, <1>8, <1>9 DEF ChainInv

\* and giving it up when a proof of it cannot be built.
LEMMA SequencedUnprovableChain ==
    ASSUME TrackingInv, NEW t \in Txs, ReportSequenced(t), SequencedUnprovable(t)
    PROVE  ChainInv'
    <1> USE DEF SequencedUnprovable
    <1>1. TrackedInv /\ HistoryInv /\ AnchorInv BY DEF TrackingInv, ChainInv
    <1>2. /\ todo = <<>> /\ HeardSettled' = HeardSettled
          /\ HeardSequenced' = HeardSequenced \cup {t}
          /\ \A u : Before(u)' = Before(u)
          /\ t \notin ToSet(txChain) /\ t \notin DOMAIN stateHistory /\ t \notin HeardSequenced
          /\ \A u \in Txs : heard'[u] = IF u = t THEN "sequenced" ELSE heard[u]
        BY SequencedFacts
    <1>3. TrackedInv' BY <1>1, <1>2 DEF TrackedInv, Sorted
    <1>4. HistoryInv'
        <2>1. \A u \in DOMAIN stateHistory : heard'[u] # "nothing"
            BY <1>1, <1>2, TrackingFacts DEF HistoryInv
        <2> QED BY <1>1, <1>2, <2>1 DEF HistoryInv
    <1>5. AnchorInv'
        <2>1. \A i \in DOMAIN txChain : txChain[i] \in Txs /\ txChain[i] # t
            BY <1>2, TrackingFacts DEF ToSet
        <2> QED BY <1>1, <1>2, <2>1 DEF AnchorInv
    <1> QED BY <1>3, <1>4, <1>5 DEF ChainInv

\* At the end of the backfill everything tracked is to be replayed.
LEMMA EndBackfillChain ==
    ASSUME TrackingInv, EndBackfill
    PROVE  ChainInv'
    <1> USE DEF EndBackfill, BackfillComplete, Idle, hyliVars
    <1>1. TrackedInv /\ HistoryInv /\ AnchorInv BY DEF TrackingInv, ChainInv
    <1>2. /\ catchingUp /\ pendingProofs = txChain /\ todo' = txChain
          /\ ToSet(txChain) = HeardSequenced /\ ~catchingUp' /\ isReady'
          /\ DOMAIN stateHistory \subseteq HeardSettled
        BY <1>1 DEF TrackedInv, HistoryInv
    <1>3. /\ HeardSettled' = HeardSettled /\ HeardSequenced' = HeardSequenced
          /\ \A u : Before(u)' = Before(u)
        BY BeforeSame DEF HeardSettled, HeardSequenced
    <1>4. TrackedInv' BY <1>1, <1>2, <1>3 DEF TrackedInv, Sorted
    <1>5. HeardSettled \cap HeardSequenced = {} BY DEF HeardSettled, HeardSequenced
    <1>6. \A t \in ToSet(txChain), u \in DOMAIN stateHistory : u \in Before(t)
        <2> TAKE t \in ToSet(txChain), u \in DOMAIN stateHistory
        <2>1. heard[u] = "settled" /\ heard[t] = "sequenced" /\ u \in Txs /\ t \in Txs
            BY <1>2 DEF HeardSettled, HeardSequenced
        <2>2. t \in ToSet(order) BY <2>1, TrackingFacts
        <2> QED BY <2>1, <2>2, HeardFirst, TrackingFacts
    <1>7. HistoryInv' BY <1>1, <1>2, <1>3, <1>5, <1>6 DEF HistoryInv
    <1>8. AnchorInv' BY <1>1, <1>3 DEF AnchorInv
    <1> QED BY <1>4, <1>7, <1>8 DEF ChainInv

\* A replay takes one transaction after the other into state_history.
LEMMA ReplayChain ==
    ASSUME TrackingInv, Replay
    PROVE  ChainInv'
    <1> DEFINE t == Head(todo)
               after == ApplySpeculative(CurrentState(stateHistory), Blobs[t])
    <1>1. TrackedInv /\ HistoryInv /\ AnchorInv BY DEF TrackingInv, ChainInv
    <1>2. /\ todo # <<>> /\ ~catchingUp
          /\ UNCHANGED <<pendingProofs, catchingUp, isReady, txChain, heard>>
        BY <1>1 DEF TrackedInv, Replay, ReplayTx
    <1>3. /\ HeardSettled' = HeardSettled /\ HeardSequenced' = HeardSequenced
          /\ \A u : Before(u)' = Before(u)
        BY BeforeSame DEF HeardSettled, HeardSequenced, Replay, ReplayTx, hyliVars
    <1>4. /\ t \in Txs /\ t \in ToSet(todo) /\ todo' = Tail(todo) /\ todo' \in Seq(Txs)
          /\ Sorted(todo') /\ ToSet(todo') = ToSet(todo) \ {t}
          /\ \A u \in ToSet(todo') : t \in Before(u)
        <2>1. todo \in Seq(Txs) /\ Sorted(todo) /\ Distinct(order) BY <1>1, TrackingFacts DEF TrackedInv
        <2> QED BY <1>2, <2>1, SortedTail DEF Replay, ReplayTx
    <1>5. t \in ToSet(pendingProofs) /\ t \in HeardSequenced BY <1>1, <1>4 DEF TrackedInv
    <1>6. DOMAIN stateHistory \subseteq Before(t) BY <1>1, <1>4 DEF HistoryInv
    <1>7. stateHistory' = Insert(stateHistory, t, after) BY <1>5 DEF Replay, ReplayTx
    <1> HIDE DEF t, after
    <1>8. /\ DOMAIN stateHistory' = DOMAIN stateHistory \cup {t}
          /\ \A u, v \in DOMAIN stateHistory' :
                u \in Before(v) => stateHistory'[u].rank < stateHistory'[v].rank
        BY <1>4, <1>6, <1>7, InsertLast
    <1>9. TrackedInv'
        <2>1. Sorted(txChain)' /\ Sorted(todo)' BY <1>1, <1>2, <1>3, <1>4 DEF TrackedInv, Sorted
        <2> QED BY <1>1, <1>2, <1>3, <1>4, <2>1 DEF TrackedInv
    <1>10. HistoryInv'
        <2>1. DOMAIN stateHistory' \cap HeardSequenced = ToSet(pendingProofs') \ ToSet(todo')
            BY <1>1, <1>2, <1>4, <1>5, <1>8 DEF HistoryInv
        <2>2. \A u \in DOMAIN stateHistory' : heard'[u] # "nothing"
            BY <1>1, <1>2, <1>5, <1>8 DEF HistoryInv, HeardSequenced
        <2>3. \A v \in ToSet(todo'), u \in DOMAIN stateHistory' : u \in Before(v)
            BY <1>1, <1>4, <1>8 DEF HistoryInv
        <2> QED BY <1>2, <1>3, <1>8, <2>1, <2>2, <2>3 DEF HistoryInv
    <1>11. AnchorInv'
        <2>1. t \notin HeardSettled BY <1>5 DEF HeardSettled, HeardSequenced
        <2>2. DOMAIN stateHistory' \cap HeardSettled = DOMAIN stateHistory \cap HeardSettled
            BY <1>8, <2>1
        <2> QED BY <1>1, <1>2, <1>3, <1>8, <2>2 DEF AnchorInv
    <1> QED BY <1>9, <1>10, <1>11 DEF ChainInv

\* What a report that a transaction settled changes, whichever way it is handled.
LEMMA SettledFacts ==
    ASSUME TrackingInv, NEW t \in Txs, ReportSuccess(t) \/ ReportFailed(t)
    PROVE  /\ todo = <<>> /\ heard[t] # "settled" /\ (~catchingUp => heard[t] = "sequenced")
           /\ \A u \in Txs : heard'[u] = IF u = t THEN "settled" ELSE heard[u]
           /\ HeardSettled' = HeardSettled \cup {t} /\ HeardSequenced' = HeardSequenced \ {t}
           /\ HeardSettled = Before(t) /\ t \notin HeardSettled
           /\ \A u : Before(u)' = Before(u)
           /\ t \in ToSet(order) /\ catchingUp' = catchingUp /\ isReady' = isReady
    <1>1. /\ todo = <<>> /\ heard' = [heard EXCEPT ![t] = "settled"] /\ order' = order
          /\ heard[t] # "settled" /\ (~catchingUp => heard[t] = "sequenced")
          /\ status[t] \in Settled /\ \A u \in Before(t) : heard[u] = "settled"
          /\ catchingUp' = catchingUp /\ isReady' = isReady
        BY DEF ReportSuccess, ReportFailed, SettledSuccessCatchingUp, SettledSuccessLive,
               SettledFailedCatchingUp, SettledFailedLive, SettledUntracked, HearSettled, Hear,
               Idle, hyliVars, Settled
    <1>2. \A u \in Txs : heard'[u] = IF u = t THEN "settled" ELSE heard[u]
        BY <1>1, TrackingFacts
    <1>3. /\ HeardSettled' = HeardSettled \cup {t} /\ HeardSequenced' = HeardSequenced \ {t}
          /\ t \notin HeardSettled
        BY <1>1, <1>2 DEF HeardSettled, HeardSequenced
    <1>4. status[t] # "unknown" /\ t \in ToSet(order)
        BY <1>1, TrackingFacts DEF OrderInv, Settled
    <1>5. HeardSettled = Before(t) BY <1>1, <1>4, HeardIsBefore, TrackingFacts
    <1>6. \A u : Before(u)' = Before(u) BY <1>1, BeforeSame
    <1> QED BY <1>1, <1>2, <1>3, <1>4, <1>5, <1>6

\* Dropping a transaction leaves the rest in order.
LEMMA SortedDrop ==
    ASSUME NEW seq, Distinct(seq), Sorted(seq), NEW t
    PROVE  Sorted(Drop(seq, t)) /\ ToSet(Drop(seq, t)) = ToSet(seq) \ {t}
    <1>1. seq \in Seq(Txs) BY DEF Distinct
    <1>2. CASE t \in ToSet(seq)
        <2>1. Position(seq, t) \in DOMAIN seq BY <1>2, PositionOf
        <2>2. Sorted(RemoveAt(seq, Position(seq, t))) BY <1>1, <2>1, SortedRemoveAt
        <2> QED BY <1>2, <2>2, DropDistinct DEF Drop
    <1>3. CASE t \notin ToSet(seq) BY <1>3, DropDistinct DEF Drop
    <1> QED BY <1>2, <1>3

\* While catching up, a settled transaction leaves tx_chain and pending_proofs; the state of
\* a success goes behind those that settled before it.
LEMMA SettledCatchingUpChain ==
    ASSUME TrackingInv, NEW t \in Txs, ReportSuccess(t) \/ ReportFailed(t), catchingUp,
           txChain' = Drop(txChain, t), pendingProofs' = Drop(pendingProofs, t), todo' = todo,
           \/ stateHistory' = stateHistory
           \/ \E s : stateHistory' = Insert(stateHistory, t, s)
    PROVE  ChainInv'
    <1>1. TrackedInv /\ HistoryInv /\ AnchorInv BY DEF TrackingInv, ChainInv
    <1>2. /\ todo = <<>> /\ HeardSettled' = HeardSettled \cup {t}
          /\ HeardSequenced' = HeardSequenced \ {t}
          /\ HeardSettled = Before(t) /\ \A u : Before(u)' = Before(u)
          /\ catchingUp' /\ isReady' = isReady
          /\ \A u \in Txs : heard'[u] = IF u = t THEN "settled" ELSE heard[u]
        BY SettledFacts
    <1>3. /\ pendingProofs = txChain /\ ToSet(txChain) = HeardSequenced
          /\ DOMAIN stateHistory \subseteq HeardSettled
        BY <1>1 DEF TrackedInv, HistoryInv
    <1>4. Sorted(txChain') /\ ToSet(txChain') = ToSet(txChain) \ {t}
        BY <1>1, SortedDrop, TrackingFacts DEF TrackedInv
    <1>5. TrackedInv'
        <2>1. Sorted(txChain)' /\ Sorted(todo)' BY <1>1, <1>2, <1>4 DEF TrackedInv, Sorted
        <2>2. ToSet(todo') = {} BY <1>2 DEF ToSet
        <2> QED BY <1>1, <1>2, <1>3, <1>4, <2>1, <2>2 DEF TrackedInv
    <1>6. /\ DOMAIN stateHistory' \subseteq DOMAIN stateHistory \cup {t}
          /\ \A u, v \in DOMAIN stateHistory' :
                u \in Before(v) => stateHistory'[u].rank < stateHistory'[v].rank
        <2>1. CASE stateHistory' = stateHistory BY <1>1, <2>1 DEF HistoryInv
        <2>2. CASE \E s : stateHistory' = Insert(stateHistory, t, s)
            <3>1. PICK s : stateHistory' = Insert(stateHistory, t, s) BY <2>2
            <3>2. DOMAIN stateHistory \subseteq Before(t) BY <1>2, <1>3
            <3> QED BY <3>1, <3>2, InsertLast, ZenonT(60)
        <2> QED BY <2>1, <2>2
    <1>7. HistoryInv'
        <2>1. DOMAIN stateHistory' \subseteq HeardSettled' BY <1>2, <1>3, <1>6
        <2>2. \A u \in DOMAIN stateHistory' : heard'[u] # "nothing" BY <2>1 DEF HeardSettled
        <2>3. ToSet(todo') = {} BY <1>2 DEF ToSet
        <2> QED BY <1>2, <1>6, <2>1, <2>2, <2>3 DEF HistoryInv
    <1>8. AnchorInv'
        <2>1. \A u \in ToSet(txChain') : heard'[u] = "sequenced"
            BY <1>2, <1>3, <1>4 DEF HeardSequenced
        <2> QED BY <2>1 DEF AnchorInv, ToSet
    <1> QED BY <1>5, <1>7, <1>8 DEF ChainInv

\* Where a tracked transaction that settles is in tx_chain: the anchor may come before it,
\* and what comes after it is in flight.
LEMMA SettledPosition ==
    ASSUME TrackingInv, NEW t \in Txs, ReportSuccess(t) \/ ReportFailed(t), ~catchingUp,
           t \in ToSet(txChain), NEW pos, pos = Position(txChain, t)
    PROVE  /\ Len(txChain) \in Nat /\ DOMAIN txChain = 1..Len(txChain)
           /\ pos \in 1..Len(txChain) /\ txChain[pos] = t
           /\ \A i \in 1..Len(txChain) : txChain[i] \in Txs /\ txChain[i] \in ToSet(txChain)
           /\ \A i, j \in 1..Len(txChain) : txChain[i] = txChain[j] => i = j
           /\ \A i \in 1..Len(txChain) : i < pos =>
                i = 1 /\ heard[txChain[i]] = "settled" /\ txChain[i] \in DOMAIN stateHistory
           /\ \A i \in 1..Len(txChain) : i > pos =>
                heard[txChain[i]] = "sequenced" /\ t \in Before(txChain[i])
           /\ t \in ToSet(pendingProofs) /\ t \in DOMAIN stateHistory
    <1>1. TrackedInv /\ HistoryInv /\ AnchorInv BY DEF TrackingInv, ChainInv
    <1>2. /\ todo = <<>> /\ heard[t] = "sequenced" /\ HeardSettled = Before(t)
        BY SettledFacts
    <1>3. /\ Len(txChain) \in Nat /\ DOMAIN txChain = 1..Len(txChain)
          /\ \A i \in 1..Len(txChain) : txChain[i] \in Txs /\ txChain[i] \in ToSet(txChain)
          /\ \A i, j \in 1..Len(txChain) : txChain[i] = txChain[j] => i = j
        BY TrackingFacts, LenProperties, ElementOfSeq DEF ToSet, Distinct, IsInjective
    <1>4. pos \in 1..Len(txChain) /\ txChain[pos] = t
        BY <1>3, TrackingFacts, PositionOf
    <1>5. ASSUME NEW i \in 1..Len(txChain), i < pos
          PROVE  i = 1 /\ heard[txChain[i]] = "settled" /\ txChain[i] \in DOMAIN stateHistory
        <2>1. txChain[i] \in Before(t) BY <1>1, <1>3, <1>4, <1>5 DEF TrackedInv, Sorted
        <2>2. heard[txChain[i]] = "settled" BY <1>2, <2>1 DEF HeardSettled
        <2> QED BY <1>1, <1>3, <2>2 DEF AnchorInv
    <1>6. ASSUME NEW i \in 1..Len(txChain), i > pos
          PROVE  heard[txChain[i]] = "sequenced" /\ t \in Before(txChain[i])
        <2>1. t \in Before(txChain[i]) BY <1>1, <1>3, <1>4, <1>6 DEF TrackedInv, Sorted
        <2>2. heard[txChain[i]] # "settled" BY <1>1, <1>3, <1>4, <1>6 DEF AnchorInv
        <2>3. heard[txChain[i]] # "nothing" BY <1>3, TrackingFacts
        <2> QED BY <1>3, <2>1, <2>2, <2>3, TrackingFacts
    <1>7. t \in ToSet(pendingProofs) /\ t \in DOMAIN stateHistory
        <2>1. t \in HeardSequenced /\ ToSet(todo) = {} BY <1>2 DEF HeardSequenced, ToSet
        <2> QED BY <1>1, <2>1 DEF TrackedInv, HistoryInv
    <1> QED BY <1>3, <1>4, <1>5, <1>6, <1>7

\* What settle_success_live does: Hyli's root goes into the state recorded for t, and the
\* anchor before t is given up for t.
LEMMA SettledSuccessLiveFacts ==
    ASSUME TrackingInv, NEW t \in Txs, ReportSuccess(t), SettledSuccessLive(t, commitment[t]),
           NEW pos, pos = Position(txChain, t), NEW previous,
           previous = IF pos > 1 THEN {txChain[pos - 1]} ELSE {}
    PROVE  /\ commitment[t] \in Accounts
           /\ previous \subseteq HeardSettled
           /\ previous = {txChain[i] : i \in 1..(pos - 1)}
           /\ txChain' = SubSeq(txChain, pos, Len(txChain))
           /\ pendingProofs' = Drop(pendingProofs, t) /\ todo' = todo
           /\ DOMAIN stateHistory' = DOMAIN stateHistory \ previous
           /\ \A u \in DOMAIN stateHistory' : u # t => stateHistory'[u] = stateHistory[u]
           /\ stateHistory'[t].rank = stateHistory[t].rank
           /\ stateHistory'[t].state = [stateHistory[t].state EXCEPT !.state_root = commitment[t]]
           /\ t \in DOMAIN stateHistory' /\ settled' = stateHistory'[t].state
    <1>1. ~catchingUp /\ t \in ToSet(txChain) BY DEF SettledSuccessLive
    <1>2. commitment[t] \in Accounts BY DEF TrackingInv, SystemInv, SystemTypes, ReportSuccess
    <1>3. commitment[t] # NoCommitment BY <1>2, CommitmentAssumption
    <1>4. /\ Len(txChain) \in Nat /\ DOMAIN txChain = 1..Len(txChain)
          /\ pos \in 1..Len(txChain) /\ txChain[pos] = t
          /\ \A i \in 1..Len(txChain) : txChain[i] \in Txs
          /\ \A i, j \in 1..Len(txChain) : txChain[i] = txChain[j] => i = j
          /\ \A i \in 1..Len(txChain) : i < pos => i = 1 /\ heard[txChain[i]] = "settled"
          /\ t \in DOMAIN stateHistory
        BY <1>1, SettledPosition
    <1>5. pos = 1 \/ pos = 2
        <2>1. ASSUME pos > 2 PROVE FALSE
            <3>1. 2 \in 1..Len(txChain) /\ 2 < pos BY <1>4, <2>1
            <3> QED BY <1>4, <3>1
        <2> QED BY <1>4, <2>1
    <1>6. /\ previous = {txChain[i] : i \in 1..(pos - 1)} /\ previous \subseteq HeardSettled
          /\ t \notin previous
        <2>1. CASE pos = 1 BY <2>1
        <2>2. CASE pos = 2
            <3>1. previous = {txChain[1]} /\ 1..(pos - 1) = {1} /\ 1 \in 1..Len(txChain)
                BY <1>4, <2>2
            <3> QED BY <1>4, <2>2, <3>1 DEF HeardSettled
        <2> QED BY <1>5, <2>1, <2>2
    <1> DEFINE root == commitment[t]
               corrected == [stateHistory EXCEPT ![t].state.state_root = root]
    <1>7. /\ settled' = corrected[t].state
          /\ stateHistory' = Without(corrected, previous)
          /\ txChain' = SubSeq(txChain, pos, Len(txChain))
          /\ pendingProofs' = Drop(pendingProofs, t) /\ todo' = todo
        BY <1>3, <1>4 DEF SettledSuccessLive, FromAnchor
    <1>8. /\ DOMAIN corrected = DOMAIN stateHistory
          /\ \A u \in DOMAIN stateHistory : u # t => corrected[u] = stateHistory[u]
          /\ corrected[t] = [stateHistory[t] EXCEPT !.state.state_root = root]
        BY <1>4
    <1>9. /\ stateHistory[t] \in HistoryEntry BY <1>4, TrackingFacts DEF SoundHistory
    <1>10. /\ corrected[t].rank = stateHistory[t].rank
           /\ corrected[t].state = [stateHistory[t].state EXCEPT !.state_root = root]
        BY <1>8, <1>9 DEF HistoryEntry
    <1> HIDE DEF corrected
    <1>11. /\ DOMAIN stateHistory' = DOMAIN stateHistory \ previous
           /\ \A u \in DOMAIN stateHistory' : stateHistory'[u] = corrected[u]
        BY <1>7, <1>8 DEF Without, Restrict
    <1> QED BY <1>2, <1>4, <1>6, <1>7, <1>8, <1>10, <1>11

\* A live success keeps what is tracked: t becomes the anchor,
LEMMA SettledSuccessLiveChain ==
    ASSUME TrackingInv, NEW t \in Txs, ReportSuccess(t), SettledSuccessLive(t, commitment[t])
    PROVE  ChainInv'
    <1> DEFINE pos == Position(txChain, t)
               previous == IF pos > 1 THEN {txChain[pos - 1]} ELSE {}
               n == Len(txChain)
    <1>1. TrackedInv /\ HistoryInv /\ AnchorInv BY DEF TrackingInv, ChainInv
    <1>2. ~catchingUp /\ t \in ToSet(txChain) BY DEF SettledSuccessLive
    <1>3. /\ todo = <<>> /\ HeardSettled' = HeardSettled \cup {t}
          /\ HeardSequenced' = HeardSequenced \ {t}
          /\ HeardSettled = Before(t) /\ \A u : Before(u)' = Before(u)
          /\ catchingUp' = catchingUp /\ isReady' = isReady
          /\ \A u \in Txs : heard'[u] = IF u = t THEN "settled" ELSE heard[u]
        BY SettledFacts
    <1>4. /\ n \in Nat /\ DOMAIN txChain = 1..n
          /\ pos \in 1..n /\ txChain[pos] = t
          /\ \A i \in 1..n : txChain[i] \in Txs /\ txChain[i] \in ToSet(txChain)
          /\ \A i, j \in 1..n : txChain[i] = txChain[j] => i = j
          /\ \A i \in 1..n : i > pos => heard[txChain[i]] = "sequenced"
          /\ t \in DOMAIN stateHistory
        BY <1>2, SettledPosition
    <1>5. /\ previous \subseteq HeardSettled
          /\ previous = {txChain[i] : i \in 1..(pos - 1)}
          /\ txChain' = SubSeq(txChain, pos, n)
          /\ pendingProofs' = Drop(pendingProofs, t) /\ todo' = todo
          /\ DOMAIN stateHistory' = DOMAIN stateHistory \ previous
          /\ \A u \in DOMAIN stateHistory' : u # t => stateHistory'[u] = stateHistory[u]
          /\ stateHistory'[t].rank = stateHistory[t].rank /\ t \in DOMAIN stateHistory'
        BY SettledSuccessLiveFacts, ZenonT(60)
    <1> HIDE DEF pos, previous, n
    <1>6. /\ Sorted(txChain') /\ ToSet(txChain') = {txChain[i] : i \in pos..n}
          /\ DOMAIN txChain' = 1..(n - pos + 1)
          /\ \A i \in 1..(n - pos + 1) :
                /\ pos + i - 1 \in pos..n
                /\ txChain'[i] = txChain[pos + i - 1]
        <2>1. /\ txChain \in Seq(Txs) /\ pos \in 1..(Len(txChain) + 1) /\ n \in 0..Len(txChain)
              /\ pos <= n /\ Sorted(txChain)
            BY <1>1, <1>4, TrackingFacts DEF n, TrackedInv
        <2>2. Sorted(SubSeq(txChain, pos, n)) BY <2>1, SortedSubSeq
        <2>3. Len(txChain') = n - pos + 1 BY <1>5, <2>1, SubSeqElements
        <2> QED BY <1>5, <2>1, <2>2, <2>3, SubSeqElements
    <1>7. ToSet(pendingProofs') = ToSet(pendingProofs) \ {t}
        BY <1>5, TrackingFacts, DropDistinct
    <1>8. ToSet(txChain) = ToSet(txChain') \cup previous
        <2>1. ToSet(txChain) = {txChain[i] : i \in 1..n} BY <1>4 DEF ToSet
        <2>2. \A i \in 1..n : i \in 1..(pos - 1) \/ i \in pos..n BY <1>4
        <2>3. \A i : i \in 1..(pos - 1) \/ i \in pos..n => i \in 1..n BY <1>4
        <2> QED BY <1>5, <1>6, <2>1, <2>2, <2>3
    <1>9. HeardSettled \cap HeardSequenced = {} BY DEF HeardSettled, HeardSequenced
    <1>10. TrackedInv'
        <2>1. Sorted(txChain)' /\ Sorted(todo)'
            BY <1>1, <1>3, <1>5, <1>6 DEF TrackedInv, Sorted
        <2>2. ToSet(pendingProofs') = ToSet(txChain') \cap HeardSequenced'
            BY <1>1, <1>3, <1>5, <1>7, <1>8, <1>9 DEF TrackedInv
        <2>3. ToSet(todo') = {} BY <1>3, <1>5 DEF ToSet
        <2> QED BY <1>1, <1>2, <1>3, <2>1, <2>2, <2>3 DEF TrackedInv
    <1>11. HistoryInv'
        <2>1. ToSet(todo') = {} /\ ToSet(todo) = {} BY <1>3, <1>5 DEF ToSet
        <2>2. DOMAIN stateHistory' \cap HeardSequenced' = ToSet(pendingProofs') \ ToSet(todo')
            BY <1>1, <1>2, <1>3, <1>5, <1>7, <1>9, <2>1 DEF HistoryInv
        <2>3. \A u \in DOMAIN stateHistory' : heard'[u] # "nothing"
            BY <1>1, <1>3, <1>5, TrackingFacts DEF HistoryInv
        <2>4. \A u \in DOMAIN stateHistory' : stateHistory'[u].rank = stateHistory[u].rank
            BY <1>5
        <2>5. \A u, v \in DOMAIN stateHistory' :
                u \in Before(v) => stateHistory'[u].rank < stateHistory'[v].rank
            BY <1>1, <1>5, <2>4 DEF HistoryInv
        <2> QED BY <1>2, <1>3, <2>1, <2>2, <2>3, <2>5 DEF HistoryInv
    <1>12. AnchorInv'
        <2> SUFFICES ASSUME NEW i \in DOMAIN txChain', heard'[txChain'[i]] = "settled"
                     PROVE  /\ i = 1
                            /\ txChain'[i] \in DOMAIN stateHistory'
                            /\ \A u \in DOMAIN stateHistory' \cap HeardSettled' :
                                txChain'[i] \notin Before(u)'
            BY DEF AnchorInv
        <2>1. /\ i \in 1..(n - pos + 1) /\ pos + i - 1 \in 1..n
              /\ txChain'[i] = txChain[pos + i - 1]
            BY <1>4, <1>6
        <2>2. i = 1
            <3>1. CASE pos + i - 1 > pos
                BY <1>3, <1>4, <2>1, <3>1
            <3>2. CASE pos + i - 1 = pos BY <1>4, <2>1, <3>2
            <3> QED BY <1>4, <2>1, <3>1, <3>2
        <2>3. txChain'[i] = t BY <1>4, <2>1, <2>2
        <2>4. \A u \in HeardSettled \cup {t} : t \notin Before(u)
            BY <1>3, TrackingFacts, BeforeOrder
        <2> QED BY <1>3, <1>5, <2>2, <2>3, <2>4
    <1> QED BY <1>10, <1>11, <1>12 DEF ChainInv

\* and a failure keeps it: what came after t is forgotten and will be replayed.
LEMMA SettledFailedLiveChain ==
    ASSUME TrackingInv, NEW t \in Txs, ReportFailed(t), SettledFailedLive(t)
    PROVE  ChainInv'
    <1> DEFINE pos == Position(txChain, t)
               n == Len(txChain)
               after == SubSeq(txChain, pos + 1, n)
    <1>1. TrackedInv /\ HistoryInv /\ AnchorInv BY DEF TrackingInv, ChainInv
    <1>2. ~catchingUp /\ t \in ToSet(txChain) BY DEF SettledFailedLive
    <1>3. /\ todo = <<>> /\ HeardSettled' = HeardSettled \cup {t}
          /\ HeardSequenced' = HeardSequenced \ {t}
          /\ HeardSettled = Before(t) /\ \A u : Before(u)' = Before(u)
          /\ catchingUp' = catchingUp /\ isReady' = isReady
          /\ \A u \in Txs : heard'[u] = IF u = t THEN "settled" ELSE heard[u]
        BY SettledFacts
    <1>4. /\ n \in Nat /\ DOMAIN txChain = 1..n
          /\ pos \in 1..n /\ txChain[pos] = t
          /\ \A i \in 1..n : txChain[i] \in Txs /\ txChain[i] \in ToSet(txChain)
          /\ \A i, j \in 1..n : txChain[i] = txChain[j] => i = j
          /\ \A i \in 1..n : i < pos =>
                i = 1 /\ heard[txChain[i]] = "settled" /\ txChain[i] \in DOMAIN stateHistory
          /\ \A i \in 1..n : i > pos =>
                heard[txChain[i]] = "sequenced" /\ t \in Before(txChain[i])
        BY <1>2, SettledPosition
    <1>5. /\ stateHistory' = Without(stateHistory, {t} \cup ToSet(after))
          /\ txChain' = RemoveAt(txChain, pos) /\ todo' = after
          /\ pendingProofs' = Drop(pendingProofs, t)
        BY DEF SettledFailedLive, Invalidated
    <1>6. /\ DOMAIN stateHistory' = DOMAIN stateHistory \ ({t} \cup ToSet(after))
          /\ \A u \in DOMAIN stateHistory' : stateHistory'[u] = stateHistory[u]
        BY <1>5 DEF Without, Restrict
    <1>7. /\ Sorted(txChain') /\ ToSet(txChain') = ToSet(txChain) \ {t}
          /\ DOMAIN txChain' = 1..(n - 1)
          /\ \A i \in 1..(n - 1) : txChain'[i] = IF i < pos THEN txChain[i] ELSE txChain[i + 1]
        <2>1. txChain \in Seq(Txs) /\ pos \in DOMAIN txChain /\ Sorted(txChain) /\ Distinct(txChain)
            BY <1>1, <1>4, TrackingFacts DEF TrackedInv
        <2> DEFINE new == RemoveAt(txChain, pos)
        <2>2. Sorted(new) BY <2>1, SortedRemoveAt
        <2>3. ToSet(new) = ToSet(txChain) \ {txChain[pos]} BY <2>1, RemoveAtDistinct
        <2>4. /\ DOMAIN new = 1..(n - 1)
              /\ \A i \in 1..(n - 1) : new[i] = IF i < pos THEN txChain[i] ELSE txChain[i + 1]
            BY <2>1, RemoveAtElements
        <2> QED BY <1>4, <1>5, <2>2, <2>3, <2>4
    <1>8. /\ Sorted(after) /\ ToSet(after) = {txChain[i] : i \in (pos + 1)..n}
        <2>1. /\ txChain \in Seq(Txs) /\ pos + 1 \in 1..(Len(txChain) + 1)
              /\ n \in 0..Len(txChain) /\ Sorted(txChain)
            BY <1>1, <1>4, TrackingFacts DEF TrackedInv
        <2> QED BY <2>1, SortedSubSeq, SubSeqElements
    <1> HIDE DEF pos, n, after
    <1>9. \A u \in ToSet(after) : /\ u \in ToSet(txChain) /\ u \in HeardSequenced
                                  /\ u # t /\ t \in Before(u)
        <2> TAKE u \in ToSet(after)
        <2>1. PICK i \in (pos + 1)..n : u = txChain[i] BY <1>8
        <2>2. i \in 1..n /\ i > pos BY <1>4, <2>1
        <2>3. heard[u] = "sequenced" /\ t \in Before(u) /\ u \in Txs BY <1>4, <2>1, <2>2
        <2>4. u # t BY <1>4, <2>1, <2>2
        <2> QED BY <1>4, <2>1, <2>2, <2>3, <2>4 DEF HeardSequenced
    <1>10. ToSet(pendingProofs') = ToSet(pendingProofs) \ {t}
        BY <1>5, TrackingFacts, DropDistinct
    <1>11. TrackedInv'
        <2>1. Sorted(txChain)' /\ Sorted(todo)' BY <1>3, <1>5, <1>7, <1>8 DEF Sorted
        <2>2. ToSet(pendingProofs') = ToSet(txChain') \cap HeardSequenced'
            BY <1>1, <1>3, <1>7, <1>10 DEF TrackedInv
        <2>3. ToSet(todo') \subseteq ToSet(pendingProofs')
            BY <1>1, <1>5, <1>9, <1>10 DEF TrackedInv
        <2> QED BY <1>1, <1>2, <1>3, <2>1, <2>2, <2>3 DEF TrackedInv
    <1>12. \A u \in DOMAIN stateHistory' : u \in HeardSettled
        <2> TAKE u \in DOMAIN stateHistory'
        <2>1. u \in DOMAIN stateHistory /\ u # t /\ u \notin ToSet(after) /\ u \in Txs
            BY <1>6, TrackingFacts
        <2>2. ASSUME u \in HeardSequenced PROVE FALSE
            <3>1. ToSet(todo) = {} BY <1>3 DEF ToSet
            <3>2. u \in ToSet(txChain)
                BY <1>1, <1>2, <2>1, <2>2, <3>1 DEF HistoryInv, TrackedInv
            <3>3. PICK i \in 1..n : u = txChain[i] BY <1>4, <3>2 DEF ToSet
            <3>4. i < pos BY <1>4, <1>8, <2>1, <3>3
            <3>5. heard[u] = "settled" BY <1>4, <3>3, <3>4
            <3> QED BY <2>2, <3>5 DEF HeardSequenced
        <2>3. heard[u] # "nothing" BY <1>1, <2>1 DEF HistoryInv
        <2> QED BY <2>1, <2>2, <2>3, TrackingFacts DEF HeardSettled, HeardSequenced
    <1>13. HeardSettled \cap HeardSequenced = {} BY DEF HeardSettled, HeardSequenced
    <1>14. HistoryInv'
        <2>1. ToSet(todo) = {} BY <1>3 DEF ToSet
        <2>2. DOMAIN stateHistory' \cap HeardSequenced' = ToSet(pendingProofs') \ ToSet(todo')
            BY <1>1, <1>2, <1>3, <1>5, <1>6, <1>10, <2>1 DEF HistoryInv
        <2>3. \A u \in DOMAIN stateHistory' : heard'[u] # "nothing"
            BY <1>1, <1>3, <1>6, TrackingFacts DEF HistoryInv
        <2>4. \A v \in ToSet(todo'), u \in DOMAIN stateHistory' : u \in Before(v)
            BY <1>3, <1>5, <1>9, <1>12, TrackingFacts, BeforeOrder
        <2> QED BY <1>1, <1>2, <1>3, <1>6, <2>2, <2>3, <2>4 DEF HistoryInv
    <1>15. AnchorInv'
        <2> SUFFICES ASSUME NEW i \in DOMAIN txChain', heard'[txChain'[i]] = "settled"
                     PROVE  /\ i = 1
                            /\ txChain'[i] \in DOMAIN stateHistory'
                            /\ \A u \in DOMAIN stateHistory' \cap HeardSettled' :
                                txChain'[i] \notin Before(u)'
            BY DEF AnchorInv
        <2>1. PICK j \in 1..n : /\ txChain'[i] = txChain[j] /\ j # pos
                                /\ j = IF i < pos THEN i ELSE i + 1
            BY <1>4, <1>7
        <2>2. i \in 1..(n - 1) /\ txChain[j] # t /\ txChain[j] \in Txs BY <1>4, <1>7, <2>1
        <2>3. heard[txChain[j]] = "settled" BY <1>3, <2>1, <2>2
        <2>4. /\ j = 1 /\ txChain[j] \in DOMAIN stateHistory
              /\ \A u \in DOMAIN stateHistory \cap HeardSettled : txChain[j] \notin Before(u)
            BY <1>1, <1>4, <2>3 DEF AnchorInv
        <2>5. i = 1 BY <1>4, <2>1, <2>2, <2>4
        <2>6. txChain[j] \notin ToSet(after) BY <1>9, <2>3 DEF HeardSequenced
        <2> QED BY <1>3, <1>6, <1>12, <2>1, <2>2, <2>4, <2>5, <2>6
    <1> QED BY <1>11, <1>14, <1>15 DEF ChainInv

\* Ignoring the outcome of a transaction that is not tracked keeps it too.
LEMMA SettledUntrackedChain ==
    ASSUME TrackingInv, NEW t \in Txs, ReportSuccess(t) \/ ReportFailed(t), SettledUntracked(t)
    PROVE  ChainInv'
    <1>1. TrackedInv /\ HistoryInv /\ AnchorInv BY DEF TrackingInv, ChainInv
    <1>2. /\ todo = <<>> /\ HeardSettled' = HeardSettled \cup {t} /\ heard[t] = "sequenced"
          /\ HeardSequenced' = HeardSequenced \ {t} /\ ~catchingUp
          /\ \A u : Before(u)' = Before(u)
          /\ \A u \in Txs : heard'[u] = IF u = t THEN "settled" ELSE heard[u]
        BY SettledFacts DEF SettledUntracked
    <1>3. /\ t \notin ToSet(txChain)
          /\ UNCHANGED <<pendingProofs, catchingUp, isReady, txChain, stateHistory, todo>>
        BY DEF SettledUntracked
    <1>4. t \notin ToSet(pendingProofs) BY <1>1, <1>3 DEF TrackedInv
    <1>5. t \notin DOMAIN stateHistory
        BY <1>1, <1>2, <1>4 DEF HistoryInv, HeardSequenced
    <1>6. TrackedInv' BY <1>1, <1>2, <1>3 DEF TrackedInv, Sorted
    <1>7. HistoryInv'
        <2>1. \A u \in DOMAIN stateHistory : heard'[u] # "nothing"
            BY <1>1, <1>2, TrackingFacts DEF HistoryInv
        <2> QED BY <1>1, <1>2, <1>3, <1>5, <2>1 DEF HistoryInv
    <1>8. AnchorInv'
        <2>1. \A i \in DOMAIN txChain : txChain[i] \in Txs /\ txChain[i] # t
            BY <1>3, TrackingFacts DEF ToSet
        <2> QED BY <1>1, <1>2, <1>3, <1>5, <2>1 DEF AnchorInv
    <1> QED BY <1>6, <1>7, <1>8 DEF ChainInv

\* A restart tracks nothing.
LEMMA RestartChain ==
    ASSUME ServerRestart
    PROVE  ChainInv'
    <1> USE DEF ServerRestart, Restart
    <1>1. HeardSettled' = {} /\ HeardSequenced' = {} BY DEF HeardSettled, HeardSequenced
    <1>2. ToSet(<<>>) = {} /\ DOMAIN stateHistory' = {} /\ DOMAIN txChain' = {} /\ DOMAIN todo' = {}
        BY EmptySeq DEF EmptyHistory, ToSet
    <1>3. TrackedInv' BY <1>1, <1>2 DEF TrackedInv, Sorted
    <1>4. HistoryInv' BY <1>1, <1>2 DEF HistoryInv
    <1>5. AnchorInv' BY <1>2 DEF AnchorInv
    <1> QED BY <1>3, <1>4, <1>5 DEF ChainInv

-----------------------------------------------------------------------------
\* The invariant holds.

\* It holds initially,
LEMMA InitTrackingInv == Init => TrackingInv
    <1> SUFFICES ASSUME Init PROVE TrackingInv OBVIOUS
    <1> USE DEF Init, ModuleInit, Start
    <1>1. SystemInv BY InitSystemInv
    <1>2. ToSet(<<>>) = {} /\ <<>> \in Seq(Txs) /\ DOMAIN <<>> = {}
        BY EmptySeq DEF ToSet
    <1>3. HyliSettled = {} /\ HeardSettled = {} /\ HeardSequenced = {}
        BY DEF HyliSettled, Settled, HeardSettled, HeardSequenced
    <1>4. OrderInv BY <1>2, <1>3 DEF OrderInv, Distinct, IsInjective
    <1>5. TipOf({}, <<>>) BY DEF TipOf
    <1>6. LedgerInv BY <1>3, <1>5 DEF LedgerInv
    <1>7. NodeInv BY <1>4, <1>6 DEF NodeInv, ProofsInv
    <1>8. ListenerInv BY <1>3, <1>5 DEF ListenerInv
    <1>9. DOMAIN stateHistory = {} BY DEF EmptyHistory
    <1>10. ChainInv
        BY <1>2, <1>3, <1>9 DEF ChainInv, TrackedInv, HistoryInv, AnchorInv, Sorted
    <1> QED BY <1>1, <1>7, <1>8, <1>10 DEF TrackingInv

\* every proof the server submits is of an execution that can be proved,
LEMMA NewProofs ==
    ASSUME NEW s, NEW t \in Txs, NEW at \in SUBSET DOMAIN Blobs[t],
           \A i \in at : BuildsProof(s, Blobs[t], i)
    PROVE  \A p \in ProofsOf(s, t, at) :
                p.blob \in DOMAIN Blobs[p.tx] /\ Provable(p.pre, Blobs[p.tx][p.blob])
    BY DEF ProofsOf, BuildsProof

\* a report of a sequenced transaction keeps it,
LEMMA ReportSequencedTracking ==
    ASSUME TrackingInv, NEW t \in Txs, ReportSequenced(t)
    PROVE  TrackingInv'
    <1>1. SystemInv' BY ReportSequencedInv DEF TrackingInv
    <1>2. NodeInv'
        <2> DEFINE before == CurrentState(stateHistory)
                   built == {i \in DOMAIN Blobs[t] : \A j \in 1..i : BuildsProof(before, Blobs[t], j)}
        <2>1. UNCHANGED hyliVars BY DEF ReportSequenced
        <2>2. CASE SequencedCatchingUp(t)
            BY <2>1, <2>2, NodeSame DEF SequencedCatchingUp, TrackingInv
        <2>3. CASE SequencedLive(t)
            <3>1. \A i \in DOMAIN Blobs[t] : BuildsProof(before, Blobs[t], i)
                BY <2>3 DEF SequencedLive
            <3>2. proofs' = proofs \cup ProofsOf(before, t, DOMAIN Blobs[t])
                BY <2>3 DEF SequencedLive
            <3> QED BY <2>1, <3>1, <3>2, NodeSame, NewProofs DEF TrackingInv
        <2>4. CASE SequencedUnprovable(t)
            <3>1. DOMAIN Blobs[t] = 1..Len(Blobs[t]) /\ Len(Blobs[t]) \in Nat
                BY BlobsType, LenProperties
            <3>2. built \in SUBSET DOMAIN Blobs[t] /\ \A i \in built : BuildsProof(before, Blobs[t], i)
                BY <3>1
            <3>3. proofs' = proofs \cup ProofsOf(before, t, built)
                BY <2>4 DEF SequencedUnprovable
            <3> QED BY <2>1, <3>2, <3>3, NodeSame, NewProofs DEF TrackingInv
        <2> QED BY <2>2, <2>3, <2>4 DEF ReportSequenced
    <1>3. ListenerInv' BY ReportSequencedListener DEF TrackingInv
    <1>4. ChainInv'
        BY SequencedCatchingUpChain, SequencedLiveChain, SequencedUnprovableChain
        DEF ReportSequenced
    <1> QED BY <1>1, <1>2, <1>3, <1>4 DEF TrackingInv

\* and so does one of a settled transaction,
LEMMA ReportSettledTracking ==
    ASSUME TrackingInv, NEW t \in Txs, ReportSuccess(t) \/ ReportFailed(t)
    PROVE  TrackingInv'
    <1>1. SystemInv' BY ReportSuccessInv, ReportFailedInv DEF TrackingInv
    <1>2. UNCHANGED <<hyliVars, proofs>>
        BY DEF ReportSuccess, ReportFailed, SettledSuccessCatchingUp, SettledSuccessLive,
               SettledFailedCatchingUp, SettledFailedLive, SettledUntracked
    <1>3. NodeInv' BY <1>2, NodeSame DEF TrackingInv
    <1>4. ListenerInv' BY ReportSettledListener DEF TrackingInv
    <1>5. ChainInv'
        <2>1. CASE SettledUntracked(t) BY <2>1, SettledUntrackedChain
        <2>2. CASE ReportFailed(t) /\ SettledFailedLive(t) BY <2>2, SettledFailedLiveChain
        <2>3. CASE SettledFailedCatchingUp(t)
            BY <2>3, SettledCatchingUpChain DEF SettledFailedCatchingUp
        <2>4. CASE ReportSuccess(t) /\ SettledSuccessLive(t, commitment[t])
            BY <2>4, SettledSuccessLiveChain
        <2>5. CASE SettledSuccessCatchingUp(t, commitment[t])
            <3> DEFINE after == ApplySettled(CurrentState(stateHistory), Blobs[t], commitment[t])
            <3>1. /\ catchingUp /\ txChain' = Drop(txChain, t) /\ todo' = todo
                  /\ pendingProofs' = Drop(pendingProofs, t)
                  /\ \/ stateHistory' = stateHistory
                     \/ stateHistory' = Insert(stateHistory, t, after)
                BY <2>5 DEF SettledSuccessCatchingUp
            <3> HIDE DEF after
            <3>2. stateHistory' = stateHistory \/ \E s : stateHistory' = Insert(stateHistory, t, s)
                BY <3>1
            <3> QED BY <3>1, <3>2, SettledCatchingUpChain
        <2> QED BY <2>1, <2>2, <2>3, <2>4, <2>5 DEF ReportSuccess, ReportFailed
    <1> QED BY <1>1, <1>3, <1>4, <1>5 DEF TrackingInv

\* the server's own steps,
LEMMA ServerTracking ==
    ASSUME TrackingInv, EndBackfill \/ Replay \/ ServerRestart
    PROVE  TrackingInv'
    <1>1. SystemInv' BY ServerStepInv, ServerRestartInv DEF TrackingInv
    <1>2. UNCHANGED hyliVars BY DEF EndBackfill, Replay, ServerRestart
    <1>3. NodeInv'
        <2>1. CASE proofs' = proofs BY <1>2, <2>1, NodeSame DEF TrackingInv
        <2>2. CASE Replay
            <3> DEFINE t == Head(todo)
                       before == CurrentState(stateHistory)
                       built == {i \in DOMAIN Blobs[t] : BuildsProof(before, Blobs[t], i)}
            <3>1. t \in Txs
                BY <2>2, TrackingFacts, HeadTailProperties DEF Replay, ReplayTx
            <3>2. proofs' = proofs \/ proofs' = proofs \cup ProofsOf(before, t, built)
                BY <2>2 DEF Replay, ReplayTx
            <3>3. built \in SUBSET DOMAIN Blobs[t] /\ \A i \in built : BuildsProof(before, Blobs[t], i)
                OBVIOUS
            <3> QED BY <1>2, <3>1, <3>2, <3>3, NodeSame, NewProofs DEF TrackingInv
        <2> QED BY <2>1, <2>2 DEF EndBackfill, BackfillComplete, ServerRestart, Restart
    <1>4. ListenerInv'
        <2>1. CASE ServerRestart BY <2>1, RestartListener
        <2>2. CASE EndBackfill \/ Replay
            <3>1. heard' = heard /\ told' = told
                BY <2>2 DEF EndBackfill, BackfillComplete, Replay, ReplayTx, listenerVars
            <3>2. \A u : Before(u)' = Before(u) BY <1>2, BeforeSame DEF hyliVars
            <3> QED BY <1>2, <3>1, <3>2, ListenerSame DEF hyliVars, TrackingInv, NodeInv
        <2> QED BY <2>1, <2>2
    <1>5. ChainInv' BY EndBackfillChain, ReplayChain, RestartChain
    <1> QED BY <1>1, <1>3, <1>4, <1>5 DEF TrackingInv

\* those of Hyli,
LEMMA HyliTracking ==
    ASSUME TrackingInv, NEW t \in Txs,
           HyliSequences(t) \/ HyliSettlesSuccess(t) \/ HyliSettlesFailed(t)
    PROVE  TrackingInv'
    <1>1. SystemInv'
        BY HyliSequencesInv, HyliSettlesSuccessInv, HyliSettlesFailedInv DEF TrackingInv
    <1>2. NodeInv'
        BY HyliSequencesNode, HyliSettlesSuccessNode, HyliSettlesFailedNode DEF TrackingInv
    <1>3. ListenerInv' BY HyliListener DEF TrackingInv
    <1>4. UNCHANGED moduleVars
        BY DEF HyliSequences, HyliSettlesSuccess, HyliSettlesFailed
    <1>5. \A u \in ToSet(order) : Before(u)' = Before(u)
        <2>1. CASE HyliSequences(t)
            <3>1. t \notin ToSet(order) /\ order' = Append(order, t)
                BY <2>1, TrackingFacts DEF HyliSequences, OrderInv
            <3> QED BY <3>1, TrackingFacts, BeforeAppend
        <2>2. CASE order' = order BY <2>2, BeforeSame
        <2> QED BY <2>1, <2>2 DEF HyliSettlesSuccess, HyliSettlesFailed
    <1>6. ChainInv' BY <1>4, <1>5, ChainSame DEF moduleVars
    <1> QED BY <1>1, <1>2, <1>3, <1>6 DEF TrackingInv

\* and those of a client.
LEMMA ClientTracking ==
    ASSUME TrackingInv,
           \/ \E t \in Txs : Submit(t) \/ Record(t)
           \/ PollTip \/ PollLogs \/ UNCHANGED vars
    PROVE  TrackingInv'
    <1>1. SystemInv'
        <2>1. CASE UNCHANGED vars
            BY <2>1, StutterInv
            DEF TrackingInv, SystemInv, SystemTypes, vars, hyliVars, listenerVars, clientVars
        <2> QED BY <2>1, WalletInv, IndexerInv DEF TrackingInv
    <1>2. /\ UNCHANGED <<hyliVars, proofs, heard, told>>
          /\ UNCHANGED <<pendingProofs, catchingUp, isReady, txChain, stateHistory, todo, heard>>
        BY DEF Submit, SendRawTransaction, Record, RecordSubmission, PollTip, PollLogs, vars,
               moduleVars, listenerVars
    <1>3. \A u : Before(u)' = Before(u) BY <1>2, BeforeSame DEF hyliVars
    <1>4. NodeInv' BY <1>2, NodeSame DEF TrackingInv
    <1>5. ListenerInv'
        BY <1>2, <1>3, ListenerSame DEF hyliVars, TrackingInv, NodeInv
    <1>6. ChainInv' BY <1>2, <1>3, ChainSame
    <1> QED BY <1>1, <1>4, <1>5, <1>6 DEF TrackingInv

\* So does every step of the composed system.
LEMMA TrackingStep ==
    ASSUME TrackingInv, [Next]_vars
    PROVE  TrackingInv'
    BY ReportSequencedTracking, ReportSettledTracking, ServerTracking, HyliTracking,
       ClientTracking DEF Next

\* Hyli, the listener and the server agree, in every state of the composed system, on what
\* was sequenced, settled and reported, in which order, and on what is in flight.
THEOREM TrackingInvariant == Spec => []TrackingInv
    BY InitTrackingInv, TrackingStep, PTL DEF Spec

-----------------------------------------------------------------------------
\* The memory of the speculation.

\* A live settlement leaves no new state behind,
LEMMA SettledLeavesNothing ==
    ASSUME TrackingInv, NEW t \in Txs, ReportSuccess(t) \/ ReportFailed(t), ~catchingUp
    PROVE  Leftovers' \subseteq Leftovers
    <1>1. CASE SettledUntracked(t) BY <1>1 DEF SettledUntracked, Leftovers
    <1>2. CASE ReportSuccess(t) /\ SettledSuccessLive(t, commitment[t])
        <2> DEFINE pos == Position(txChain, t)
                   previous == IF pos > 1 THEN {txChain[pos - 1]} ELSE {}
                   n == Len(txChain)
        <2>1. /\ previous = {txChain[i] : i \in 1..(pos - 1)}
              /\ txChain' = SubSeq(txChain, pos, n)
              /\ DOMAIN stateHistory' = DOMAIN stateHistory \ previous
            BY <1>2, SettledSuccessLiveFacts
        <2>2. /\ n \in Nat /\ DOMAIN txChain = 1..n /\ pos \in 1..n /\ txChain \in Seq(Txs)
            BY <1>2, SettledPosition, TrackingFacts DEF SettledSuccessLive
        <2> HIDE DEF pos, previous
        <2>3. ToSet(txChain') = {txChain[i] : i \in pos..n}
            <3>1. pos \in 1..(Len(txChain) + 1) /\ n \in 0..Len(txChain) BY <2>2
            <3> QED BY <2>1, <2>2, <3>1, SubSeqElements
        <2>4. ToSet(txChain) \subseteq ToSet(txChain') \cup previous
            <3>1. \A i \in 1..n : i \in 1..(pos - 1) \/ i \in pos..n BY <2>2
            <3> QED BY <2>1, <2>2, <2>3, <3>1 DEF ToSet
        <2> QED BY <2>1, <2>4 DEF Leftovers
    <1>3. CASE SettledFailedLive(t)
        <2> DEFINE pos == Position(txChain, t)
                   after == SubSeq(txChain, pos + 1, Len(txChain))
        <2>1. /\ t \in ToSet(txChain) /\ txChain' = RemoveAt(txChain, pos)
              /\ DOMAIN stateHistory' = DOMAIN stateHistory \ ({t} \cup ToSet(after))
            BY <1>3 DEF SettledFailedLive, Invalidated, Without, Restrict
        <2>2. Distinct(txChain) /\ pos \in DOMAIN txChain /\ txChain[pos] = t
            BY <2>1, TrackingFacts, PositionOf
        <2> HIDE DEF pos, after
        <2>3. ToSet(txChain') = ToSet(txChain) \ {t} BY <2>1, <2>2, RemoveAtDistinct
        <2> QED BY <2>1, <2>3 DEF Leftovers
    <1> QED BY <1>1, <1>2, <1>3
            DEF ReportSuccess, ReportFailed, SettledSuccessCatchingUp, SettledFailedCatchingUp

\* and neither does an execution.
LEMMA ExecutedLeavesNothing ==
    ASSUME TrackingInv, ~catchingUp, Replay \/ \E t \in Txs : ReportSequenced(t)
    PROVE  Leftovers' \subseteq Leftovers
    <1>1. ASSUME NEW t, t \in ToSet(txChain'), NEW s, stateHistory' = Insert(stateHistory, t, s),
                 ToSet(txChain) \subseteq ToSet(txChain')
          PROVE  Leftovers' \subseteq Leftovers
        BY <1>1 DEF Insert, Leftovers
    <1>2. CASE stateHistory' = stateHistory /\ txChain' = txChain BY <1>2 DEF Leftovers
    <1>3. CASE Replay
        <2>1. /\ txChain' = txChain
              /\ \/ stateHistory' = stateHistory
                 \/ /\ Head(todo) \in ToSet(pendingProofs)
                    /\ stateHistory' = Insert(stateHistory, Head(todo),
                            ApplySpeculative(CurrentState(stateHistory), Blobs[Head(todo)]))
            BY <1>3 DEF Replay, ReplayTx
        <2>2. ToSet(pendingProofs) \subseteq ToSet(txChain)
            BY DEF TrackingInv, ChainInv, TrackedInv
        <2> QED BY <1>1, <1>2, <2>1, <2>2
    <1>4. ASSUME NEW t \in Txs, ReportSequenced(t) PROVE Leftovers' \subseteq Leftovers
        <2>1. CASE SequencedLive(t)
            <3>1. /\ stateHistory' = Insert(stateHistory, t,
                            ApplySpeculative(CurrentState(stateHistory), Blobs[t]))
                  /\ txChain' = Append(txChain, t)
                BY <2>1 DEF SequencedLive
            <3>2. ToSet(txChain') = ToSet(txChain) \cup {t}
                BY <1>4, <3>1, SequencedFacts, TrackingFacts, AppendDistinct
            <3> QED BY <1>1, <3>1, <3>2
        <2> QED BY <1>2, <1>4, <2>1
                DEF ReportSequenced, SequencedCatchingUp, SequencedUnprovable
    <1> QED BY <1>3, <1>4

\* Once live, no step leaves a state in state_history whose transaction left tx_chain: what
\* is kept is what was settled during catch-up, and what is tracked.
THEOREM MemoryBounded == Spec => LiveLeavesNothing
    <1>1. TrackingInv /\ [Next]_vars => [~catchingUp => Leftovers' \subseteq Leftovers]_vars
        <2> SUFFICES ASSUME TrackingInv, Next, ~catchingUp PROVE Leftovers' \subseteq Leftovers
            OBVIOUS
        <2>1. CASE UNCHANGED <<stateHistory, txChain>> BY <2>1 DEF Leftovers
        <2>2. CASE ServerRestart
            BY <2>2 DEF ServerRestart, Restart, EmptyHistory, Leftovers
        <2>3. CASE Replay \/ \E t \in Txs : ReportSequenced(t) BY <2>3, ExecutedLeavesNothing
        <2>4. CASE \E t \in Txs : ReportSuccess(t) \/ ReportFailed(t)
            BY <2>4, SettledLeavesNothing
        <2> QED BY <2>1, <2>2, <2>3, <2>4
                DEF Next, HyliSequences, HyliSettlesSuccess, HyliSettlesFailed, Submit,
                    SendRawTransaction, Record, RecordSubmission, EndBackfill, BackfillComplete,
                    PollTip, PollLogs, moduleVars
    <1> QED BY <1>1, TrackingInvariant, PTL DEF Spec, LiveLeavesNothing

-----------------------------------------------------------------------------
\* What is given up.

ProofFor(t, i) == \E p \in proofs : p.tx = t /\ p.blob = i

\* Proofs are of transactions this run of the server was told of, or an earlier run; a
\* transaction given up when it was sequenced has a blob without a proof, so that it cannot
\* succeed while nobody else proves.
ProverInv ==
    /\ backlog \subseteq ToSet(order)
    /\ ~catchingUp => \A t \in backlog : heard[t] # "nothing"
    /\ \A p \in proofs : p.tx \in Txs /\ (p.tx \in backlog \/ heard[p.tx] # "nothing")
    /\ ~catchingUp =>
        \A t \in HeardSequenced \ ToSet(txChain) : \E i \in DOMAIN Blobs[t] : ~ProofFor(t, i)
    /\ ~OtherProvers =>
        /\ \A t \in Txs : status[t] = "success" => \A i \in DOMAIN Blobs[t] : ProofFor(t, i)
        /\ ~skipped

\* A step that submits proofs of tracked transactions only, and gives up none.
LEMMA ProverSame ==
    ASSUME TrackingInv, TrackingInv', ProverInv,
           proofs \subseteq proofs', \A p \in proofs' \ proofs : p.tx \in ToSet(txChain'),
           \A u \in Txs : heard[u] # "nothing" => heard'[u] # "nothing",
           ToSet(order) \subseteq ToSet(order)', backlog' = backlog,
           catchingUp' = catchingUp,
           ~catchingUp => HeardSequenced' \ ToSet(txChain') \subseteq HeardSequenced \ ToSet(txChain),
           \A u \in Txs : status'[u] = "success" /\ status[u] # "success" =>
                OtherProvers \/ \A i \in DOMAIN Blobs[u] : ProofFor(u, i),
           ~OtherProvers => ~skipped'
    PROVE  ProverInv'
    <1>1. backlog' \subseteq ToSet(order)' /\ backlog \subseteq Txs
        BY DEF ProverInv, TrackingInv, SystemInv, SystemTypes
    <1>2. \A u \in ToSet(txChain') : u \in Txs /\ heard'[u] # "nothing"
        <2>1. txChain' \in Seq(Txs) /\ \A u \in ToSet(txChain') : heard'[u] # "nothing"
            BY DEF TrackingInv, SystemInv, Inv, TypeOK, Tracking
        <2>2. \A i \in DOMAIN txChain' : txChain'[i] \in Txs BY <2>1, LenProperties, ElementOfSeq
        <2> QED BY <2>1, <2>2 DEF ToSet
    <1>3. \A p \in proofs' : p.tx \in Txs /\ (p.tx \in backlog' \/ heard'[p.tx] # "nothing")
        BY <1>2 DEF ProverInv
    <1>4. \A u, i : ProofFor(u, i) => ProofFor(u, i)' BY DEF ProofFor
    <1>5. \A u, i : ProofFor(u, i)' => ProofFor(u, i) \/ u \in ToSet(txChain') BY DEF ProofFor
    <1>6. ~catchingUp' =>
            \A u \in HeardSequenced' \ ToSet(txChain') : \E i \in DOMAIN Blobs[u] : ~ProofFor(u, i)'
        BY <1>5 DEF ProverInv
    <1>7. ~catchingUp' => \A u \in backlog' : heard'[u] # "nothing"
        BY <1>1 DEF ProverInv
    <1>8. ~OtherProvers =>
            \A u \in Txs : status'[u] = "success" => \A i \in DOMAIN Blobs[u] : ProofFor(u, i)'
        BY <1>4 DEF ProverInv
    <1> QED BY <1>1, <1>3, <1>6, <1>7, <1>8 DEF ProverInv

\* The proofs of one transaction are of that transaction.
LEMMA ProofsOfTx ==
    ASSUME NEW s, NEW t, NEW at
    PROVE  \A p \in ProofsOf(s, t, at) : p.tx = t /\ p.blob \in at
    BY DEF ProofsOf

\* A report that a transaction was sequenced: proved and tracked, or given up.
LEMMA ReportSequencedProver ==
    ASSUME TrackingInv, TrackingInv', ProverInv, NEW t \in Txs, ReportSequenced(t)
    PROVE  ProverInv'
    <1> DEFINE before == CurrentState(stateHistory)
               built == {i \in DOMAIN Blobs[t] : \A j \in 1..i : BuildsProof(before, Blobs[t], j)}
    <1>1. /\ heard[t] = "nothing" /\ HeardSequenced' = HeardSequenced \cup {t}
          /\ \A u \in Txs : heard'[u] = IF u = t THEN "sequenced" ELSE heard[u]
          /\ t \notin ToSet(txChain)
        BY SequencedFacts
    <1>2. /\ order' = order /\ status' = status /\ backlog' = backlog /\ skipped' = skipped
          /\ catchingUp' = catchingUp
        BY DEF ReportSequenced, hyliVars, listenerVars, SequencedCatchingUp, SequencedLive,
               SequencedUnprovable
    <1>3. CASE SequencedCatchingUp(t) \/ SequencedLive(t)
        <2>1. txChain' = Append(txChain, t)
            BY <1>3 DEF SequencedCatchingUp, SequencedLive
        <2>2. ToSet(txChain') = ToSet(txChain) \cup {t}
            BY <1>1, <2>1, TrackingFacts, AppendDistinct
        <2>3. proofs' = proofs \/ proofs' = proofs \cup ProofsOf(before, t, DOMAIN Blobs[t])
            BY <1>3 DEF SequencedCatchingUp, SequencedLive
        <2>4. proofs \subseteq proofs' /\ \A p \in proofs' \ proofs : p.tx \in ToSet(txChain')
            BY <2>2, <2>3, ProofsOfTx
        <2>5. ~OtherProvers => ~skipped' BY <1>2 DEF ProverInv
        <2> QED BY <1>1, <1>2, <2>2, <2>4, <2>5, ProverSame
    <1>4. CASE SequencedUnprovable(t)
        <2>1. /\ ~catchingUp /\ built # DOMAIN Blobs[t] /\ txChain' = txChain
              /\ proofs' = proofs \cup ProofsOf(before, t, built)
            BY <1>4 DEF SequencedUnprovable
        <2> HIDE DEF before
        <2>2. PICK i \in DOMAIN Blobs[t] : i \notin built BY <2>1
        <2> HIDE DEF built
        <2>3. ~ProofFor(t, i)'
            <3>1. \A p \in proofs : p.tx # t BY <1>1, <2>1 DEF ProverInv
            <3> QED BY <2>1, <2>2, <3>1, ProofsOfTx DEF ProofFor
        <2>4. \A u, j : u # t => (ProofFor(u, j)' <=> ProofFor(u, j))
            BY <2>1, ProofsOfTx DEF ProofFor
        <2>5. \A u \in HeardSequenced' \ ToSet(txChain') : \E j \in DOMAIN Blobs[u] : ~ProofFor(u, j)'
            BY <1>1, <2>1, <2>2, <2>3, <2>4 DEF ProverInv
        <2>6. \A p \in proofs' : p.tx \in Txs /\ (p.tx \in backlog' \/ heard'[p.tx] # "nothing")
            BY <1>1, <1>2, <2>1, ProofsOfTx DEF ProverInv
        <2>7. ~OtherProvers =>
                /\ \A u \in Txs : status'[u] = "success" => \A j \in DOMAIN Blobs[u] : ProofFor(u, j)'
                /\ ~skipped'
            <3>1. \A u, j : ProofFor(u, j) => ProofFor(u, j)' BY <2>1 DEF ProofFor
            <3> QED BY <1>2, <3>1 DEF ProverInv
        <2>8. backlog' \subseteq ToSet(order)' /\ \A u \in backlog' : heard'[u] # "nothing"
            <3>1. backlog \subseteq Txs BY DEF TrackingInv, SystemInv, SystemTypes
            <3> QED BY <1>1, <1>2, <2>1, <3>1 DEF ProverInv
        <2> QED BY <2>5, <2>6, <2>7, <2>8 DEF ProverInv
    <1> QED BY <1>3, <1>4 DEF ReportSequenced

\* A report that one settled: what the server does not track has no proof, and did not
\* succeed, unless somebody else proves.
LEMMA ReportSettledProver ==
    ASSUME TrackingInv, TrackingInv', ProverInv, NEW t \in Txs, ReportSuccess(t) \/ ReportFailed(t)
    PROVE  ProverInv'
    <1>1. /\ HeardSequenced' = HeardSequenced \ {t} /\ (~catchingUp => heard[t] = "sequenced")
          /\ \A u \in Txs : heard'[u] = IF u = t THEN "settled" ELSE heard[u]
          /\ catchingUp' = catchingUp /\ HeardSettled' = HeardSettled \cup {t}
        BY SettledFacts
    <1>2. order' = order /\ status' = status /\ backlog' = backlog /\ proofs' = proofs
        BY DEF ReportSuccess, ReportFailed, hyliVars, listenerVars, SettledSuccessCatchingUp,
               SettledSuccessLive, SettledFailedCatchingUp, SettledFailedLive, SettledUntracked
    <1>3. ~OtherProvers => ~skipped'
        <2> SUFFICES ASSUME ~OtherProvers, skipped' PROVE FALSE OBVIOUS
        <2>1. ~skipped BY DEF ProverInv
        <2>2. ReportSuccess(t) /\ SettledUntracked(t)
            BY <2>1 DEF ReportSuccess, ReportFailed, listenerVars
        <2>3. /\ t \in HeardSequenced \ ToSet(txChain) /\ ~catchingUp /\ status[t] = "success"
            BY <1>1, <2>2 DEF SettledUntracked, HeardSequenced, ReportSuccess
        <2> QED BY <2>3 DEF ProverInv
    <1>4. ~catchingUp => HeardSequenced' \ ToSet(txChain') \subseteq HeardSequenced \ ToSet(txChain)
        <2> SUFFICES ASSUME ~catchingUp
                     PROVE  ToSet(txChain) \cap HeardSequenced' \subseteq ToSet(txChain')
            BY <1>1
        <2>1. ToSet(pendingProofs') = ToSet(txChain') \cap HeardSequenced'
            BY DEF TrackingInv, ChainInv, TrackedInv
        <2>2. ToSet(pendingProofs) = ToSet(txChain) \cap HeardSequenced
            BY DEF TrackingInv, ChainInv, TrackedInv
        <2>3. ToSet(pendingProofs) \ {t} \subseteq ToSet(pendingProofs')
            <3>1. pendingProofs' = pendingProofs \/ pendingProofs' = Drop(pendingProofs, t)
                BY DEF ReportSuccess, ReportFailed, SettledSuccessCatchingUp, SettledSuccessLive,
                       SettledFailedCatchingUp, SettledFailedLive, SettledUntracked
            <3> QED BY <3>1, TrackingFacts, DropDistinct
        <2> QED BY <1>1, <2>1, <2>2, <2>3
    <1>5. \A u \in Txs : heard[u] # "nothing" => heard'[u] # "nothing" BY <1>1
    <1> QED BY <1>1, <1>2, <1>3, <1>4, <1>5, ProverSame

\* The server's own steps.
LEMMA ServerProver ==
    ASSUME TrackingInv, TrackingInv', ProverInv, EndBackfill \/ Replay \/ ServerRestart
    PROVE  ProverInv'
    <1>1. CASE EndBackfill
        <2>1. /\ \A t \in backlog : heard[t] # "nothing"
              /\ UNCHANGED <<order, status, backlog, skipped, proofs, heard, txChain>>
              /\ catchingUp
            BY <1>1 DEF EndBackfill, BackfillComplete, hyliVars, listenerVars
        <2>2. HeardSequenced' \subseteq ToSet(txChain')
            BY <2>1 DEF HeardSequenced, TrackingInv, ChainInv, TrackedInv
        <2>3. \A t, i : ProofFor(t, i)' <=> ProofFor(t, i) BY <2>1 DEF ProofFor
        <2> QED BY <2>1, <2>2, <2>3 DEF ProverInv
    <1>2. CASE Replay
        <2> DEFINE t == Head(todo)
                   before == CurrentState(stateHistory)
                   built == {i \in DOMAIN Blobs[t] : BuildsProof(before, Blobs[t], i)}
        <2>1. /\ UNCHANGED <<order, status, backlog, skipped, heard, txChain, catchingUp>>
              /\ \/ proofs' = proofs
                 \/ t \in ToSet(pendingProofs) /\ proofs' = proofs \cup ProofsOf(before, t, built)
            BY <1>2 DEF Replay, ReplayTx, hyliVars, listenerVars
        <2> HIDE DEF t, before, built
        <2>2. ToSet(pendingProofs) \subseteq ToSet(txChain)
            BY DEF TrackingInv, ChainInv, TrackedInv
        <2>3. proofs \subseteq proofs' /\ \A p \in proofs' \ proofs : p.tx \in ToSet(txChain')
            BY <2>1, <2>2, ProofsOfTx
        <2>4. HeardSequenced' = HeardSequenced BY <2>1 DEF HeardSequenced
        <2>5. ~OtherProvers => ~skipped' BY <2>1 DEF ProverInv
        <2> QED BY <2>1, <2>3, <2>4, <2>5, ProverSame
    <1>3. CASE ServerRestart
        <2>1. /\ backlog' = ToSet(order) /\ catchingUp' /\ ~skipped'
              /\ UNCHANGED <<order, status, proofs>>
            BY <1>3 DEF ServerRestart, Restart, hyliVars
        <2>2. \A p \in proofs : p.tx \in Txs /\ p.tx \in ToSet(order)
            BY TrackingFacts DEF ProverInv
        <2>3. \A t, i : ProofFor(t, i)' <=> ProofFor(t, i) BY <2>1 DEF ProofFor
        <2> QED BY <2>1, <2>2, <2>3 DEF ProverInv
    <1> QED BY <1>1, <1>2, <1>3

\* Those of Hyli, and of a client.
LEMMA OtherProver ==
    ASSUME TrackingInv, TrackingInv', ProverInv,
           \/ \E t \in Txs : HyliSequences(t) \/ HyliSettlesSuccess(t) \/ HyliSettlesFailed(t)
           \/ \E t \in Txs : Submit(t) \/ Record(t)
           \/ PollTip \/ PollLogs \/ UNCHANGED vars
    PROVE  ProverInv'
    <1>1. UNCHANGED <<proofs, heard, txChain, catchingUp, backlog, skipped>>
        BY DEF HyliSequences, HyliSettlesSuccess, HyliSettlesFailed, Submit, SendRawTransaction,
               Record, RecordSubmission, PollTip, PollLogs, vars, moduleVars, listenerVars
    <1>2. HeardSequenced' = HeardSequenced BY <1>1 DEF HeardSequenced
    <1>3. ToSet(order) \subseteq ToSet(order)'
        <2>1. CASE \E t \in Txs : HyliSequences(t)
            <3>1. PICK t \in Txs : HyliSequences(t) BY <2>1
            <3>2. t \notin ToSet(order) /\ order' = Append(order, t)
                BY <3>1, TrackingFacts DEF HyliSequences, OrderInv
            <3> QED BY <3>2, TrackingFacts, AppendDistinct
        <2>2. CASE order' = order BY <2>2
        <2> QED BY <2>1, <2>2
                DEF HyliSettlesSuccess, HyliSettlesFailed, Submit, Record, PollTip, PollLogs,
                    vars, hyliVars
    <1>4. \A u \in Txs : status'[u] = "success" /\ status[u] # "success" =>
                OtherProvers \/ \A i \in DOMAIN Blobs[u] : ProofFor(u, i)
        <2>1. CASE \E t \in Txs : HyliSettlesSuccess(t)
            <3>1. PICK t \in Txs : HyliSettlesSuccess(t) BY <2>1
            <3>2. /\ status' = [status EXCEPT ![t] = "success"]
                  /\ Proved(t) \/ OtherProvers
                BY <3>1 DEF HyliSettlesSuccess
            <3>3. Proved(t) => \A i \in DOMAIN Blobs[t] : ProofFor(t, i)
                BY DEF Proved, ProofFor
            <3> QED BY <3>2, <3>3 DEF TrackingInv, SystemInv, SystemTypes
        <2>2. CASE \E t \in Txs : HyliSettlesFailed(t) \/ HyliSequences(t)
            BY <2>2 DEF HyliSettlesFailed, HyliSequences, TrackingInv, SystemInv, SystemTypes
        <2>3. CASE status' = status BY <2>3
        <2> QED BY <2>1, <2>2, <2>3 DEF Submit, Record, PollTip, PollLogs, vars, hyliVars
    <1>5. ~OtherProvers => ~skipped' BY <1>1 DEF ProverInv
    <1> QED BY <1>1, <1>2, <1>3, <1>4, <1>5, ProverSame

\* Whoever proves, what is tracked and what is given up agree in every state.
THEOREM ProverInvariant == Spec => []ProverInv
    <1>1. Init => ProverInv
        <2> SUFFICES ASSUME Init PROVE ProverInv OBVIOUS
        <2>1. backlog \subseteq ToSet(order) /\ catchingUp /\ proofs = {} /\ ~skipped
            BY DEF Init, ModuleInit, Start
        <2>2. \A t \in Txs : status[t] # "success" BY DEF Init
        <2> QED BY <2>1, <2>2 DEF ProverInv
    <1>2. TrackingInv /\ TrackingInv' /\ ProverInv /\ [Next]_vars => ProverInv'
        BY ReportSequencedProver, ReportSettledProver, ServerProver, OtherProver DEF Next
    <1> QED BY <1>1, <1>2, TrackingInvariant, PTL DEF Spec

\* While nobody else proves, the server never ignores a success: what it gave up, because a
\* proof could not be built, does not succeed, across rollbacks, replays and restarts.
THEOREM NeverSkipsAlone == ASSUME ~OtherProvers PROVE Spec => []NeverSkips
    <1>1. ProverInv => NeverSkips BY DEF ProverInv, NeverSkips
    <1> QED BY <1>1, ProverInvariant, PTL

-----------------------------------------------------------------------------
\* What is in flight.

\* What Append adds.
LEMMA AppendToSet ==
    ASSUME NEW s \in Seq(Txs), NEW x \in Txs
    PROVE  ToSet(Append(s, x)) = ToSet(s) \cup {x}
    <1> DEFINE new == Append(s, x)
    <1>1. /\ Len(s) \in Nat /\ DOMAIN s = 1..Len(s) /\ DOMAIN new = 1..(Len(s) + 1)
          /\ \A i \in 1..Len(s) : new[i] = s[i]
          /\ new[Len(s) + 1] = x
        BY LenProperties, AppendProperties
    <1>2. 1..(Len(s) + 1) = 1..Len(s) \cup {Len(s) + 1} BY <1>1
    <1> HIDE DEF new
    <1>3. ToSet(new) = {new[i] : i \in 1..Len(s)} \cup {x} BY <1>1, <1>2 DEF ToSet
    <1>4. {new[i] : i \in 1..Len(s)} = ToSet(s) BY <1>1 DEF ToSet
    <1> QED BY <1>3, <1>4 DEF new

\* Of two sequences in Hyli's order with the same elements, neither ends before the other or
\* differs from it,
LEMMA SortedPrefix ==
    ASSUME Distinct(order), NEW s \in Seq(Txs), NEW u \in Seq(Txs), Sorted(s), Sorted(u),
           ToSet(s) = ToSet(u)
    PROVE  \A i \in 1..Len(s) : i <= Len(u) /\ s[i] = u[i]
    <1> DEFINE bad == {i \in 1..Len(s) : ~ (i <= Len(u) /\ s[i] = u[i])}
    <1>1. /\ Len(s) \in Nat /\ DOMAIN s = 1..Len(s)
          /\ Len(u) \in Nat /\ DOMAIN u = 1..Len(u)
        BY LenProperties
    <1>2. /\ \A x : x \notin Before(x)
          /\ \A x, y : x \in Before(y) => y \notin Before(x)
        BY BeforeOrder
    <1>3. ASSUME bad # {} PROVE FALSE
        <2>1. bad \subseteq Nat BY <1>1
        <2>2. PICK i \in bad : \A j \in bad : i <= j
            <3> HIDE DEF bad
            <3> QED BY <1>3, <2>1, LeastNat
        <2>3. i \in 1..Len(s) /\ ~ (i <= Len(u) /\ s[i] = u[i]) OBVIOUS
        <2>4. ASSUME NEW p \in 1..Len(s), p < i PROVE p <= Len(u) /\ s[p] = u[p]
            <3>1. p \notin bad
                <4> HIDE DEF bad
                <4> QED BY <1>1, <2>2, <2>3, <2>4
            <3> QED BY <3>1
        <2>5. PICK p \in 1..Len(u) : u[p] = s[i]
            <3>1. s[i] \in ToSet(s) BY <1>1, <2>3 DEF ToSet
            <3> QED BY <1>1, <3>1 DEF ToSet
        <2>6. ~ (p < i)
            <3> SUFFICES ASSUME p < i PROVE FALSE OBVIOUS
            <3>1. p \in 1..Len(s) BY <1>1, <2>3, <2>5
            <3>2. s[p] \in Before(s[i]) BY <1>1, <2>3, <3>1 DEF Sorted
            <3> QED BY <1>2, <2>4, <2>5, <3>1, <3>2
        <2>7. i \in 1..Len(u) /\ i < p
            <3>1. p # i BY <1>1, <2>3, <2>5
            <3> QED BY <1>1, <2>3, <2>5, <2>6, <3>1
        <2>8. u[i] \in Before(s[i]) BY <1>1, <2>5, <2>7 DEF Sorted
        <2>9. PICK q \in 1..Len(s) : s[q] = u[i]
            <3>1. u[i] \in ToSet(u) BY <1>1, <2>7 DEF ToSet
            <3> QED BY <1>1, <3>1 DEF ToSet
        <2>10. CASE q < i
            <3>1. u[q] = u[i] /\ q \in 1..Len(u) BY <1>1, <2>4, <2>9, <2>10
            <3>2. u[q] \in Before(u[i]) BY <1>1, <2>7, <2>10, <3>1 DEF Sorted
            <3> QED BY <1>2, <3>1, <3>2
        <2>11. CASE q = i BY <1>2, <2>8, <2>9, <2>11
        <2>12. CASE i < q
            <3>1. s[i] \in Before(u[i]) BY <1>1, <2>3, <2>9, <2>12 DEF Sorted
            <3> QED BY <1>2, <2>8, <3>1
        <2> QED BY <1>1, <2>3, <2>9, <2>10, <2>11, <2>12
    <1> QED BY <1>3

\* so that they are the same.
LEMMA SortedUnique ==
    ASSUME Distinct(order), NEW s \in Seq(Txs), NEW u \in Seq(Txs), Sorted(s), Sorted(u),
           ToSet(s) = ToSet(u)
    PROVE  s = u
    <1>1. Len(s) \in Nat /\ Len(u) \in Nat BY LenProperties
    <1>2. \A i \in 1..Len(s) : i <= Len(u) /\ s[i] = u[i] BY SortedPrefix
    <1>3. \A i \in 1..Len(u) : i <= Len(s) /\ u[i] = s[i] BY SortedPrefix
    <1>4. Len(s) = Len(u)
        <2>1. Len(s) # 0 => Len(s) \in 1..Len(s) BY <1>1
        <2>2. Len(u) # 0 => Len(u) \in 1..Len(u) BY <1>1
        <2> QED BY <1>1, <1>2, <1>3, <2>1, <2>2
    <1> QED BY <1>2, <1>4, SeqEqual

\* Keeping goes through the sequence element by element.
KeptBy(seq, S, g) ==
    /\ g \in [0..Len(seq) -> Seq(Txs)]
    /\ g[0] = <<>>
    /\ \A i \in 1..Len(seq) :
        g[i] = IF seq[i] \in S THEN Append(g[i - 1], seq[i]) ELSE g[i - 1]

LEMMA KeptSteps ==
    ASSUME NEW seq \in Seq(Txs), NEW S
    PROVE  \E g : KeptBy(seq, S, g) /\ Kept(seq, S) = g[Len(seq)]
    <1> DEFINE n == Len(seq)
               step(f) == [i \in 0..n |->
                    IF i = 0 THEN <<>>
                    ELSE IF seq[i] \in S THEN Append(f[i - 1], seq[i])
                    ELSE f[i - 1]]
    <1>1. n \in Nat /\ \A i \in 1..n : seq[i] \in Txs BY LenProperties, ElementOfSeq
    <1>2. PICK T : T = Seq(Txs) OBVIOUS
    <1>3. PICK op : op = [p \in T \X (1..n) |->
                            IF seq[p[2]] \in S THEN Append(p[1], seq[p[2]]) ELSE p[1]]
        OBVIOUS
    <1>4. PICK g \in [0..n -> T] : g[0] = <<>> /\ \A i \in 1..n : g[i] = op[<<g[i - 1], i>>]
        <2>1. op \in [T \X (1..n) -> T]
            <3> SUFFICES ASSUME NEW p \in T \X (1..n), seq[p[2]] \in S
                         PROVE  Append(p[1], seq[p[2]]) \in T
                BY <1>3
            <3>1. p[1] \in Seq(Txs) /\ seq[p[2]] \in Txs BY <1>1, <1>2
            <3> QED BY <1>2, <3>1, AppendProperties
        <2>2. PICK a : a = <<>> OBVIOUS
        <2>3. a \in T BY <1>2, <2>2, EmptySeq
        <2>4. HasFold(T, a, n, op) BY ONLY <1>1, <2>1, <2>3, FoldExists
        <2> QED BY <2>2, <2>4 DEF HasFold
    <1>5. ASSUME NEW i \in 1..n
          PROVE  /\ i - 1 \in 0..n
                 /\ g[i] = IF seq[i] \in S THEN Append(g[i - 1], seq[i]) ELSE g[i - 1]
        <2>1. i - 1 \in 0..n BY <1>1
        <2>2. <<g[i - 1], i>> \in T \X (1..n) BY <2>1
        <2> QED BY <1>2, <1>3, <1>4, <2>1, <2>2
    <1>6. g = step(g)
        <2>1. ASSUME NEW i \in 0..n PROVE g[i] = step(g)[i]
            <3>1. CASE i = 0 BY <1>4, <3>1
            <3>2. CASE i # 0
                <4>1. i \in 1..n BY <1>1, <3>2
                <4> QED BY <1>5, <3>2, <4>1
            <3> QED BY <3>1, <3>2
        <2> QED BY <1>4, <2>1
    <1>7. ASSUME NEW f, f = step(f) PROVE f[n] = g[n]
        <2> DEFINE P == {i \in 0..n : f[i] = g[i]}
        <2>1. 0 \in P
            <3>1. f[0] = step(f)[0] /\ step(f)[0] = <<>> BY <1>1, <1>7
            <3> QED BY <1>1, <1>4, <3>1
        <2>2. ASSUME NEW i \in 1..n, i - 1 \in P PROVE i \in P
            <3>1. i \in 0..n /\ i # 0 /\ f[i - 1] = g[i - 1] BY <1>1, <2>2
            <3>2. step(f)[i] = IF seq[i] \in S THEN Append(f[i - 1], seq[i]) ELSE f[i - 1]
                BY <3>1
            <3>3. f[i] = step(f)[i] BY <1>7
            <3>4. f[i] = g[i]
                <4> HIDE DEF step
                <4> QED BY <1>5, <3>1, <3>2, <3>3
            <3> QED BY <3>1, <3>4
        <2>3. 0..n \subseteq P
            <3> HIDE DEF P
            <3> QED BY <1>1, <2>1, <2>2, CountUp
        <2>4. n \in P BY <1>1, <2>3
        <2> QED BY <2>4
    <1>8. Kept(seq, S) = g[n]
        <2>1. Kept(seq, S) = (CHOOSE f : f = step(f))[n] BY DEF Kept
        <2> HIDE DEF step
        <2>2. PICK f : f = step(f) /\ f = CHOOSE h : h = step(h) BY <1>6
        <2> QED BY <1>7, <2>1, <2>2
    <1> QED BY <1>2, <1>4, <1>5, <1>8 DEF KeptBy

\* What is kept of a sequence with one element more.
LEMMA KeptAppend ==
    ASSUME NEW seq \in Seq(Txs), NEW t \in Txs, NEW S
    PROVE  Kept(Append(seq, t), S) = IF t \in S THEN Append(Kept(seq, S), t) ELSE Kept(seq, S)
    <1>1. PICK long, n : long = Append(seq, t) /\ n = Len(seq) OBVIOUS
    <1>2. /\ n \in Nat /\ long \in Seq(Txs) /\ Len(long) = n + 1 /\ long[n + 1] = t
          /\ \A i \in 1..n : long[i] = seq[i]
        BY <1>1, LenProperties, AppendProperties
    <1>3. PICK g : KeptBy(seq, S, g) /\ Kept(seq, S) = g[n] BY <1>1, KeptSteps
    <1>4. PICK h : KeptBy(long, S, h) /\ Kept(long, S) = h[n + 1] BY <1>2, KeptSteps
    <1> DEFINE P == {i \in 0..n : g[i] = h[i]}
    <1>5. 0 \in P BY <1>2, <1>3, <1>4 DEF KeptBy
    <1>6. ASSUME NEW i \in 1..n, i - 1 \in P PROVE i \in P
        <2>1. i \in 0..n /\ i \in 1..(n + 1) /\ g[i - 1] = h[i - 1] BY <1>2, <1>6
        <2>2. /\ g[i] = IF seq[i] \in S THEN Append(g[i - 1], seq[i]) ELSE g[i - 1]
              /\ h[i] = IF long[i] \in S THEN Append(h[i - 1], long[i]) ELSE h[i - 1]
            BY <1>1, <1>2, <1>3, <1>4, <2>1 DEF KeptBy
        <2>3. g[i] = h[i] BY <1>2, <2>1, <2>2
        <2> QED BY <2>1, <2>3
    <1>7. 0..n \subseteq P
        <2> HIDE DEF P
        <2> QED BY <1>2, <1>5, <1>6, CountUp
    <1>8. g[n] = h[n]
        <2>1. n \in P BY <1>2, <1>7
        <2> QED BY <2>1
    <1>9. h[n + 1] = IF t \in S THEN Append(h[n], t) ELSE h[n]
        <2>1. n + 1 \in 1..(n + 1) /\ n + 1 - 1 = n BY <1>2
        <2>2. h[n + 1] = IF long[n + 1] \in S THEN Append(h[n + 1 - 1], long[n + 1]) ELSE h[n + 1 - 1]
            BY <1>2, <1>4, <2>1 DEF KeptBy
        <2> QED BY <1>2, <2>1, <2>2
    <1> QED BY <1>1, <1>3, <1>4, <1>8, <1>9

\* What is kept of a sequence in Hyli's order is in that order, and is what it should be.
LEMMA KeptSorted ==
    ASSUME NEW seq \in Seq(Txs), Sorted(seq), NEW S
    PROVE  /\ Kept(seq, S) \in Seq(Txs)
           /\ Sorted(Kept(seq, S))
           /\ ToSet(Kept(seq, S)) = ToSet(seq) \cap S
    <1>1. PICK n : n = Len(seq) OBVIOUS
    <1>2. n \in Nat /\ DOMAIN seq = 1..n /\ \A i \in 1..n : seq[i] \in Txs
        BY <1>1, LenProperties, ElementOfSeq
    <1>3. PICK g : KeptBy(seq, S, g) /\ Kept(seq, S) = g[n] BY <1>1, KeptSteps
    <1> DEFINE Good(i) == Sorted(g[i]) /\ ToSet(g[i]) = {seq[j] : j \in 1..i} \cap S
               P == {i \in 0..n : Good(i)}
    <1>4. 0 \in P
        <2>1. ToSet(<<>>) = {} /\ Sorted(<<>>) BY DEF ToSet, Sorted
        <2>2. {seq[j] : j \in 1..0} = {} OBVIOUS
        <2> QED BY <1>2, <1>3, <2>1, <2>2 DEF KeptBy
    <1>5. ASSUME NEW i \in 1..n, Good(i - 1) PROVE Good(i)
        <2>1. {seq[j] : j \in 1..i} = {seq[j] : j \in 1..(i - 1)} \cup {seq[i]}
            <3>1. 1..i = 1..(i - 1) \cup {i} BY <1>2
            <3> QED BY <3>1
        <2>2. PICK x, s : x = seq[i] /\ s = g[i - 1] OBVIOUS
        <2>3. /\ x \in Txs /\ s \in Seq(Txs)
              /\ g[i] = IF x \in S THEN Append(s, x) ELSE s
            <3>1. i - 1 \in 0..n BY <1>2
            <3> QED BY <1>1, <1>2, <1>3, <2>2, <3>1 DEF KeptBy
        <2>4. CASE x \in S
            <3>1. g[i] = Append(s, x) /\ Sorted(s) BY <1>5, <2>2, <2>3, <2>4
            <3>2. \A j \in 1..(i - 1) : seq[j] \in Before(x)
                <4>1. \A j \in 1..(i - 1) : j \in 1..n /\ j < i BY <1>2
                <4> QED BY <1>2, <2>2, <4>1 DEF Sorted
            <3>3. ToSet(s) \subseteq Before(x) BY <1>5, <2>2, <3>2
            <3>4. Sorted(g[i]) BY <2>3, <3>1, <3>3, SortedAppend
            <3>5. ToSet(Append(s, x)) = ToSet(s) \cup {x} BY <2>3, AppendToSet
            <3> QED BY <1>5, <2>1, <2>2, <2>4, <3>1, <3>4, <3>5
        <2>5. CASE x \notin S BY <1>5, <2>1, <2>2, <2>3, <2>5
        <2> QED BY <2>4, <2>5
    <1>6. ASSUME NEW i \in 1..n, i - 1 \in P PROVE i \in P
        <2>1. i \in 0..n BY <1>2
        <2> HIDE DEF Good
        <2> QED BY <1>5, <1>6, <2>1
    <1>7. 0..n \subseteq P
        <2> HIDE DEF P
        <2> QED BY <1>2, <1>4, <1>6, CountUp
    <1> HIDE DEF Good
    <1>8. Good(n)
        <2>1. n \in P BY <1>2, <1>7
        <2> QED BY <2>1
    <1>9. g[n] \in Seq(Txs) BY <1>1, <1>2, <1>3 DEF KeptBy
    <1>10. {seq[j] : j \in 1..n} = ToSet(seq) BY <1>2 DEF ToSet
    <1> QED BY <1>3, <1>8, <1>9, <1>10 DEF Good

\* What is kept of a sequence of which only the elements after the k-th are.
LEMMA KeptTail ==
    ASSUME Distinct(order), NEW seq \in Seq(Txs), Sorted(seq), NEW k \in 0..Len(seq), NEW S,
           \A i \in 1..k : seq[i] \notin S, \A i \in (k + 1)..Len(seq) : seq[i] \in S
    PROVE  Kept(seq, S) = SubSeq(seq, k + 1, Len(seq))
    <1>1. PICK tail, n, l : tail = SubSeq(seq, k + 1, n) /\ n = Len(seq) /\ l = Len(tail)
        OBVIOUS
    <1>2. n \in Nat /\ DOMAIN seq = 1..n /\ k \in 0..n /\ \A i \in (k + 1)..n : seq[i] \in S
        BY <1>1, LenProperties
    <1>3. k + 1 \in 1..(Len(seq) + 1) /\ n \in 0..Len(seq) BY <1>1, <1>2
    <1>4. /\ tail \in Seq(Txs) /\ DOMAIN tail = 1..l
          /\ l = IF k + 1 <= n THEN n - (k + 1) + 1 ELSE 0
          /\ \A i \in 1..l : tail[i] = seq[k + 1 + i - 1]
        BY <1>1, <1>3, SubSeqElements, SMTT(30)
    <1>5. l = n - k BY <1>2, <1>4
    <1>6. Sorted(tail) BY <1>1, <1>3, SortedSubSeq
    <1>7. ASSUME NEW i \in 1..l PROVE tail[i] \in ToSet(seq) \cap S
        <2>1. k + 1 + i - 1 \in (k + 1)..n /\ k + 1 + i - 1 \in 1..n BY <1>2, <1>5
        <2> QED BY <1>2, <1>4, <2>1 DEF ToSet
    <1>8. ASSUME NEW j \in 1..n, seq[j] \in S PROVE seq[j] \in ToSet(tail)
        <2>1. ~ (j \in 1..k) BY <1>8
        <2>2. j - k \in 1..l /\ k + 1 + (j - k) - 1 = j BY <1>2, <1>5, <2>1
        <2>3. tail[j - k] = seq[j] BY <1>4, <2>2
        <2> QED BY <1>4, <2>2, <2>3 DEF ToSet
    <1>9. ToSet(tail) = ToSet(seq) \cap S
        <2>1. \A x \in ToSet(tail) : x \in ToSet(seq) \cap S BY <1>4, <1>7 DEF ToSet
        <2>2. \A x \in ToSet(seq) \cap S : x \in ToSet(tail) BY <1>2, <1>8 DEF ToSet
        <2> QED BY <2>1, <2>2
    <1>10. PICK kept : kept = Kept(seq, S) OBVIOUS
    <1>11. kept \in Seq(Txs) /\ Sorted(kept) /\ ToSet(kept) = ToSet(seq) \cap S
        BY <1>10, KeptSorted
    <1>12. kept = tail BY <1>4, <1>6, <1>9, <1>11, SortedUnique
    <1> QED BY <1>1, <1>10, <1>12

\* What is in flight is tx_chain without its anchor.
LEMMA InFlightIs ==
    ASSUME TrackingInv
    PROVE  \E k \in 0..1 :
            /\ k <= Len(txChain)
            /\ InFlight = SubSeq(txChain, k + 1, Len(txChain))
            /\ k = 1 => heard[txChain[1]] = "settled" /\ txChain[1] \in DOMAIN stateHistory
            /\ \A i \in (k + 1)..Len(txChain) : txChain[i] \in HeardSequenced
    <1> DEFINE S == {t \in Txs : heard[t] # "settled"}
               n == Len(txChain)
               k == IF n > 0 /\ heard[txChain[1]] = "settled" THEN 1 ELSE 0
    <1>1. /\ txChain \in Seq(Txs) /\ n \in Nat /\ DOMAIN txChain = 1..n
          /\ \A i \in 1..n : txChain[i] \in Txs /\ heard[txChain[i]] # "nothing"
        BY TrackingFacts, LenProperties, ElementOfSeq DEF ToSet
    <1>2. \A i \in 1..n : heard[txChain[i]] = "settled" => i = 1 /\ txChain[i] \in DOMAIN stateHistory
        BY <1>1 DEF TrackingInv, ChainInv, AnchorInv
    <1>3. k \in 0..1 /\ k <= n BY <1>1
    <1>4. \A i \in (k + 1)..n : txChain[i] \in Txs /\ heard[txChain[i]] # "settled"
        <2> TAKE i \in (k + 1)..n
        <2>1. i \in 1..n BY <1>1, <1>3
        <2>2. ASSUME heard[txChain[i]] = "settled" PROVE FALSE
            <3>1. i = 1 BY <1>2, <2>1, <2>2
            <3>2. k = 1 BY <1>1, <2>1, <2>2, <3>1
            <3> QED BY <3>1, <3>2
        <2> QED BY <1>1, <2>1, <2>2
    <1>5. \A i \in 1..k : heard[txChain[i]] = "settled" OBVIOUS
    <1>6. k = 1 => heard[txChain[1]] = "settled" /\ txChain[1] \in DOMAIN stateHistory
        BY <1>1, <1>2
    <1> HIDE DEF k
    <1>7. InFlight = SubSeq(txChain, k + 1, n)
        <2>1. k \in 0..Len(txChain) BY <1>1, <1>3
        <2>2. \A i \in 1..k : txChain[i] \notin S BY <1>5
        <2>3. \A i \in (k + 1)..Len(txChain) : txChain[i] \in S BY <1>4
        <2>4. Kept(txChain, S) = SubSeq(txChain, k + 1, Len(txChain))
            BY <1>1, <2>1, <2>2, <2>3, KeptTail, TrackingFacts DEF TrackingInv, ChainInv, TrackedInv
        <2> QED BY <2>4 DEF InFlight
    <1>8. \A i \in (k + 1)..n : txChain[i] \in HeardSequenced
        <2> TAKE i \in (k + 1)..n
        <2>1. i \in 1..n BY <1>1, <1>3
        <2> QED BY <1>1, <1>4, <2>1, TrackingFacts DEF HeardSequenced
    <1> QED BY <1>3, <1>6, <1>7, <1>8

\* tx_chain is in Hyli's order and holds what is in flight, behind at most one settled
\* transaction, whatever was rolled back, replayed or given up.
THEOREM OneAnchorHolds == Spec => []OneAnchor
    <1>1. TrackingInv => OneAnchor
        <2> SUFFICES ASSUME TrackingInv PROVE OneAnchor OBVIOUS
        <2>1. TrackedInv /\ AnchorInv BY DEF TrackingInv, ChainInv
        <2>2. \A i \in DOMAIN txChain : i > 1 => heard[txChain[i]] # "settled"
            BY <2>1, TrackingFacts, LenProperties DEF AnchorInv
        <2>3. ASSUME catchingUp PROVE InFlight = txChain
            <3>1. PICK k \in 0..1 : /\ k <= Len(txChain)
                                    /\ InFlight = SubSeq(txChain, k + 1, Len(txChain))
                                    /\ k = 1 => heard[txChain[1]] = "settled"
                BY InFlightIs
            <3>2. /\ txChain \in Seq(Txs) /\ Len(txChain) \in Nat /\ DOMAIN txChain = 1..Len(txChain)
                  /\ \A i \in DOMAIN txChain : heard[txChain[i]] = "sequenced"
                BY <2>1, <2>3, TrackingFacts, LenProperties
                DEF TrackedInv, ToSet, HeardSequenced
            <3>3. k = 0
                <4>1. k = 1 => 1 \in DOMAIN txChain BY <3>1, <3>2
                <4> QED BY <3>1, <3>2, <4>1
            <3> DEFINE new == SubSeq(txChain, 1, Len(txChain))
            <3>4. /\ new \in Seq(Txs) /\ Len(new) = Len(txChain)
                  /\ \A i \in 1..Len(new) : new[i] = txChain[i]
                <4>1. 1 \in 1..(Len(txChain) + 1) /\ Len(txChain) \in 0..Len(txChain) BY <3>2
                <4>2. /\ new \in Seq(Txs) /\ Len(new) = IF 1 <= Len(txChain) THEN Len(txChain) - 1 + 1 ELSE 0
                      /\ \A i \in 1..Len(new) : new[i] = txChain[1 + i - 1]
                    BY <3>2, <4>1, SubSeqElements
                <4> QED BY <3>2, <4>2
            <3> HIDE DEF new
            <3>5. new = txChain BY <3>2, <3>4, SeqEqual
            <3> QED BY <3>1, <3>3, <3>5 DEF new
        <2> QED BY <2>1, <2>2, <2>3 DEF OneAnchor, TrackedInv, Sorted
    <1> QED BY <1>1, TrackingInvariant, PTL

=============================================================================
