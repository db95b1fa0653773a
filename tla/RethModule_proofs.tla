-------------------------- MODULE RethModule_proofs --------------------------
(***************************************************************************)
(* The invariants of RethModule, proved for every set of transactions,     *)
(* every way they share payloads, and a listener that may report anything. *)
(***************************************************************************)
EXTENDS RethModule, EthChainState_proofs

-----------------------------------------------------------------------------
\* state_history.

SoundHistory(h) ==
    /\ DOMAIN h \subseteq Txs
    /\ h \in [DOMAIN h -> HistoryEntry]
    /\ \A t \in DOMAIN h : h[t].state \in Sound

\* The current state is sound: it is one of the history or genesis.
LEMMA CurrentStateSound ==
    ASSUME NEW h, SoundHistory(h)
    PROVE  CurrentState(h) \in Sound
    <1>1. CASE \E t \in DOMAIN h : IsLatest(h, t)
        <2>1. PICK t \in DOMAIN h : t = CHOOSE u \in DOMAIN h : IsLatest(h, u)
            BY <1>1
        <2> QED BY <1>1, <2>1 DEF CurrentState, SoundHistory
    <1>2. CASE ~ \E t \in DOMAIN h : IsLatest(h, t)
        BY <1>2, GenesisSound DEF CurrentState
    <1> QED BY <1>1, <1>2

\* A new entry goes after the others.
LEMMA NextRankType ==
    ASSUME NEW h, SoundHistory(h)
    PROVE  NextRank(h) \in Nat
    <1>1. CASE \E t \in DOMAIN h : IsLatest(h, t)
        <2>1. PICK t \in DOMAIN h : t = CHOOSE u \in DOMAIN h : IsLatest(h, u)
            BY <1>1
        <2>2. h[t].rank \in Nat BY DEF SoundHistory, HistoryEntry
        <2> QED BY <1>1, <2>1, <2>2 DEF NextRank
    <1>2. CASE ~ \E t \in DOMAIN h : IsLatest(h, t)
        BY <1>2 DEF NextRank
    <1> QED BY <1>1, <1>2

\* Recording a sound state keeps the history sound.
LEMMA InsertSound ==
    ASSUME NEW h, SoundHistory(h), NEW t \in Txs, NEW s \in Sound
    PROVE  SoundHistory(Insert(h, t, s))
    <1> DEFINE D == DOMAIN h \cup {t}
               entry == [state |-> s, rank |-> IF t \in DOMAIN h THEN h[t].rank ELSE NextRank(h)]
    <1>1. entry \in HistoryEntry /\ entry.state = s
        BY NextRankType DEF SoundHistory, HistoryEntry, Sound
    <1> HIDE DEF entry
    <1>2. Insert(h, t, s) = [u \in D |-> IF u # t THEN h[u] ELSE entry]
        BY DEF Insert, entry
    <1>3. \A u \in D : Insert(h, t, s)[u] \in HistoryEntry /\ Insert(h, t, s)[u].state \in Sound
        BY <1>1, <1>2 DEF SoundHistory
    <1> QED BY <1>2, <1>3 DEF SoundHistory

\* So does forgetting entries.
LEMMA WithoutSound ==
    ASSUME NEW h, SoundHistory(h), NEW S
    PROVE  SoundHistory(Without(h, S))
    BY DEF SoundHistory, Without, Restrict

\* Publication builds a sound snapshot.
LEMMA PublishedSound ==
    ASSUME NEW h, SoundHistory(h), NEW s \in Sound, NEW local \in [Evm -> Txs \cup {None}]
    PROVE  Published(h, s, local) \in Sound
    <1> DEFINE current == IF DOMAIN h = {} THEN s ELSE CurrentState(h)
               hashes == Extend(s.evm_to_hyli_hash, local)
               index == s.message_id_index
               u == [current EXCEPT !.message_id_index = index, !.evm_to_hyli_hash = hashes]
    <1>1. current \in Sound BY CurrentStateSound
    <1>2. hashes \in [Evm -> Txs \cup {None}] /\ index \in [Messages -> Txs \cup {None}]
        BY ExtendType DEF Sound, EthState
    <1>3. Published(h, s, local) = u BY DEF Published
    <1> HIDE DEF current, hashes, index
    <1>4. /\ u \in EthState /\ u.block_number = current.block_number
          /\ u.header_history = current.header_history
          /\ u.settled_receipts = current.settled_receipts
        BY <1>1, <1>2 DEF Sound, EthState
    <1> QED BY <1>1, <1>3, <1>4, SameBlocksSound

-----------------------------------------------------------------------------
\* tx_chain and pending_proofs: sequences of distinct transactions.

Distinct(seq) == seq \in Seq(Txs) /\ IsInjective(seq)

\* Only what is appended is new.
LEMMA AppendDistinct ==
    ASSUME NEW seq, Distinct(seq), NEW t \in Txs, t \notin ToSet(seq)
    PROVE  Distinct(Append(seq, t)) /\ ToSet(Append(seq, t)) = ToSet(seq) \cup {t}
    <1>1. /\ seq \in Seq(Txs) /\ Len(seq) \in Nat /\ DOMAIN seq = 1..Len(seq)
          /\ \A i, j \in DOMAIN seq : seq[i] = seq[j] => i = j
        BY LenProperties DEF Distinct, IsInjective
    <1> DEFINE new == Append(seq, t)
    <1>2. /\ new \in Seq(Txs) /\ DOMAIN new = 1..Len(seq) + 1
          /\ \A i \in 1..Len(seq) + 1 : new[i] = IF i <= Len(seq) THEN seq[i] ELSE t
        BY <1>1, AppendProperties, LenProperties
    <1>3. \A i \in DOMAIN seq : seq[i] # t BY DEF ToSet
    <1> HIDE DEF new
    <1>4. IsInjective(new) BY <1>1, <1>2, <1>3 DEF IsInjective
    <1>5. ToSet(new) = ToSet(seq) \cup {t} BY <1>1, <1>2 DEF ToSet
    <1> QED BY <1>2, <1>4, <1>5 DEF Distinct, new

\* A segment.
LEMMA SubSeqElements ==
    ASSUME NEW seq \in Seq(Txs), NEW m \in 1..(Len(seq) + 1), NEW n \in 0..Len(seq)
    PROVE  /\ SubSeq(seq, m, n) \in Seq(Txs)
           /\ Len(SubSeq(seq, m, n)) = IF m <= n THEN n - m + 1 ELSE 0
           /\ DOMAIN SubSeq(seq, m, n) = 1..Len(SubSeq(seq, m, n))
           /\ \A i \in 1..Len(SubSeq(seq, m, n)) :
                m + i - 1 \in m..n /\ SubSeq(seq, m, n)[i] = seq[m + i - 1]
           /\ ToSet(SubSeq(seq, m, n)) = {seq[i] : i \in m..n}
    <1> DEFINE new == SubSeq(seq, m, n)
    <1>1. Len(seq) \in Nat /\ DOMAIN seq = 1..Len(seq) BY LenProperties
    <1>2. /\ new \in Seq(Txs) /\ Len(new) = (IF m <= n THEN n - m + 1 ELSE 0)
          /\ \A i \in 1..n - m + 1 : new[i] = seq[m + i - 1]
        <2>1. m \in Int /\ n \in Int /\ \A i \in m..n : seq[i] \in Txs
            BY <1>1, ElementOfSeq
        <2> QED BY <2>1, SubSeqProperties
    <1>3. DOMAIN new = 1..Len(new) BY <1>2, LenProperties
    <1> HIDE DEF new
    <1>4. \A i \in 1..Len(new) : m + i - 1 \in m..n /\ new[i] = seq[m + i - 1]
        BY <1>1, <1>2
    <1>5. ToSet(new) = {seq[i] : i \in m..n}
        <2>1. ASSUME NEW i \in m..n PROVE seq[i] \in ToSet(new)
            <3>1. i - m + 1 \in 1..Len(new) /\ m + (i - m + 1) - 1 = i BY <1>1, <1>2
            <3>2. new[i - m + 1] = seq[i] BY <1>4, <3>1
            <3> QED BY <1>3, <3>1, <3>2 DEF ToSet
        <2>2. ASSUME NEW x \in ToSet(new) PROVE x \in {seq[i] : i \in m..n}
            <3>1. PICK i \in 1..Len(new) : x = new[i] BY <1>3, <2>2 DEF ToSet
            <3> QED BY <1>4, <3>1
        <2> QED BY <2>1, <2>2
    <1> QED BY <1>2, <1>3, <1>4, <1>5 DEF new

\* A segment of distinct transactions.
LEMMA SubSeqDistinct ==
    ASSUME NEW seq, Distinct(seq), NEW m \in 1..(Len(seq) + 1), NEW n \in 0..Len(seq)
    PROVE  /\ Distinct(SubSeq(seq, m, n))
           /\ ToSet(SubSeq(seq, m, n)) = {seq[i] : i \in m..n}
    <1> DEFINE new == SubSeq(seq, m, n)
    <1>1. /\ seq \in Seq(Txs) /\ Len(seq) \in Nat /\ DOMAIN seq = 1..Len(seq)
          /\ \A i, j \in DOMAIN seq : seq[i] = seq[j] => i = j
        BY LenProperties DEF Distinct, IsInjective
    <1>2. /\ new \in Seq(Txs) /\ Len(new) = (IF m <= n THEN n - m + 1 ELSE 0)
          /\ DOMAIN new = 1..Len(new)
          /\ \A i \in 1..Len(new) : m + i - 1 \in m..n /\ new[i] = seq[m + i - 1]
          /\ ToSet(new) = {seq[i] : i \in m..n}
        BY <1>1, SubSeqElements
    <1> HIDE DEF new
    <1>3. IsInjective(new)
        <2> SUFFICES ASSUME NEW i \in 1..Len(new), NEW j \in 1..Len(new), new[i] = new[j]
                     PROVE  i = j
            BY <1>2 DEF IsInjective
        <2>1. /\ seq[m + i - 1] = seq[m + j - 1]
              /\ m + i - 1 \in DOMAIN seq /\ m + j - 1 \in DOMAIN seq
            BY <1>1, <1>2, SMTT(30)
        <2>2. m + i - 1 = m + j - 1 BY <1>1, <2>1
        <2>3. Len(new) \in Nat BY <1>1, <1>2
        <2> QED BY <2>2, <2>3
    <1> QED BY <1>2, <1>3 DEF Distinct, new

\* Removing one position.
LEMMA RemoveAtElements ==
    ASSUME NEW seq \in Seq(Txs), NEW p \in DOMAIN seq
    PROVE  /\ RemoveAt(seq, p) \in Seq(Txs)
           /\ Len(RemoveAt(seq, p)) = Len(seq) - 1
           /\ DOMAIN RemoveAt(seq, p) = 1..(Len(seq) - 1)
           /\ \A i \in 1..(Len(seq) - 1) :
                RemoveAt(seq, p)[i] = IF i < p THEN seq[i] ELSE seq[i + 1]
    <1> DEFINE before == SubSeq(seq, 1, p - 1)
               after == SubSeq(seq, p + 1, Len(seq))
               new == RemoveAt(seq, p)
               l == Len(seq)
    <1>1. l \in Nat /\ DOMAIN seq = 1..l BY LenProperties
    <1>2. /\ before \in Seq(Txs) /\ Len(before) = p - 1
          /\ \A i \in 1..p - 1 : before[i] = seq[i]
        <2>1. 1 \in 1..(l + 1) /\ p - 1 \in 0..l BY <1>1
        <2>2. /\ before \in Seq(Txs) /\ Len(before) = (IF 1 <= p - 1 THEN p - 1 - 1 + 1 ELSE 0)
              /\ \A i \in 1..Len(before) : before[i] = seq[1 + i - 1]
            BY <2>1, SubSeqElements
        <2>3. Len(before) = p - 1 BY <1>1, <2>2
        <2>4. \A i \in 1..p - 1 : before[i] = seq[1 + i - 1] BY <2>2, <2>3
        <2> QED BY <1>1, <2>2, <2>3, <2>4
    <1>3. /\ after \in Seq(Txs) /\ Len(after) = l - p
          /\ \A i \in 1..l - p : after[i] = seq[p + i]
        <2>1. p + 1 \in 1..(l + 1) /\ l \in 0..l BY <1>1
        <2>2. /\ after \in Seq(Txs) /\ Len(after) = (IF p + 1 <= l THEN l - (p + 1) + 1 ELSE 0)
              /\ \A i \in 1..Len(after) : after[i] = seq[(p + 1) + i - 1]
            BY <2>1, SubSeqElements
        <2>3. Len(after) = l - p BY <1>1, <2>2
        <2>4. \A i \in 1..l - p : after[i] = seq[(p + 1) + i - 1] BY <2>2, <2>3
        <2> QED BY <1>1, <2>2, <2>3, <2>4
    <1>4. new = before \o after BY DEF RemoveAt
    <1> HIDE DEF before, after, new, l
    <1>5. /\ new \in Seq(Txs) /\ Len(new) = l - 1
          /\ \A i \in 1..l - 1 : new[i] = IF i <= p - 1 THEN before[i] ELSE after[i - (p - 1)]
        <2>1. /\ new \in Seq(Txs) /\ Len(new) = Len(before) + Len(after)
              /\ \A i \in 1..Len(before) + Len(after) :
                    new[i] = IF i <= Len(before) THEN before[i] ELSE after[i - Len(before)]
            BY <1>2, <1>3, <1>4, ConcatProperties
        <2>2. Len(before) + Len(after) = l - 1 BY <1>1, <1>2, <1>3
        <2> QED BY <1>2, <2>1, <2>2
    <1>6. \A i \in 1..l - 1 : new[i] = IF i < p THEN seq[i] ELSE seq[i + 1]
        <2> TAKE i \in 1..l - 1
        <2>1. CASE i < p BY <1>1, <1>2, <1>5, <2>1
        <2>2. CASE ~ (i < p)
            <3>1. i - (p - 1) \in 1..l - p BY <1>1, <2>2
            <3>2. new[i] = after[i - (p - 1)] BY <1>1, <1>5, <2>2
            <3>3. after[i - (p - 1)] = seq[p + (i - (p - 1))] BY <1>3, <3>1
            <3>4. p + (i - (p - 1)) = i + 1 BY <1>1
            <3> QED BY <2>2, <3>2, <3>3, <3>4
        <2> QED BY <2>1, <2>2
    <1>7. DOMAIN new = 1..l - 1 BY <1>1, <1>5, LenProperties
    <1> QED BY <1>5, <1>6, <1>7 DEF new, l

\* The others stay distinct.
LEMMA RemoveAtDistinct ==
    ASSUME NEW seq, Distinct(seq), NEW p \in DOMAIN seq
    PROVE  /\ Distinct(RemoveAt(seq, p))
           /\ ToSet(RemoveAt(seq, p)) = ToSet(seq) \ {seq[p]}
    <1> DEFINE new == RemoveAt(seq, p)
               l == Len(seq)
    <1>1. /\ seq \in Seq(Txs) /\ l \in Nat /\ DOMAIN seq = 1..l
          /\ \A i, j \in 1..l : seq[i] = seq[j] => i = j
        BY LenProperties DEF Distinct, IsInjective
    <1>2. /\ new \in Seq(Txs) /\ DOMAIN new = 1..l - 1
          /\ \A i \in 1..l - 1 : new[i] = IF i < p THEN seq[i] ELSE seq[i + 1]
        BY <1>1, RemoveAtElements
    <1> HIDE DEF new, l
    <1>3. IsInjective(new) BY <1>1, <1>2 DEF IsInjective
    <1>4. ToSet(new) = ToSet(seq) \ {seq[p]}
        <2>1. ASSUME NEW x \in ToSet(new) PROVE x \in ToSet(seq) \ {seq[p]}
            <3>1. PICK i \in 1..l - 1 : x = new[i] BY <1>2, <2>1 DEF ToSet
            <3>2. PICK j \in 1..l : x = seq[j] /\ j # p BY <1>1, <1>2, <3>1
            <3> QED BY <1>1, <3>2 DEF ToSet
        <2>2. ASSUME NEW x \in ToSet(seq), x # seq[p] PROVE x \in ToSet(new)
            <3>1. PICK j \in 1..l : x = seq[j] /\ j # p BY <1>1, <2>2 DEF ToSet
            <3>2. CASE j < p BY <1>1, <1>2, <3>1, <3>2 DEF ToSet
            <3>3. CASE j > p
                <4>1. j - 1 \in 1..l - 1 /\ new[j - 1] = seq[j] BY <1>1, <1>2, <3>1, <3>3
                <4> QED BY <1>2, <3>1, <4>1 DEF ToSet
            <3> QED BY <1>1, <3>1, <3>2, <3>3
        <2> QED BY <2>1, <2>2
    <1> QED BY <1>2, <1>3, <1>4 DEF Distinct, new

\* The position of a transaction that is in the sequence.
LEMMA PositionOf ==
    ASSUME NEW seq, Distinct(seq), NEW t \in ToSet(seq)
    PROVE  Position(seq, t) \in DOMAIN seq /\ seq[Position(seq, t)] = t
    BY DEF Position, ToSet

\* retain, remove and shift_remove leave everything but the transaction.
LEMMA DropDistinct ==
    ASSUME NEW seq, Distinct(seq), NEW t
    PROVE  Distinct(Drop(seq, t)) /\ ToSet(Drop(seq, t)) = ToSet(seq) \ {t}
    <1>1. CASE t \in ToSet(seq)
        BY <1>1, PositionOf, RemoveAtDistinct DEF Drop
    <1>2. CASE t \notin ToSet(seq) BY <1>2 DEF Drop
    <1> QED BY <1>1, <1>2

-----------------------------------------------------------------------------
\* Submitted proofs.

\* The blobs of a transaction.
LEMMA BlobsType ==
    ASSUME NEW t \in Txs
    PROVE  Blobs[t] \in Seq(Evm) /\ Blobs[t] # <<>>
    BY EthAssumption

\* A proof starts from an account map and chains from a header of the state it is built on.
LEMMA ProofsOfType ==
    ASSUME NEW s \in Sound, NEW t \in Txs, NEW at \in SUBSET DOMAIN Blobs[t]
    PROVE  ProofsOf(s, t, at) \subseteq Proof
    <1> DEFINE b == Blobs[t]
               h == s.header_history
    <1>1. /\ b \in Seq(Evm) /\ Len(b) \in Nat /\ DOMAIN b = 1..Len(b)
          /\ s \in EthState /\ h \in Seq(Header) /\ s.block_number \in Nat
        BY BlobsType, LenProperties DEF Sound, EthState
    <1>2. Len(h) \in 1..Len(h)
        BY <1>1, EthAssumption DEF Sound, Chained
    <1>3. LatestHeader(s).state_root \in Accounts
        <2>1. LatestHeader(s) = h[Len(h)] BY DEF LatestHeader, Last
        <2>2. h[Len(h)] \in Header BY <1>1, <1>2, ElementOfSeq
        <2> QED BY <2>1, <2>2 DEF Header
    <1>4. ASSUME NEW i \in at
          PROVE  /\ AccountsAfter(s, b, i - 1) \in Accounts
                 /\ ParentRoot(s, b, i) \in Accounts
                 /\ i \in Nat
        <2>1. i - 1 \in 0..Len(b) /\ i \in Nat BY <1>1
        <2>2. AccountsAfter(s, b, i - 1) \in Accounts /\ RootAfter(s, b, i - 1) \in Accounts
            BY <1>1, <2>1, AccountsAfterType, RootAfterType
        <2> QED BY <1>3, <2>1, <2>2 DEF ParentRoot
    <1> QED BY <1>4 DEF ProofsOf, Proof

-----------------------------------------------------------------------------
\* The inductive invariant: besides the types, every state is sound, and a transaction
\* that the server tracks has been reported, so that a report of a new one adds it to
\* neither tx_chain nor pending_proofs twice.

AllSound == settled \in Sound /\ pending \in Sound /\ SoundHistory(stateHistory)

Tracking ==
    /\ Distinct(txChain) /\ Distinct(pendingProofs)
    /\ \A t \in ToSet(txChain) \cup ToSet(pendingProofs) : heard[t] # "nothing"

Inv == TypeOK /\ AllSound /\ Tracking

\* It holds when the server starts.
LEMMA StartInv == Start /\ proofs = {} => Inv
    <1> SUFFICES ASSUME Start, proofs = {} PROVE Inv OBVIOUS
    <1>1. Genesis \in Sound /\ Genesis \in EthState BY GenesisSound DEF Sound
    <1>2. SoundHistory(EmptyHistory) BY DEF SoundHistory, EmptyHistory
    <1>3. <<>> \in Seq(Txs) /\ ToSet(<<>>) = {} /\ IsInjective(<<>>)
        BY EmptySeq DEF ToSet, IsInjective
    <1>4. TypeOK BY <1>1, <1>2, <1>3 DEF Start, TypeOK, SoundHistory
    <1>5. AllSound BY <1>1, <1>2 DEF Start, AllSound
    <1>6. Tracking BY <1>3 DEF Start, Tracking, Distinct
    <1> QED BY <1>4, <1>5, <1>6 DEF Inv

\* The facts about the current values that the steps below rely on.
LEMMA InvFacts ==
    ASSUME Inv
    PROVE  /\ settled \in Sound /\ pending \in Sound /\ SoundHistory(stateHistory)
           /\ CurrentState(stateHistory) \in Sound
           /\ submitted \in [Evm -> Txs \cup {None}]
           /\ Distinct(txChain) /\ Distinct(pendingProofs)
           /\ ToSet(txChain) \subseteq Txs /\ ToSet(pendingProofs) \subseteq Txs
    <1>1. Distinct(txChain) /\ Distinct(pendingProofs) BY DEF Inv, Tracking
    <1>2. \A seq : Distinct(seq) => ToSet(seq) \subseteq Txs
        BY LenProperties, ElementOfSeq DEF Distinct, ToSet
    <1> QED BY <1>1, <1>2, CurrentStateSound DEF Inv, TypeOK, AllSound

\* What TypeOK says of the two fields every settlement rewrites.
LEMMA SubmittedType ==
    ASSUME Inv, NEW t \in Txs
    PROVE  /\ WithoutPayloads(t) \in [Evm -> Txs \cup {None}]
           /\ Forgotten(pendingProofs, t) \in [Evm -> Txs \cup {None}]
    BY DEF Inv, TypeOK, WithoutPayloads, Forgotten

\* Hearing of a transaction never makes it unheard.
LEMMA HearType ==
    ASSUME Inv, NEW t \in Txs, NEW what \in {"sequenced", "settled"}, Hear(t, what)
    PROVE  /\ heard' \in [Txs -> {"nothing", "sequenced", "settled"}]
           /\ \A u \in Txs : heard[u] # "nothing" => heard'[u] # "nothing"
           /\ heard'[t] # "nothing"
    BY DEF Inv, TypeOK, Hear

-----------------------------------------------------------------------------
\* handle_sequenced_tx

\* Buffering a transaction while catching up keeps the invariant.
LEMMA SequencedCatchingUpInv ==
    ASSUME Inv, NEW t \in Txs, SequencedCatchingUp(t)
    PROVE  Inv'
    <1> USE DEF SequencedCatchingUp, HearSequenced
    <1>1. IndexMessages(settled, t) \in Sound BY InvFacts, IndexMessagesSound
    <1>2. t \notin ToSet(txChain) /\ t \notin ToSet(pendingProofs) BY DEF Inv, Tracking
    <1>3. /\ Distinct(txChain') /\ ToSet(txChain') = ToSet(txChain) \cup {t}
          /\ Distinct(pendingProofs') /\ ToSet(pendingProofs') = ToSet(pendingProofs) \cup {t}
        BY <1>2, InvFacts, AppendDistinct
    <1>4. TypeOK' BY <1>1, <1>3, HearType DEF Inv, TypeOK, Sound, Distinct
    <1>5. AllSound' BY <1>1 DEF Inv, AllSound
    <1>6. Tracking' BY <1>3, InvFacts, HearType DEF Inv, Tracking
    <1> QED BY <1>4, <1>5, <1>6 DEF Inv

\* So does proving and executing a sequenced transaction,
LEMMA SequencedLiveInv ==
    ASSUME Inv, NEW t \in Txs, SequencedLive(t)
    PROVE  Inv'
    <1> USE DEF SequencedLive, HearSequenced
    <1> DEFINE before == CurrentState(stateHistory)
               after == ApplySpeculative(before, Blobs[t])
    <1>1. before \in Sound /\ after \in Sound
        BY InvFacts, BlobsType, ApplySpeculativeSound
    <1>2. SoundHistory(stateHistory') BY <1>1, InvFacts, InsertSound
    <1>3. settled' \in Sound BY InvFacts, IndexMessagesSound
    <1>4. pending' \in Sound BY <1>2, <1>3, InvFacts, PublishedSound
    <1>5. proofs' \subseteq Proof
        <2>1. ProofsOf(before, t, DOMAIN Blobs[t]) \subseteq Proof BY <1>1, ProofsOfType
        <2> QED BY <2>1 DEF Inv, TypeOK
    <1>6. t \notin ToSet(txChain) /\ t \notin ToSet(pendingProofs) BY DEF Inv, Tracking
    <1>7. /\ Distinct(txChain') /\ ToSet(txChain') = ToSet(txChain) \cup {t}
          /\ Distinct(pendingProofs') /\ ToSet(pendingProofs') = ToSet(pendingProofs) \cup {t}
        BY <1>6, InvFacts, AppendDistinct
    <1>8. TypeOK'
        BY <1>2, <1>3, <1>4, <1>5, <1>7, HearType DEF Inv, TypeOK, Sound, Distinct, SoundHistory
    <1>9. AllSound' BY <1>2, <1>3, <1>4 DEF AllSound
    <1>10. Tracking' BY <1>7, InvFacts, HearType DEF Inv, Tracking
    <1> QED BY <1>8, <1>9, <1>10 DEF Inv

\* and rolling it back at once when a proof cannot be built.
LEMMA SequencedUnprovableInv ==
    ASSUME Inv, NEW t \in Txs, SequencedUnprovable(t)
    PROVE  Inv'
    <1> USE DEF SequencedUnprovable, HearSequenced
    <1> DEFINE before == CurrentState(stateHistory)
               b == Blobs[t]
               built == {i \in DOMAIN b : \A j \in 1..i : BuildsProof(before, b, j)}
    <1>1. settled' \in Sound BY InvFacts, IndexMessagesSound
    <1>2. submitted' \in [Evm -> Txs \cup {None}] BY SubmittedType
    <1>3. pending' \in Sound BY <1>1, <1>2, InvFacts, PublishedSound
    <1>4. proofs' \subseteq Proof
        <2>1. ProofsOf(before, t, built) \subseteq Proof BY InvFacts, ProofsOfType
        <2> QED BY <2>1 DEF Inv, TypeOK
    <1>5. TypeOK' BY <1>1, <1>2, <1>3, <1>4, HearType DEF Inv, TypeOK, Sound
    <1>6. AllSound' BY <1>1, <1>3 DEF Inv, AllSound
    <1>7. Tracking' BY InvFacts, HearType DEF Inv, Tracking
    <1> QED BY <1>5, <1>6, <1>7 DEF Inv

-----------------------------------------------------------------------------
\* handle_backfill_complete and the replays.

\* Going live keeps it: only tracked transactions are replayed.
LEMMA BackfillCompleteInv ==
    ASSUME Inv, BackfillComplete
    PROVE  Inv'
    <1> USE DEF BackfillComplete
    <1>1. TypeOK' BY DEF Inv, TypeOK
    <1>2. AllSound' BY DEF Inv, AllSound
    <1>3. Tracking' BY DEF Inv, Tracking
    <1> QED BY <1>1, <1>2, <1>3 DEF Inv

\* Replaying one transaction keeps it, whether it is still pending or skipped.
LEMMA ReplayTxInv ==
    ASSUME Inv, ReplayTx
    PROVE  Inv'
    <1> DEFINE t == Head(todo)
               before == CurrentState(stateHistory)
               b == Blobs[t]
               built == {i \in DOMAIN b : BuildsProof(before, b, i)}
    <1>1. t \in Txs /\ todo' \in Seq(Txs)
        BY HeadTailProperties DEF Inv, TypeOK, ReplayTx
    <1>2. before \in Sound /\ ApplySpeculative(before, b) \in Sound
        BY <1>1, InvFacts, BlobsType, ApplySpeculativeSound
    <1>3. /\ SoundHistory(stateHistory') /\ settled' \in Sound /\ proofs' \subseteq Proof
        <2>1. CASE t \in ToSet(pendingProofs)
            <3>1. ProofsOf(before, t, built) \subseteq Proof BY <1>1, <1>2, ProofsOfType
            <3>2. SoundHistory(Insert(stateHistory, t, ApplySpeculative(before, b)))
                BY <1>1, <1>2, InvFacts, InsertSound
            <3>3. IndexMessages(settled, t) \in Sound BY <1>1, InvFacts, IndexMessagesSound
            <3>4. proofs \subseteq Proof BY DEF Inv, TypeOK
            <3> QED BY <2>1, <3>1, <3>2, <3>3, <3>4, InvFacts DEF ReplayTx
        <2>2. CASE t \notin ToSet(pendingProofs)
            BY <2>2, InvFacts DEF ReplayTx, Inv, TypeOK
        <2> QED BY <2>1, <2>2
    <1>4. pending' \in Sound
        BY <1>3, InvFacts, PublishedSound DEF ReplayTx
    <1>5. TypeOK'
        BY <1>1, <1>3, <1>4 DEF ReplayTx, Inv, TypeOK, Sound, SoundHistory
    <1>6. AllSound' BY <1>3, <1>4 DEF AllSound
    <1>7. Tracking' BY DEF ReplayTx, Inv, Tracking
    <1> QED BY <1>5, <1>6, <1>7 DEF Inv

-----------------------------------------------------------------------------
\* handle_settled_tx

\* A success heard while catching up keeps it, whatever commitment came with it.
LEMMA SettledSuccessCatchingUpInv ==
    ASSUME Inv, NEW t \in Txs, NEW canonical \in Accounts \cup {NoCommitment},
           SettledSuccessCatchingUp(t, canonical)
    PROVE  Inv'
    <1> USE DEF SettledSuccessCatchingUp, HearSettled
    <1> DEFINE after == ApplySettled(CurrentState(stateHistory), Blobs[t], canonical)
    <1>1. SoundHistory(stateHistory') /\ settled' \in Sound
        <2>1. CASE canonical # NoCommitment
            <3>1. after \in Sound BY <2>1, InvFacts, BlobsType, ApplySettledSound
            <3>2. SoundHistory(Insert(stateHistory, t, after)) BY <3>1, InvFacts, InsertSound
            <3> QED BY <2>1, <3>1, <3>2
        <2>2. CASE canonical = NoCommitment BY <2>2, InvFacts
        <2> QED BY <2>1, <2>2
    <1>2. submitted' \in [Evm -> Txs \cup {None}] BY SubmittedType
    <1>3. pending' \in Sound BY <1>1, <1>2, PublishedSound
    <1>4. /\ Distinct(txChain') /\ ToSet(txChain') \subseteq ToSet(txChain)
          /\ Distinct(pendingProofs') /\ ToSet(pendingProofs') \subseteq ToSet(pendingProofs)
        BY InvFacts, DropDistinct
    <1>5. TypeOK'
        BY <1>1, <1>2, <1>3, <1>4, HearType DEF Inv, TypeOK, Sound, Distinct, SoundHistory
    <1>6. AllSound' BY <1>1, <1>3 DEF AllSound
    <1>7. Tracking' BY <1>4, InvFacts, HearType DEF Inv, Tracking
    <1> QED BY <1>5, <1>6, <1>7 DEF Inv

\* So does a failure heard while catching up.
LEMMA SettledFailedCatchingUpInv ==
    ASSUME Inv, NEW t \in Txs, SettledFailedCatchingUp(t)
    PROVE  Inv'
    <1> USE DEF SettledFailedCatchingUp, HearSettled
    <1>1. submitted' \in [Evm -> Txs \cup {None}] BY SubmittedType
    <1>2. pending' \in Sound BY <1>1, InvFacts, PublishedSound
    <1>3. /\ Distinct(txChain') /\ ToSet(txChain') \subseteq ToSet(txChain)
          /\ Distinct(pendingProofs') /\ ToSet(pendingProofs') \subseteq ToSet(pendingProofs)
        BY InvFacts, DropDistinct
    <1>4. TypeOK' BY <1>1, <1>2, <1>3, HearType DEF Inv, TypeOK, Sound, Distinct
    <1>5. AllSound' BY <1>2, InvFacts DEF AllSound
    <1>6. Tracking' BY <1>3, InvFacts, HearType DEF Inv, Tracking
    <1> QED BY <1>4, <1>5, <1>6 DEF Inv

\* Writing Hyli's root into an entry keeps the history sound.
LEMMA CorrectedSound ==
    ASSUME NEW h, SoundHistory(h), NEW t \in DOMAIN h, NEW canonical \in Accounts
    PROVE  /\ SoundHistory([h EXCEPT ![t].state.state_root = canonical])
           /\ [h EXCEPT ![t].state.state_root = canonical][t].state \in Sound
    <1> DEFINE u == [h[t].state EXCEPT !.state_root = canonical]
               entry == [h[t] EXCEPT !.state = u]
               new == [h EXCEPT ![t].state.state_root = canonical]
    <1>1. h[t].state \in Sound /\ h[t] \in HistoryEntry BY DEF SoundHistory
    <1>2. /\ u \in EthState /\ u.block_number = h[t].state.block_number
          /\ u.header_history = h[t].state.header_history
          /\ u.settled_receipts = h[t].state.settled_receipts
        BY <1>1 DEF Sound, EthState
    <1>3. u \in Sound BY <1>1, <1>2, SameBlocksSound
    <1>4. new = [h EXCEPT ![t] = entry] OBVIOUS
    <1> HIDE DEF u, new
    <1>5. entry \in HistoryEntry /\ entry.state = u
        BY <1>1, <1>3 DEF HistoryEntry, Sound
    <1> HIDE DEF entry
    <1> QED BY <1>3, <1>4, <1>5 DEF SoundHistory, new

\* A success heard live keeps it: the chain is cut at the settled transaction.
LEMMA SettledSuccessLiveInv ==
    ASSUME Inv, NEW t \in Txs, NEW canonical \in Accounts \cup {NoCommitment},
           SettledSuccessLive(t, canonical)
    PROVE  Inv'
    <1> DEFINE pos == Position(txChain, t)
               previous == IF pos > 1 THEN {txChain[pos - 1]} ELSE {}
               corrected == IF t \in DOMAIN stateHistory
                            THEN [stateHistory EXCEPT ![t].state.state_root = canonical]
                            ELSE stateHistory
               rest == SubSeq(txChain, pos, Len(txChain))
    <1>1. /\ HearSettled(t) /\ t \in ToSet(txChain)
          /\ submitted' = Forgotten(pendingProofs, t)
          /\ pendingProofs' = Drop(pendingProofs, t)
          /\ pending' = Published(stateHistory', settled', submitted')
          /\ UNCHANGED <<catchingUp, isReady, todo, replay, proofs, sending>>
          /\ canonical # NoCommitment =>
                /\ settled' = IF t \in DOMAIN stateHistory THEN corrected[t].state
                              ELSE FallbackBlock(settled, canonical)
                /\ stateHistory' = Without(corrected, previous)
                /\ txChain' = rest
          /\ canonical = NoCommitment => UNCHANGED <<settled, stateHistory, txChain>>
        BY DEF SettledSuccessLive, FromAnchor
    <1> HIDE DEF previous
    <1>2. SoundHistory(stateHistory') /\ settled' \in Sound
        <2>1. CASE canonical # NoCommitment
            <3>1. SoundHistory(corrected) BY <2>1, InvFacts, CorrectedSound
            <3>2. SoundHistory(stateHistory') BY <1>1, <2>1, <3>1, WithoutSound
            <3>3. settled' \in Sound
                BY <1>1, <2>1, InvFacts, CorrectedSound, FallbackBlockSound
            <3> QED BY <3>2, <3>3
        <2>2. CASE canonical = NoCommitment BY <1>1, <2>2, InvFacts
        <2> QED BY <2>1, <2>2
    <1>3. submitted' \in [Evm -> Txs \cup {None}] BY <1>1, SubmittedType
    <1>4. pending' \in Sound BY <1>1, <1>2, <1>3, PublishedSound
    <1>5. Distinct(txChain') /\ ToSet(txChain') \subseteq ToSet(txChain)
        <2>1. CASE canonical # NoCommitment
            <3>1. pos \in DOMAIN txChain BY <1>1, InvFacts, PositionOf
            <3>2. txChain \in Seq(Txs) BY InvFacts DEF Distinct
            <3>3. /\ Len(txChain) \in Nat /\ DOMAIN txChain = 1..Len(txChain)
                BY <3>2, LenProperties
            <3>4. pos \in 1..(Len(txChain) + 1) /\ Len(txChain) \in 0..Len(txChain)
                BY <3>1, <3>3
            <3> HIDE DEF pos
            <3>5. Distinct(rest) /\ ToSet(rest) = {txChain[i] : i \in pos..Len(txChain)}
                BY <3>4, InvFacts, SubSeqDistinct
            <3>6. \A i \in pos..Len(txChain) : txChain[i] \in ToSet(txChain)
                BY <3>3, <3>4 DEF ToSet
            <3> QED BY <1>1, <2>1, <3>5, <3>6
        <2>2. CASE canonical = NoCommitment BY <1>1, <2>2, InvFacts
        <2> QED BY <2>1, <2>2
    <1>6. Distinct(pendingProofs') /\ ToSet(pendingProofs') \subseteq ToSet(pendingProofs)
        BY <1>1, InvFacts, DropDistinct
    <1>7. TypeOK'
        BY <1>1, <1>2, <1>3, <1>4, <1>5, <1>6, HearType
        DEF HearSettled, Inv, TypeOK, Sound, Distinct, SoundHistory
    <1>8. AllSound' BY <1>2, <1>4 DEF AllSound
    <1>9. Tracking' BY <1>1, <1>5, <1>6, InvFacts, HearType DEF HearSettled, Inv, Tracking
    <1> QED BY <1>7, <1>8, <1>9 DEF Inv

\* A rollback keeps it: what is left to replay is what followed the failed transaction.
LEMMA SettledFailedLiveInv ==
    ASSUME Inv, NEW t \in Txs, SettledFailedLive(t)
    PROVE  Inv'
    <1> DEFINE pos == Position(txChain, t)
               subsequent == SubSeq(txChain, pos + 1, Len(txChain))
               gone == Invalidated(t, subsequent)
    <1>1. /\ HearSettled(t) /\ t \in ToSet(txChain)
          /\ stateHistory' = Without(stateHistory, gone)
          /\ txChain' = RemoveAt(txChain, pos)
          /\ todo' = subsequent
          /\ replay' \in {"none", "rollback"}
          /\ submitted' = Forgotten(pendingProofs, t)
          /\ pendingProofs' = Drop(pendingProofs, t)
          /\ pending' = IF todo' = <<>> THEN Published(stateHistory', settled, submitted')
                        ELSE pending
          /\ UNCHANGED <<settled, catchingUp, isReady, proofs, sending>>
        BY DEF SettledFailedLive
    <1> HIDE DEF gone
    <1>2. SoundHistory(stateHistory') BY <1>1, InvFacts, WithoutSound
    <1>3. submitted' \in [Evm -> Txs \cup {None}] BY <1>1, SubmittedType
    <1>4. pending' \in Sound BY <1>1, <1>2, <1>3, InvFacts, PublishedSound
    <1>5. pos \in DOMAIN txChain BY <1>1, InvFacts, PositionOf
    <1>6. Distinct(txChain') /\ ToSet(txChain') \subseteq ToSet(txChain)
        BY <1>1, <1>5, InvFacts, RemoveAtDistinct
    <1>7. todo' \in Seq(Txs)
        <2>1. txChain \in Seq(Txs) BY InvFacts DEF Distinct
        <2>2. /\ Len(txChain) \in Nat /\ DOMAIN txChain = 1..Len(txChain)
            BY <2>1, LenProperties
        <2> HIDE DEF pos
        <2>3. pos + 1 \in 1..(Len(txChain) + 1) /\ Len(txChain) \in 0..Len(txChain)
            BY <1>5, <2>2
        <2> QED BY <1>1, <2>3, InvFacts, SubSeqDistinct DEF Distinct
    <1>8. Distinct(pendingProofs') /\ ToSet(pendingProofs') \subseteq ToSet(pendingProofs)
        BY <1>1, InvFacts, DropDistinct
    <1>9. TypeOK'
        BY <1>1, <1>2, <1>3, <1>4, <1>6, <1>7, <1>8, HearType
        DEF HearSettled, Inv, TypeOK, Sound, Distinct, SoundHistory
    <1>10. AllSound' BY <1>1, <1>2, <1>4, InvFacts DEF AllSound
    <1>11. Tracking' BY <1>1, <1>6, <1>8, InvFacts, HearType DEF HearSettled, Inv, Tracking
    <1> QED BY <1>9, <1>10, <1>11 DEF Inv

\* Ignoring the outcome of an untracked transaction keeps it.
LEMMA SettledUntrackedInv ==
    ASSUME Inv, NEW t \in Txs, SettledUntracked(t)
    PROVE  Inv'
    <1> USE DEF SettledUntracked, HearSettled
    <1>1. TypeOK' BY HearType DEF Inv, TypeOK
    <1>2. AllSound' BY DEF Inv, AllSound
    <1>3. Tracking' BY InvFacts, HearType DEF Inv, Tracking
    <1> QED BY <1>1, <1>2, <1>3 DEF Inv

-----------------------------------------------------------------------------
\* eth_sendRawTransaction and restarts.

\* A submission by a wallet keeps it,
LEMMA SendRawTransactionInv ==
    ASSUME Inv, NEW t \in Txs, SendRawTransaction(t)
    PROVE  Inv'
    <1> USE DEF SendRawTransaction
    <1>1. TypeOK' BY DEF Inv, TypeOK
    <1>2. AllSound' BY DEF Inv, AllSound
    <1>3. Tracking' BY DEF Inv, Tracking
    <1> QED BY <1>1, <1>2, <1>3 DEF Inv

\* and so does recording the node's answer.
LEMMA RecordSubmissionInv ==
    ASSUME Inv, NEW t \in Txs, RecordSubmission(t)
    PROVE  Inv'
    <1> USE DEF RecordSubmission
    <1>1. TypeOK' BY DEF Inv, TypeOK
    <1>2. AllSound' BY DEF Inv, AllSound
    <1>3. Tracking' BY DEF Inv, Tracking
    <1> QED BY <1>1, <1>2, <1>3 DEF Inv

\* A restart establishes it anew.
LEMMA RestartInv ==
    ASSUME Inv, Restart
    PROVE  Inv'
    <1>1. Genesis \in Sound /\ Genesis \in EthState BY GenesisSound DEF Sound
    <1>2. SoundHistory(EmptyHistory) BY DEF SoundHistory, EmptyHistory
    <1>3. <<>> \in Seq(Txs) /\ ToSet(<<>>) = {} /\ IsInjective(<<>>)
        BY EmptySeq DEF ToSet, IsInjective
    <1>4. TypeOK' BY <1>1, <1>2, <1>3 DEF Restart, Inv, TypeOK, SoundHistory
    <1>5. AllSound' BY <1>1, <1>2 DEF Restart, AllSound
    <1>6. Tracking' BY <1>3 DEF Restart, Tracking, Distinct
    <1> QED BY <1>4, <1>5, <1>6 DEF Inv

-----------------------------------------------------------------------------
\* The theorems.

\* A step that leaves the module alone keeps it.
LEMMA StutterInv ==
    ASSUME Inv, UNCHANGED moduleVars
    PROVE  Inv'
    BY DEF moduleVars, Inv, TypeOK, AllSound, Tracking

\* Every step of the module keeps the invariant.
LEMMA NextInv ==
    ASSUME Inv, ModuleNext
    PROVE  Inv'
    <1>1. Commitments \cup {NoCommitment} \subseteq Accounts \cup {NoCommitment}
        BY CommitmentAssumption
    <1>2. ASSUME NEW t \in Txs, SequencedCatchingUp(t) PROVE Inv'
        BY <1>2, SequencedCatchingUpInv
    <1>3. ASSUME NEW t \in Txs, SequencedLive(t) PROVE Inv'
        BY <1>3, SequencedLiveInv
    <1>4. ASSUME NEW t \in Txs, SequencedUnprovable(t) PROVE Inv'
        BY <1>4, SequencedUnprovableInv
    <1>5. ASSUME NEW t \in Txs, NEW c \in Commitments \cup {NoCommitment},
                 SettledSuccessCatchingUp(t, c)
          PROVE  Inv'
        BY <1>1, <1>5, SettledSuccessCatchingUpInv
    <1>6. ASSUME NEW t \in Txs, NEW c \in Commitments \cup {NoCommitment},
                 SettledSuccessLive(t, c)
          PROVE  Inv'
        BY <1>1, <1>6, SettledSuccessLiveInv
    <1>7. ASSUME NEW t \in Txs, SettledFailedCatchingUp(t) PROVE Inv'
        BY <1>7, SettledFailedCatchingUpInv
    <1>8. ASSUME NEW t \in Txs, SettledFailedLive(t) PROVE Inv'
        BY <1>8, SettledFailedLiveInv
    <1>9. ASSUME NEW t \in Txs, SettledUntracked(t) PROVE Inv'
        BY <1>9, SettledUntrackedInv
    <1>10. ASSUME NEW t \in Txs, SendRawTransaction(t) PROVE Inv'
        BY <1>10, SendRawTransactionInv
    <1>11. ASSUME NEW t \in Txs, RecordSubmission(t) PROVE Inv'
        BY <1>11, RecordSubmissionInv
    <1> QED BY <1>2, <1>3, <1>4, <1>5, <1>6, <1>7, <1>8, <1>9, <1>10, <1>11,
               BackfillCompleteInv, ReplayTxInv, RestartInv DEF ModuleNext

\* The inductive invariant holds in every state the module reaches, under any listener that
\* reports a transaction at most once as sequenced and once as settled.
THEOREM ModuleInvariant == ModuleSpec => []Inv
    <1>1. ModuleInit => Inv BY StartInv DEF ModuleInit
    <1>2. Inv /\ [ModuleNext]_moduleVars => Inv' BY NextInv, StutterInv
    <1> QED BY <1>1, <1>2, PTL DEF ModuleSpec

\* Every variable of the module has its type, whatever the listener reports.
THEOREM ModuleTypeCorrect == ModuleSpec => []TypeOK
    <1>1. Inv => TypeOK BY DEF Inv
    <1> QED BY <1>1, ModuleInvariant, PTL

\* The header a proof chains from is always that of the state's own last block, after any
\* mix of executions, fallback blocks, settlements, rollbacks and replays.
THEOREM ModuleHeadersChained == ModuleSpec => []HeadersChained
    <1>1. Inv => HeadersChained
        BY DEF Inv, AllSound, SoundHistory, HeadersChained, ServedStates, Sound
    <1> QED BY <1>1, ModuleInvariant, PTL

\* No two receipts of a served state name the same block.
THEOREM ModuleOneTxPerBlock == ModuleSpec => []OneTxPerBlock
    <1>1. Inv => OneTxPerBlock
        BY DEF Inv, AllSound, SoundHistory, OneTxPerBlock, ServedStates, Sound
    <1> QED BY <1>1, ModuleInvariant, PTL

\* tx_chain and pending_proofs never hold a transaction twice.
THEOREM ModuleNoDuplicates == ModuleSpec => []NoDuplicates
    <1>1. Inv => NoDuplicates BY DEF Inv, Tracking, Distinct, NoDuplicates
    <1> QED BY <1>1, ModuleInvariant, PTL

=============================================================================
