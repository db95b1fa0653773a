------------------------ MODULE EthChainState_proofs ------------------------
(***************************************************************************)
(* Lemmas about the operators of EthChainState: what each returns is a     *)
(* state of the chain that has the headers of its last blocks and at most  *)
(* one transaction in a block; what settling makes of the state of a chain *)
(* is the state of a longer one (Canonical).  Before them, facts about     *)
(* numbers and sequences; after them, those about folding a sequence.      *)
(***************************************************************************)
EXTENDS EthChainState, SequenceTheorems, WellFoundedInduction, TLAPS

\* A state the server may prove against or serve.
Sound == {s \in EthState : Chained(s) /\ DistinctBlocks(s)}

-----------------------------------------------------------------------------
\* Numbers.

\* A set of numbers that is not empty has a least one.
LEMMA LeastNat ==
    ASSUME NEW T, T \subseteq Nat, T # {}
    PROVE  \E x \in T : \A y \in T : x <= y
    <1> DEFINE R == {p \in Nat \X Nat : p[1] < p[2]}
    <1>1. IsWellFoundedOn(R, Nat)
        BY NatLessThanWellFounded DEF OpToRel, IsWellFoundedOn
    <1>2. PICK x \in T : \A y \in T : ~ (<<y, x>> \in R)
        BY <1>1, WFMin
    <1>3. ASSUME NEW y \in T PROVE x <= y
        <2>1. x \in Nat /\ y \in Nat OBVIOUS
        <2>2. <<y, x>> \in Nat \X Nat /\ <<y, x>>[1] = y /\ <<y, x>>[2] = x BY <2>1
        <2>3. ~ (y < x) BY <1>2, <2>2
        <2> QED BY <2>1, <2>3
    <1> QED BY <1>3

\* Counting up: what holds at 0, and at each number when at the one before it, holds up to n.
LEMMA CountUp ==
    ASSUME NEW n \in Nat, NEW P, 0 \in P, \A i \in 1..n : i - 1 \in P => i \in P
    PROVE  0..n \subseteq P
    <1> DEFINE bad == {i \in 0..n : i \notin P}
    <1>1. ASSUME bad # {} PROVE FALSE
        <2>1. bad \subseteq Nat OBVIOUS
        <2>2. PICK i \in bad : \A j \in bad : i <= j
            <3> HIDE DEF bad
            <3> QED BY <1>1, <2>1, LeastNat
        <2>3. i \in 1..n /\ i - 1 \in 0..n /\ ~ (i <= i - 1) OBVIOUS
        <2>4. i - 1 \notin bad
            <3> HIDE DEF bad
            <3> QED BY <2>2, <2>3
        <2>5. i - 1 \in P BY <2>3, <2>4
        <2> QED BY <2>3, <2>5
    <1> QED BY <1>1

\* One that has a bound has a greatest one.
LEMMA GreatestNat ==
    ASSUME NEW n \in Nat, NEW T, T \subseteq 0..n, T # {}
    PROVE  \E x \in T : \A y \in T : y <= x
    <1> DEFINE U == {n - y : y \in T}
    <1>1. \A y \in T : y \in Nat /\ n - y \in Nat OBVIOUS
    <1>2. U \subseteq Nat /\ U # {} BY <1>1
    <1>3. PICK u \in U : \A v \in U : u <= v BY <1>2, LeastNat
    <1>4. PICK x \in T : u = n - x BY <1>3
    <1>5. ASSUME NEW y \in T PROVE y <= x
        <2>1. n - x <= n - y BY <1>3, <1>4
        <2> QED BY <1>1, <2>1
    <1> QED BY <1>5

-----------------------------------------------------------------------------
\* Maps.

\* HashMap::extend keeps the values of a map in their set.
LEMMA ExtendType ==
    ASSUME NEW D, NEW R, NEW f \in [D -> R \cup {None}], NEW g \in [D -> R \cup {None}]
    PROVE  Extend(f, g) \in [D -> R \cup {None}]
    BY DEF Extend

-----------------------------------------------------------------------------
\* Executing blobs.

\* Each blob leaves one mark.
LEMMA MarksType ==
    ASSUME NEW b \in Seq(Evm)
    PROVE  Marks(b) \in Seq(Mark) /\ Len(Marks(b)) = Len(b)
    <1>1. Len(b) \in Nat /\ \A i \in 1..Len(b) : b[i] \in Evm
        BY LenProperties, ElementOfSeq
    <1>2. \A i \in 1..Len(b) : [tx |-> b[i], ran |-> b[i] \in Executable] \in Mark
        <2> TAKE i \in 1..Len(b)
        <2> DEFINE ran == b[i] \in Executable
        <2>1. ran \in BOOLEAN OBVIOUS
        <2> HIDE DEF ran
        <2>2. [tx |-> b[i], ran |-> ran] \in Mark BY <1>1, <2>1 DEF Mark
        <2> QED BY <2>2 DEF ran
    <1> QED BY <1>1, <1>2 DEF Marks

\* The account map only grows by marks.
LEMMA AccountsAfterType ==
    ASSUME NEW s \in EthState, NEW b \in Seq(Evm), NEW i \in 0..Len(b)
    PROVE  AccountsAfter(s, b, i) \in Accounts
    <1>1. Len(b) \in Nat BY LenProperties
    <1>2. \A j \in 1..i : Marks(b)[j] \in Mark
        BY <1>1, MarksType, ElementOfSeq
    <1>3. SubSeq(Marks(b), 1, i) \in Seq(Mark) 
        BY <1>1, <1>2, SubSeqProperties, i \in Int
    <1> QED BY <1>3, ConcatProperties DEF AccountsAfter, EthState, Accounts

\* The state root is that of some account map.
LEMMA RootAfterType ==
    ASSUME NEW s \in EthState, NEW b \in Seq(Evm), NEW i \in 0..Len(b)
    PROVE  RootAfter(s, b, i) \in Accounts
    <1>1. Len(b) \in Nat BY LenProperties
    <1>2. CASE \E j \in 1..i : LastRun(b, i, j)
        <2>1. PICK j \in 1..i : j = CHOOSE k \in 1..i : LastRun(b, i, k)
            BY <1>2
        <2> QED BY <1>1, <1>2, <2>1, AccountsAfterType DEF RootAfter
    <1>3. CASE ~ \E j \in 1..i : LastRun(b, i, j)
        BY <1>3 DEF RootAfter, EthState
    <1> QED BY <1>2, <1>3

-----------------------------------------------------------------------------
\* Headers.

\* Headers numbered without gap up to n, as many of them as HeaderCap asks for or more.
Numbered(headers, n) ==
    /\ headers \in Seq(Header)
    /\ Len(headers) <= n + 1
    /\ Len(headers) >= (IF n < HeaderCap THEN n + 1 ELSE HeaderCap)
    /\ \A i \in 1..Len(headers) : headers[i].number = n - Len(headers) + i

\* Trimming keeps exactly the headers asked for.
LEMMA TrimNumbered ==
    ASSUME NEW n \in Nat, NEW headers, Numbered(headers, n)
    PROVE  /\ Trim(headers) \in Seq(Header)
           /\ Len(Trim(headers)) = IF n < HeaderCap THEN n + 1 ELSE HeaderCap
           /\ \A i \in 1..Len(Trim(headers)) :
                Trim(headers)[i].number = n - Len(Trim(headers)) + i
    <1> DEFINE len == Len(headers)
               first == len - HeaderCap + 1
    <1>1. len \in Nat /\ HeaderCap \in Nat \ {0} /\ headers \in Seq(Header)
        BY LenProperties, EthAssumption DEF Numbered
    <1>2. CASE len > HeaderCap
        <2>1. \A i \in first..len : headers[i] \in Header
            BY <1>1, <1>2, ElementOfSeq
        <2>2. first \in Int /\ len \in Int BY <1>1
        <2>3. /\ SubSeq(headers, first, len) \in Seq(Header)
              /\ Len(SubSeq(headers, first, len)) = HeaderCap
              /\ \A i \in 1..HeaderCap : SubSeq(headers, first, len)[i] = headers[first + i - 1]
            BY <1>1, <1>2, <2>1, <2>2, SubSeqProperties
        <2>4. Trim(headers) = SubSeq(headers, first, len) BY <1>2 DEF Trim
        <2>5. ~ (n < HeaderCap) BY <1>1, <1>2 DEF Numbered
        <2>6. \A i \in 1..HeaderCap : headers[first + i - 1].number = n - HeaderCap + i
            BY <1>1, <1>2 DEF Numbered
        <2> QED BY <1>1, <2>3, <2>4, <2>5, <2>6
    <1>3. CASE ~ (len > HeaderCap)
        BY <1>1, <1>3 DEF Trim, Numbered
    <1> QED BY <1>2, <1>3

\* The headers of a sound state followed by the next n are numbered up to the last one.
LEMMA ConcatNumbered ==
    ASSUME NEW s \in EthState, Chained(s), NEW new \in Seq(Header),
           \A i \in 1..Len(new) : new[i].number = s.block_number + i
    PROVE  Numbered(s.header_history \o new, s.block_number + Len(new))
    <1> DEFINE h == s.header_history
               l == Len(h)
               k == Len(new)
               n == s.block_number
               all == h \o new
    <1>1. /\ h \in Seq(Header) /\ l \in Nat /\ k \in Nat /\ n \in Nat
          /\ HeaderCap \in Nat \ {0}
        BY LenProperties, EthAssumption DEF EthState
    <1>2. /\ all \in Seq(Header)
          /\ Len(all) = l + k
          /\ \A i \in 1..l + k : all[i] = IF i <= l THEN h[i] ELSE new[i - l]
        BY <1>1, ConcatProperties
    <1>3. /\ l = IF n < HeaderCap THEN n + 1 ELSE HeaderCap
          /\ \A i \in 1..l : h[i].number = n - l + i
        BY DEF Chained
    <1>4. \A i \in 1..k : new[i].number = n + i OBVIOUS
    <1> HIDE DEF h, l, k, n, all
    <1>5. \A i \in 1..l + k : all[i].number = n - l + i
        <2> TAKE i \in 1..l + k
        <2>1. CASE i <= l BY <1>1, <1>2, <1>3, <2>1
        <2>2. CASE ~ (i <= l)
            <3>1. i - l \in 1..k BY <1>1, <2>2
            <3>2. new[i - l].number = n + (i - l) BY <1>4, <3>1
            <3> QED BY <1>1, <1>2, <2>2, <3>2
        <2> QED BY <2>1, <2>2
    <1>6. \A i \in 1..Len(all) : all[i].number = (n + k) - Len(all) + i
        BY <1>1, <1>2, <1>5
    <1>7. Numbered(all, n + k)
        BY <1>1, <1>2, <1>3, <1>6 DEF Numbered
    <1> QED BY <1>7 DEF h, k, n, all

\* NewHeaders numbers the blobs' blocks from the next one.
LEMMA NewHeadersType ==
    ASSUME NEW s \in EthState, NEW b \in Seq(Evm)
    PROVE  /\ NewHeaders(s, b) \in Seq(Header)
           /\ Len(NewHeaders(s, b)) = Len(b)
           /\ \A i \in 1..Len(b) : NewHeaders(s, b)[i].number = s.block_number + i
    <1>1. Len(b) \in Nat /\ s.block_number \in Nat BY LenProperties DEF EthState
    <1>2. \A i \in 1..Len(b) :
            [number |-> s.block_number + i, state_root |-> RootAfter(s, b, i)] \in Header
        BY <1>1, RootAfterType DEF Header
    <1> QED BY <1>1, <1>2 DEF NewHeaders

-----------------------------------------------------------------------------
\* Receipts.

\* A new receipt names the block of one of the blobs, and no other new one names it.
LEMMA ReceiptsAtType ==
    ASSUME NEW s \in EthState, NEW b \in Seq(Evm), NEW at \in SUBSET (1..Len(b))
    PROVE  /\ ReceiptsAt(s, b, at) \in [Evm -> Receipt \cup {None}]
           /\ \A e \in Keys(ReceiptsAt(s, b, at)) :
                \E i \in 1..Len(b) :
                    /\ b[i] = e
                    /\ ReceiptsAt(s, b, at)[e].block_number = s.block_number + i
    <1> DEFINE r == ReceiptsAt(s, b, at)
    <1>1. Len(b) \in Nat /\ s.block_number \in Nat BY LenProperties DEF EthState
    <1>2. ASSUME NEW e \in Evm, \E i \in at : LastOccurrence(b, at, e, i)
          PROVE  r[e] \in Receipt /\ \E i \in 1..Len(b) :
                    b[i] = e /\ r[e].block_number = s.block_number + i
        <2>1. PICK i \in at : /\ i = (CHOOSE j \in at : LastOccurrence(b, at, e, j))
                             /\ LastOccurrence(b, at, e, i)
            BY <1>2
        <2> DEFINE logs == e \in Executable
        <2>2. logs \in BOOLEAN OBVIOUS
        <2>3. r[e] = [block_number |-> s.block_number + i, logs |-> logs]
            BY <1>2, <2>1 DEF ReceiptsAt
        <2> HIDE DEF logs, r
        <2>4. i \in 1..Len(b) /\ b[i] = e BY <2>1 DEF LastOccurrence
        <2> QED BY <1>1, <2>2, <2>3, <2>4 DEF Receipt
    <1>3. \A e \in Evm : (~ \E i \in at : LastOccurrence(b, at, e, i)) => r[e] = None
        BY DEF ReceiptsAt
    <1>4. DOMAIN r = Evm /\ r = [e \in Evm |-> r[e]] BY DEF ReceiptsAt
    <1> HIDE DEF r
    <1>5. \A e \in Evm : r[e] \in Receipt \cup {None} BY <1>2, <1>3
    <1>6. r \in [Evm -> Receipt \cup {None}] BY <1>4, <1>5
    <1>7. \A e \in Keys(r) : \E i \in 1..Len(b) :
            b[i] = e /\ r[e].block_number = s.block_number + i
        BY <1>2, <1>3, <1>4 DEF Keys
    <1> QED BY <1>6, <1>7 DEF r

\* New receipts name new blocks: adding them leaves every block with one transaction.
LEMMA ExtendDistinct ==
    ASSUME NEW s \in EthState, DistinctBlocks(s), NEW b \in Seq(Evm),
           NEW at \in SUBSET (1..Len(b)),
           NEW u \in EthState, u.block_number = s.block_number + Len(b),
           u.settled_receipts = Extend(s.settled_receipts, ReceiptsAt(s, b, at))
    PROVE  DistinctBlocks(u)
    <1> DEFINE old == s.settled_receipts
               new == ReceiptsAt(s, b, at)
               r == u.settled_receipts
    <1>1. /\ Len(b) \in Nat /\ s.block_number \in Nat
          /\ old \in [Evm -> Receipt \cup {None}]
          /\ None \notin Receipt
        BY LenProperties, EthAssumption DEF EthState, Receipt
    <1>2. /\ new \in [Evm -> Receipt \cup {None}]
          /\ \A e \in Keys(new) : \E i \in 1..Len(b) :
                b[i] = e /\ new[e].block_number = s.block_number + i
        BY ReceiptsAtType
    <1>3. r = [e \in Evm |-> IF new[e] # None THEN new[e] ELSE old[e]]
        BY <1>1 DEF Extend
    <1>4. /\ \A e \in Keys(old) : old[e].block_number \in 1..s.block_number
          /\ \A e, f \in Keys(old) : old[e].block_number = old[f].block_number => e = f
        BY DEF DistinctBlocks
    <1> HIDE DEF old, new, r
    <1>5. \A e \in Keys(r) :
            (e \in Keys(new) /\ r[e] = new[e]) \/ (e \in Keys(old) /\ r[e] = old[e])
        BY <1>1, <1>2, <1>3 DEF Keys
    <1>6. \A e \in Keys(r) : r[e].block_number \in 1..(s.block_number + Len(b))
        BY <1>1, <1>2, <1>4, <1>5
    <1>7. \A e, f \in Keys(r) : r[e].block_number = r[f].block_number => e = f
        <2> TAKE e, f \in Keys(r)
        <2>1. CASE e \in Keys(new) /\ r[e] = new[e]
            BY <1>1, <1>2, <1>4, <1>5, <2>1
        <2>2. CASE e \in Keys(old) /\ r[e] = old[e]
            BY <1>1, <1>2, <1>4, <1>5, <2>2
        <2> QED BY <1>5, <2>1, <2>2
    <1> QED BY <1>6, <1>7 DEF DistinctBlocks, r

-----------------------------------------------------------------------------
\* What the functions of the chain state return.

\* The genesis state is sound.
LEMMA GenesisSound == Genesis \in Sound
    <1>1. HeaderCap \in Nat \ {0} BY EthAssumption
    <1>2. <<>> \in Accounts BY EmptySeq DEF Accounts
    <1>3. [number |-> 0, state_root |-> <<>>] \in Header BY <1>2 DEF Header
    <1>4. Genesis \in EthState BY <1>2, <1>3 DEF Genesis, EthState
    <1>5. Chained(Genesis) BY <1>1 DEF Genesis, Chained
    <1>6. DistinctBlocks(Genesis) BY DEF Genesis, DistinctBlocks, Keys
    <1> QED BY <1>4, <1>5, <1>6 DEF Sound

\* Trimmed headers numbered up to the block number of a state are its headers.
LEMMA NumberedChained ==
    ASSUME NEW u, u.block_number \in Nat, NEW headers,
           Numbered(headers, u.block_number), u.header_history = Trim(headers)
    PROVE  u.header_history \in Seq(Header) /\ Chained(u)
    BY TrimNumbered DEF Chained

\* Executing the blobs of a transaction speculatively keeps a state sound.
LEMMA ApplySpeculativeSound ==
    ASSUME NEW s \in Sound, NEW b \in Seq(Evm)
    PROVE  ApplySpeculative(s, b) \in Sound
    <1> DEFINE u == ApplySpeculative(s, b)
               ran == {i \in DOMAIN b : b[i] \in Executable}
               n == s.block_number + Len(b)
               h == Trim(s.header_history \o NewHeaders(s, b))
               m == Extend(s.settled_receipts, ReceiptsAt(s, b, ran))
               acc == AccountsAfter(s, b, Len(b))
               root == RootAfter(s, b, Len(b))
    <1>1. s \in EthState /\ Chained(s) /\ DistinctBlocks(s) BY DEF Sound
    <1>2. /\ Len(b) \in Nat /\ s.block_number \in Nat /\ Len(b) \in 0..Len(b)
          /\ ran \in SUBSET (1..Len(b))
        BY <1>1, LenProperties DEF EthState
    <1>3. acc \in Accounts /\ root \in Accounts /\ n \in Nat
        BY <1>1, <1>2, AccountsAfterType, RootAfterType
    <1>4. Numbered(s.header_history \o NewHeaders(s, b), n)
        BY <1>1, NewHeadersType, ConcatNumbered
    <1>5. h \in Seq(Header) BY <1>3, <1>4, TrimNumbered
    <1>6. m \in [Evm -> Receipt \cup {None}]
        BY <1>1, <1>2, ReceiptsAtType, ExtendType DEF EthState
    <1>7. u = [s EXCEPT !.accounts = acc, !.state_root = root, !.block_number = n,
                        !.header_history = h, !.settled_receipts = m]
        BY Zenon DEF ApplySpeculative
    <1> HIDE DEF u, n, h, m, acc, root
    <1>8. /\ u \in EthState
          /\ u.block_number = n /\ u.header_history = h /\ u.settled_receipts = m
        BY <1>1, <1>3, <1>5, <1>6, <1>7 DEF EthState
    <1>9. Chained(u) BY <1>3, <1>4, <1>8, NumberedChained DEF h
    <1>10. DistinctBlocks(u) BY <1>1, <1>2, <1>8, ExtendDistinct DEF n, m
    <1> QED BY <1>8, <1>9, <1>10 DEF Sound, u

\* So does executing those of a transaction that settled.
LEMMA ApplySettledSound ==
    ASSUME NEW s \in Sound, NEW b \in Seq(Evm), b # <<>>, NEW canonical \in Accounts
    PROVE  ApplySettled(s, b, canonical) \in Sound
    <1> DEFINE u == ApplySettled(s, b, canonical)
               new == NewHeaders(s, b)
               sealed == [new EXCEPT ![Len(b)].state_root = canonical]
               n == s.block_number + Len(b)
               h == Trim(s.header_history \o sealed)
               m == Extend(s.settled_receipts, ReceiptsAt(s, b, DOMAIN b))
               acc == AccountsAfter(s, b, Len(b))
    <1>1. s \in EthState /\ Chained(s) /\ DistinctBlocks(s) BY DEF Sound
    <1>2. /\ Len(b) \in Nat \ {0} /\ s.block_number \in Nat /\ Len(b) \in 0..Len(b)
          /\ DOMAIN b \in SUBSET (1..Len(b))
        BY <1>1, EmptySeq, LenProperties DEF EthState
    <1>3. acc \in Accounts /\ n \in Nat BY <1>1, <1>2, AccountsAfterType, SMTT(30)
    <1>4. /\ sealed \in Seq(Header) /\ Len(sealed) = Len(b)
          /\ \A i \in 1..Len(sealed) : sealed[i].number = s.block_number + i
        <2> DEFINE last == [number |-> n, state_root |-> canonical]
        <2>1. /\ new \in Seq(Header) /\ Len(new) = Len(b) /\ DOMAIN new = 1..Len(b)
              /\ \A i \in 1..Len(b) : new[i].number = s.block_number + i
            BY <1>1, NewHeadersType, LenProperties
        <2>2. Len(b) \in 1..Len(b) BY <1>2
        <2>3. new[Len(b)] \in Header /\ new[Len(b)].number = n
            BY <2>1, <2>2, ElementOfSeq
        <2>4. last \in Header BY <1>3 DEF Header
        <2>5. \A r \in Header : r.number = n => [r EXCEPT !.state_root = canonical] = last
            BY DEF Header
        <2>6. sealed = [new EXCEPT ![Len(b)] = last] BY <2>3, <2>5
        <2> HIDE DEF new, sealed, last
        <2>7. /\ sealed \in Seq(Header) /\ Len(sealed) = Len(b)
              /\ \A i \in 1..Len(b) : sealed[i] = IF i = Len(b) THEN last ELSE new[i]
            BY <2>1, <2>2, <2>4, <2>6, ExceptSeq
        <2>8. last.number = s.block_number + Len(b) BY DEF last
        <2> QED BY <2>1, <2>7, <2>8
    <1> HIDE DEF sealed
    <1>5. Numbered(s.header_history \o sealed, n) BY <1>1, <1>4, ConcatNumbered
    <1>6. h \in Seq(Header) BY <1>3, <1>5, TrimNumbered
    <1>7. m \in [Evm -> Receipt \cup {None}]
        BY <1>1, <1>2, ReceiptsAtType, ExtendType DEF EthState
    <1>8. u = [s EXCEPT !.accounts = acc, !.state_root = canonical, !.block_number = n,
                        !.header_history = h, !.settled_receipts = m]
        BY Zenon DEF ApplySettled, sealed
    <1> HIDE DEF u, n, h, m, acc
    <1>9. /\ u \in EthState
          /\ u.block_number = n /\ u.header_history = h /\ u.settled_receipts = m
        BY <1>1, <1>3, <1>6, <1>7, <1>8 DEF EthState
    <1>10. Chained(u) BY <1>3, <1>5, <1>9, NumberedChained DEF h
    <1>11. DistinctBlocks(u) BY <1>1, <1>2, <1>9, ExtendDistinct DEF n, m
    <1> QED BY <1>9, <1>10, <1>11 DEF Sound, u

\* So does a block without a transaction.
LEMMA FallbackBlockSound ==
    ASSUME NEW s \in Sound, NEW canonical \in Accounts
    PROVE  FallbackBlock(s, canonical) \in Sound
    <1> DEFINE u == FallbackBlock(s, canonical)
               n == s.block_number + 1
               header == [number |-> n, state_root |-> canonical]
               h == Trim(Append(s.header_history, header))
    <1>1. /\ s \in EthState /\ Chained(s) /\ DistinctBlocks(s) /\ s.block_number \in Nat
          /\ s.header_history \in Seq(Header)
        BY DEF Sound, EthState
    <1>2. /\ u = [s EXCEPT !.state_root = canonical, !.block_number = n, !.header_history = h]
          /\ n \in Nat
        BY <1>1 DEF FallbackBlock
    <1>3. Numbered(Append(s.header_history, header), n)
        <2>1. header \in Header BY <1>2 DEF Header
        <2>2. header.number = n OBVIOUS
        <2> HIDE DEF header
        <2>3. <<header>> \in Seq(Header) /\ Len(<<header>>) = 1 /\ <<header>>[1] = header
            BY <2>1
        <2>4. \A i \in 1..Len(<<header>>) : <<header>>[i].number = s.block_number + i
            BY <2>2, <2>3
        <2>5. Numbered(s.header_history \o <<header>>, n)
            BY <1>1, <2>3, <2>4, ConcatNumbered
        <2> QED BY <1>1, <2>1, <2>5, AppendIsConcat
    <1>4. h \in Seq(Header) BY <1>2, <1>3, TrimNumbered
    <1> HIDE DEF h, u, n
    <1>5. /\ u \in EthState
          /\ u.block_number = n /\ u.header_history = h
          /\ u.settled_receipts = s.settled_receipts
        BY <1>1, <1>2, <1>4 DEF EthState
    <1>6. Chained(u) BY <1>2, <1>3, <1>5, NumberedChained DEF h
    <1>7. DistinctBlocks(u)
        <2>1. \A k \in 1..s.block_number : k \in 1..u.block_number BY <1>1, <1>5 DEF n
        <2> QED BY <1>1, <1>5, <2>1 DEF DistinctBlocks
    <1> QED BY <1>5, <1>6, <1>7 DEF Sound, u

\* A state that differs from a sound one only in its indexes is sound.
LEMMA SameBlocksSound ==
    ASSUME NEW s \in Sound, NEW u \in EthState, u.block_number = s.block_number,
           u.header_history = s.header_history, u.settled_receipts = s.settled_receipts
    PROVE  u \in Sound
    BY DEF Sound, Chained, DistinctBlocks

\* Indexing the messages of a transaction keeps a state sound.
LEMMA IndexMessagesSound ==
    ASSUME NEW s \in Sound, NEW t \in Txs
    PROVE  IndexMessages(s, t) \in Sound
    <1> DEFINE delivered == {MessageOf[Blobs[t][i]] : i \in DOMAIN Blobs[t]}
               g == [m \in Messages |-> IF m \in delivered THEN t ELSE None]
               index == Extend(s.message_id_index, g)
    <1>1. s \in EthState /\ s.message_id_index \in [Messages -> Txs \cup {None}]
        BY DEF Sound, EthState
    <1>2. g \in [Messages -> Txs \cup {None}] OBVIOUS
    <1>3. index \in [Messages -> Txs \cup {None}] BY <1>1, <1>2, ExtendType
    <1>4. IndexMessages(s, t) = [s EXCEPT !.message_id_index = index]
        BY DEF IndexMessages
    <1> HIDE DEF index
    <1>5. /\ IndexMessages(s, t) \in EthState
          /\ IndexMessages(s, t).block_number = s.block_number
          /\ IndexMessages(s, t).header_history = s.header_history
          /\ IndexMessages(s, t).settled_receipts = s.settled_receipts
        BY <1>1, <1>3, <1>4 DEF EthState
    <1> QED BY <1>5, SameBlocksSound

-----------------------------------------------------------------------------
\* States of the canonical chain.

\* Two states that differ in the message index only.
Agree(s, u) ==
    /\ s.accounts = u.accounts
    /\ s.state_root = u.state_root
    /\ s.block_number = u.block_number
    /\ s.header_history = u.header_history
    /\ s.settled_receipts = u.settled_receipts
    /\ s.evm_to_hyli_hash = u.evm_to_hyli_hash

\* What executing a transaction speculatively makes of each field.
LEMMA ApplySpeculativeFields ==
    ASSUME NEW s \in Sound, NEW b \in Seq(Evm), NEW u, u = ApplySpeculative(s, b)
    PROVE  /\ u.accounts = AccountsAfter(s, b, Len(b))
           /\ u.state_root = RootAfter(s, b, Len(b))
           /\ u.block_number = s.block_number + Len(b)
           /\ u.header_history = Trim(s.header_history \o NewHeaders(s, b))
           /\ u.settled_receipts = Extend(s.settled_receipts,
                                    ReceiptsAt(s, b, {i \in DOMAIN b : b[i] \in Executable}))
           /\ u.message_id_index = s.message_id_index
           /\ u.evm_to_hyli_hash = s.evm_to_hyli_hash
    <1>1. s \in EthState BY DEF Sound
    <1> QED BY <1>1 DEF ApplySpeculative, EthState

\* The message index has no part in an execution,
LEMMA AgreeSpeculative ==
    ASSUME NEW s \in Sound, NEW u \in Sound, Agree(s, u), NEW b \in Seq(Evm)
    PROVE  Agree(ApplySpeculative(s, b), ApplySpeculative(u, b))
    <1>1. \A i : AccountsAfter(s, b, i) = AccountsAfter(u, b, i) BY DEF AccountsAfter, Agree
    <1>2. \A i : RootAfter(s, b, i) = RootAfter(u, b, i) BY <1>1 DEF RootAfter, Agree
    <1>3. NewHeaders(s, b) = NewHeaders(u, b) BY <1>2 DEF NewHeaders, Agree
    <1>4. \A at : ReceiptsAt(s, b, at) = ReceiptsAt(u, b, at) BY DEF ReceiptsAt, Agree
    <1> DEFINE v == ApplySpeculative(s, b)
               w == ApplySpeculative(u, b)
    <1>5. /\ v.accounts = AccountsAfter(s, b, Len(b)) /\ w.accounts = AccountsAfter(u, b, Len(b))
          /\ v.state_root = RootAfter(s, b, Len(b)) /\ w.state_root = RootAfter(u, b, Len(b))
          /\ v.block_number = s.block_number + Len(b) /\ w.block_number = u.block_number + Len(b)
          /\ v.evm_to_hyli_hash = s.evm_to_hyli_hash /\ w.evm_to_hyli_hash = u.evm_to_hyli_hash
        BY ApplySpeculativeFields, ZenonT(60)
    <1>6. /\ v.header_history = Trim(s.header_history \o NewHeaders(s, b))
          /\ w.header_history = Trim(u.header_history \o NewHeaders(u, b))
        BY ApplySpeculativeFields
    <1>7. v.settled_receipts = w.settled_receipts
        <2> DEFINE ran == {i \in DOMAIN b : b[i] \in Executable}
        <2>1. /\ v.settled_receipts = Extend(s.settled_receipts, ReceiptsAt(s, b, ran))
              /\ w.settled_receipts = Extend(u.settled_receipts, ReceiptsAt(u, b, ran))
            BY ApplySpeculativeFields
        <2> HIDE DEF v, w, ran
        <2> QED BY <1>4, <2>1 DEF Agree
    <1> HIDE DEF v, w
    <1>8. Agree(v, w) BY <1>1, <1>2, <1>3, <1>5, <1>6, <1>7 DEF Agree
    <1> QED BY <1>8 DEF v, w

\* nor in a proof.
LEMMA AgreeProofs ==
    ASSUME NEW s, NEW u, Agree(s, u), NEW t
    PROVE  /\ \A i : BuildsProof(s, Blobs[t], i) <=> BuildsProof(u, Blobs[t], i)
           /\ \A at : ProofsOf(s, t, at) = ProofsOf(u, t, at)
    <1> DEFINE b == Blobs[t]
    <1>1. \A i : AccountsAfter(s, b, i) = AccountsAfter(u, b, i) BY DEF AccountsAfter, Agree
    <1>2. \A i : RootAfter(s, b, i) = RootAfter(u, b, i) BY <1>1 DEF RootAfter, Agree
    <1>3. \A i : ParentRoot(s, b, i) = ParentRoot(u, b, i)
        BY <1>2 DEF ParentRoot, LatestHeader, Agree
    <1>4. \A i : BuildsProof(s, b, i) <=> BuildsProof(u, b, i) BY <1>1 DEF BuildsProof
    <1>5. \A at : ProofsOf(s, t, at) = ProofsOf(u, t, at) BY <1>1, <1>3 DEF ProofsOf
    <1> QED BY <1>4, <1>5

\* Indexing messages changes nothing else.
LEMMA AgreeIndex ==
    ASSUME NEW s \in Sound, NEW t
    PROVE  Agree(s, IndexMessages(s, t))
    BY DEF Agree, IndexMessages, Sound, EthState

\* A segment of a segment.
LEMMA SubSeqConcat ==
    ASSUME NEW R, NEW c \in Seq(R), NEW d \in Seq(R)
    PROVE  /\ \A k \in 0..Len(c) : SubSeq(c \o d, 1, k) = SubSeq(c, 1, k)
           /\ SubSeq(c, 1, Len(c)) = c
    <1> DEFINE all == c \o d
    <1>1. /\ Len(c) \in Nat /\ Len(d) \in Nat /\ all \in Seq(R)
          /\ Len(all) = Len(c) + Len(d)
          /\ \A i \in 1..Len(c) + Len(d) : all[i] = IF i <= Len(c) THEN c[i] ELSE d[i - Len(c)]
          /\ \A i \in 1..Len(c) : c[i] \in R
          /\ \A i \in 1..Len(d) : d[i] \in R
          /\ \A i \in 1..Len(c) + Len(d) : all[i] \in R
        BY LenProperties, ConcatProperties, ElementOfSeq
    <1> HIDE DEF all
    <1>2. ASSUME NEW k \in 0..Len(c) PROVE SubSeq(all, 1, k) = SubSeq(c, 1, k)
        <2>1. /\ k \in Int /\ 1 \in Int /\ (IF 1 <= k THEN k - 1 + 1 ELSE 0) = k /\ k - 1 + 1 = k
              /\ \A i \in 1..k : all[i] \in R /\ c[i] \in R /\ all[i] = c[i]
            BY <1>1
        <2>2. /\ SubSeq(all, 1, k) \in Seq(R) /\ Len(SubSeq(all, 1, k)) = k
              /\ \A i \in 1..k : SubSeq(all, 1, k)[i] = all[1 + i - 1]
            BY <2>1, SubSeqProperties
        <2>3. /\ SubSeq(c, 1, k) \in Seq(R) /\ Len(SubSeq(c, 1, k)) = k
              /\ \A i \in 1..k : SubSeq(c, 1, k)[i] = c[1 + i - 1]
            BY <2>1, SubSeqProperties
        <2>4. \A i \in 1..k : 1 + i - 1 = i OBVIOUS
        <2> QED BY <2>1, <2>2, <2>3, <2>4, SeqEqual
    <1>3. SubSeq(c, 1, Len(c)) = c
        <2> DEFINE n == Len(c)
        <2>1. /\ n \in Int /\ 1 \in Int /\ (IF 1 <= n THEN n - 1 + 1 ELSE 0) = n /\ n - 1 + 1 = n
            BY <1>1
        <2>2. /\ SubSeq(c, 1, n) \in Seq(R) /\ Len(SubSeq(c, 1, n)) = n
              /\ \A i \in 1..n : SubSeq(c, 1, n)[i] = c[1 + i - 1]
            BY <1>1, <2>1, SubSeqProperties
        <2>3. \A i \in 1..n : 1 + i - 1 = i OBVIOUS
        <2> QED BY <2>2, <2>3, SeqEqual
    <1> QED BY <1>2, <1>3 DEF all

\* The first elements of one sequence after another.
LEMMA SubSeqOfConcat ==
    ASSUME NEW R, NEW c \in Seq(R), NEW d \in Seq(R), NEW k \in 0..Len(d)
    PROVE  /\ Len(c \o SubSeq(d, 1, k)) = Len(c) + k
           /\ SubSeq(c \o d, 1, Len(c \o SubSeq(d, 1, k))) = c \o SubSeq(d, 1, k)
    <1> DEFINE n == Len(c) + k
    <1> DEFINE all == c \o d
    <1>1. /\ Len(c) \in Nat /\ Len(d) \in Nat /\ all \in Seq(R)
          /\ Len(all) = Len(c) + Len(d)
          /\ \A i \in 1..Len(c) + Len(d) : all[i] = IF i <= Len(c) THEN c[i] ELSE d[i - Len(c)]
          /\ \A i \in 1..Len(c) : c[i] \in R
          /\ \A i \in 1..Len(d) : d[i] \in R
          /\ \A i \in 1..Len(c) + Len(d) : all[i] \in R
        BY LenProperties, ConcatProperties, ElementOfSeq
    <1> HIDE DEF all
    <1> DEFINE e == SubSeq(d, 1, k)
    <1>2. /\ k \in Int /\ n \in Int /\ 1 \in Int /\ (IF 1 <= k THEN k - 1 + 1 ELSE 0) = k
          /\ k - 1 + 1 = k /\ n - 1 + 1 = n /\ (IF 1 <= n THEN n - 1 + 1 ELSE 0) = n
          /\ \A i \in 1..k : d[i] \in R
          /\ \A i \in 1..n : all[i] \in R
        BY <1>1
    <1>3. /\ e \in Seq(R) /\ Len(e) = k
          /\ \A i \in 1..k : e[i] = d[1 + i - 1]
        BY <1>2, SubSeqProperties
    <1>4. /\ SubSeq(all, 1, n) \in Seq(R) /\ Len(SubSeq(all, 1, n)) = n
          /\ \A i \in 1..n : SubSeq(all, 1, n)[i] = all[1 + i - 1]
        BY <1>2, SubSeqProperties
    <1> HIDE DEF e
    <1>5. /\ c \o e \in Seq(R) /\ Len(c \o e) = n
          /\ \A i \in 1..n : (c \o e)[i] = IF i <= Len(c) THEN c[i] ELSE e[i - Len(c)]
        BY <1>3, ConcatProperties
    <1>6. \A i \in 1..n : SubSeq(all, 1, n)[i] = (c \o e)[i]
        <2> TAKE i \in 1..n
        <2>1. SubSeq(all, 1, n)[i] = all[i] /\ i \in 1..Len(c) + Len(d)
            <3>1. 1 + i - 1 = i BY <1>2
            <3> QED BY <1>1, <1>4, <3>1
        <2>2. CASE i <= Len(c) BY <1>1, <1>5, <2>1, <2>2
        <2>3. CASE ~ (i <= Len(c))
            <3>1. i - Len(c) \in 1..k /\ 1 + (i - Len(c)) - 1 = i - Len(c) BY <1>1, <2>3
            <3>2. e[i - Len(c)] = d[i - Len(c)] BY <1>3, <3>1
            <3> QED BY <1>1, <1>5, <2>1, <2>3, <3>2
        <2> QED BY <2>2, <2>3
    <1>7. SubSeq(all, 1, n) = c \o e BY <1>4, <1>5, <1>6, SeqEqual
    <1> QED BY <1>5, <1>7 DEF e, all

\* What the receipt r of payload e says on the chain c.
ReceiptOf(c, e, r) ==
    \/ r = None /\ \A i \in DOMAIN c : c[i].tx # e
    \/ \E i \in DOMAIN c :
        /\ c[i].tx = e /\ r = [block_number |-> i, logs |-> TRUE]
        /\ \A j \in DOMAIN c : c[j].tx = e => j <= i

\* The headers carry the roots the chain c had at their blocks.
OnChain(headers, c) ==
    \A i \in DOMAIN headers : headers[i].state_root = SubSeq(c, 1, headers[i].number)

\* The state of the chain c: its accounts, its root, its blocks, one for each transaction,
\* and its receipts.
Canonical(s, c) ==
    /\ s.accounts = c
    /\ s.state_root = c
    /\ s.block_number = Len(c)
    /\ OnChain(s.header_history, c)
    /\ \A e \in Evm : ReceiptOf(c, e, s.settled_receipts[e])

\* The EVM executes each of the blobs b.
AllExecuted(b) == \A i \in DOMAIN b : b[i] \in Executable

\* Of blobs that were all executed, each has the root of the accounts after it.
LEMMA AllRun ==
    ASSUME NEW s, NEW b \in Seq(Evm), AllExecuted(b)
    PROVE  /\ {i \in DOMAIN b : b[i] \in Executable} = DOMAIN b
           /\ \A i \in 1..Len(b) : RootAfter(s, b, i) = AccountsAfter(s, b, i)
    <1>1. /\ Len(b) \in Nat /\ DOMAIN b = 1..Len(b)
          /\ \A i \in DOMAIN b : b[i] \in Executable
        BY LenProperties DEF AllExecuted
    <1>2. ASSUME NEW i \in 1..Len(b) PROVE RootAfter(s, b, i) = AccountsAfter(s, b, i)
        <2>1. i \in 1..i /\ LastRun(b, i, i) BY <1>1 DEF LastRun
        <2>2. \A j \in 1..i : LastRun(b, i, j) => j = i
            <3> SUFFICES ASSUME NEW j \in 1..i, LastRun(b, i, j), j # i PROVE FALSE OBVIOUS
            <3>1. j + 1 \in (j + 1)..i /\ j + 1 \in DOMAIN b BY <1>1
            <3> QED BY <1>1, <3>1 DEF LastRun
        <2>3. (CHOOSE j \in 1..i : LastRun(b, i, j)) = i BY <2>1, <2>2
        <2> QED BY <2>1, <2>3 DEF RootAfter
    <1> QED BY <1>1, <1>2

\* Sealing them with the root they lead to changes nothing.
LEMMA SettledIsSpeculative ==
    ASSUME NEW s \in Sound, NEW b \in Seq(Evm), b # <<>>,
           AllExecuted(b),
           NEW canonical, canonical = AccountsAfter(s, b, Len(b))
    PROVE  ApplySettled(s, b, canonical) = ApplySpeculative(s, b)
    <1> DEFINE new == NewHeaders(s, b)
               n == Len(b)
    <1>1. n \in Nat \ {0} /\ n \in 1..n BY EmptySeq, LenProperties
    <1>2. /\ {i \in DOMAIN b : b[i] \in Executable} = DOMAIN b
          /\ RootAfter(s, b, n) = canonical
        BY <1>1, AllRun
    <1>3. /\ DOMAIN new = 1..n /\ new = [i \in 1..n |-> new[i]]
          /\ new[n] = [number |-> s.block_number + n, state_root |-> canonical]
        BY <1>1, <1>2 DEF NewHeaders
    <1> HIDE DEF new
    <1>4. [new EXCEPT ![n].state_root = canonical] = new
        <2>0. \A a, r : [[number |-> a, state_root |-> r] EXCEPT !.state_root = r]
                            = [number |-> a, state_root |-> r]
            OBVIOUS
        <2>1. [new[n] EXCEPT !.state_root = canonical] = new[n] BY <1>3, <2>0, Zenon
        <2>2. [new EXCEPT ![n].state_root = canonical]
                = [new EXCEPT ![n] = [new[n] EXCEPT !.state_root = canonical]]
            BY <1>1, <1>3
        <2> QED BY <1>3, <2>1, <2>2
    <1> HIDE DEF n
    <1> QED BY <1>2, <1>4 DEF ApplySettled, ApplySpeculative, new, n

\* Trimming only forgets headers.
LEMMA TrimElements ==
    ASSUME NEW headers \in Seq(Header), NEW i \in DOMAIN Trim(headers)
    PROVE  \E j \in DOMAIN headers : Trim(headers)[i] = headers[j]
    <1> DEFINE len == Len(headers)
               first == len - HeaderCap + 1
    <1>1. len \in Nat /\ HeaderCap \in Nat \ {0} /\ DOMAIN headers = 1..len
        BY LenProperties, EthAssumption
    <1>2. CASE len > HeaderCap
        <2>1. \A j \in first..len : headers[j] \in Header
            BY <1>1, <1>2, ElementOfSeq
        <2>2. first \in Int /\ len \in Int BY <1>1
        <2>3. /\ SubSeq(headers, first, len) \in Seq(Header)
              /\ Len(SubSeq(headers, first, len)) = HeaderCap
              /\ \A j \in 1..HeaderCap : SubSeq(headers, first, len)[j] = headers[first + j - 1]
            BY <1>1, <1>2, <2>1, <2>2, SubSeqProperties
        <2>4. Trim(headers) = SubSeq(headers, first, len) BY <1>2 DEF Trim
        <2>5. i \in 1..HeaderCap BY <2>3, <2>4, LenProperties
        <2>6. first + i - 1 \in 1..len BY <1>1, <1>2, <2>5
        <2> QED BY <1>1, <2>3, <2>4, <2>5, <2>6
    <1>3. CASE ~ (len > HeaderCap) BY <1>3 DEF Trim
    <1> QED BY <1>2, <1>3

\* One sequence after another.
LEMMA ConcatFacts ==
    ASSUME NEW R, NEW c \in Seq(R), NEW m \in Seq(R)
    PROVE  /\ c \o m \in Seq(R) /\ Len(c) \in Nat /\ Len(m) \in Nat
           /\ Len(c \o m) = Len(c) + Len(m)
           /\ DOMAIN c = 1..Len(c) /\ DOMAIN m = 1..Len(m) /\ DOMAIN (c \o m) = 1..Len(c \o m)
           /\ \A i \in 1..Len(c) : (c \o m)[i] = c[i]
           /\ \A i \in 1..Len(m) : (c \o m)[Len(c) + i] = m[i]
    <1>1. /\ c \o m \in Seq(R) /\ Len(c) \in Nat /\ Len(m) \in Nat
          /\ Len(c \o m) = Len(c) + Len(m)
          /\ \A i \in 1..Len(c) + Len(m) :
                (c \o m)[i] = IF i <= Len(c) THEN c[i] ELSE m[i - Len(c)]
        BY LenProperties, ConcatProperties
    <1>2. DOMAIN c = 1..Len(c) /\ DOMAIN m = 1..Len(m) /\ DOMAIN (c \o m) = 1..Len(c \o m)
        BY <1>1, LenProperties
    <1>3. \A i \in 1..Len(c) : (c \o m)[i] = c[i] BY <1>1
    <1>4. \A i \in 1..Len(m) : (c \o m)[Len(c) + i] = m[i]
        <2> TAKE i \in 1..Len(m)
        <2>1. Len(c) + i \in 1..Len(c) + Len(m) /\ ~ (Len(c) + i <= Len(c))
              /\ (Len(c) + i) - Len(c) = i
            BY <1>1
        <2> QED BY <1>1, <2>1
    <1> QED BY <1>1, <1>2, <1>3, <1>4

\* The chain c followed by the blobs b.
LEMMA ExtendedChain ==
    ASSUME NEW c \in Accounts, NEW b \in Seq(Evm), NEW d, d = c \o Marks(b)
    PROVE  /\ d \in Accounts /\ Len(c) \in Nat /\ Len(b) \in Nat
           /\ DOMAIN c = 1..Len(c) /\ DOMAIN d = 1..Len(d)
           /\ Len(d) = Len(c) + Len(b)
           /\ \A i \in 1..Len(c) : d[i] = c[i]
           /\ \A i \in DOMAIN d : i \in 1..Len(c) \/ i - Len(c) \in 1..Len(b)
    <1>0. PICK m : m = Marks(b) OBVIOUS
    <1>1. m \in Seq(Mark) /\ c \in Seq(Mark) BY <1>0, MarksType DEF Accounts
    <1>7. Len(m) = Len(b) BY <1>0, MarksType
    <1>3. d = c \o m BY <1>0
    <1>4. /\ c \o m \in Seq(Mark) /\ Len(c) \in Nat /\ Len(m) \in Nat
          /\ Len(c \o m) = Len(c) + Len(m)
          /\ DOMAIN c = 1..Len(c) /\ DOMAIN (c \o m) = 1..Len(c \o m)
          /\ \A i \in 1..Len(c) : (c \o m)[i] = c[i]
          /\ \A i \in 1..Len(m) : (c \o m)[Len(c) + i] = m[i]
        BY ONLY <1>1, ConcatFacts
    <1>5. \A i \in DOMAIN d : i \in 1..Len(c) \/ i - Len(c) \in 1..Len(b)
        BY <1>3, <1>4, <1>7
    <1> QED BY <1>3, <1>4, <1>5, <1>7 DEF Accounts

LEMMA AddedMark ==
    ASSUME NEW c \in Accounts, NEW b \in Seq(Evm), NEW d, d = c \o Marks(b), NEW i \in 1..Len(b)
    PROVE  d[Len(c) + i].tx = b[i]
    <1>0. PICK m : m = Marks(b) OBVIOUS
    <1>1. m \in Seq(Mark) /\ c \in Seq(Mark) BY <1>0, MarksType DEF Accounts
    <1>2. Len(m) = Len(b) BY <1>0, MarksType
    <1>3. m[i].tx = b[i] BY <1>0 DEF Marks
    <1>4. \A j \in 1..Len(m) : (c \o m)[Len(c) + j] = m[j] BY ONLY <1>1, ConcatFacts
    <1>5. (c \o m)[Len(c) + i] = m[i] BY <1>2, <1>4
    <1> QED BY <1>0, <1>3, <1>5

\* The receipts of executed blobs continue those of the chain before them.
LEMMA ReceiptsContinue ==
    ASSUME NEW s, NEW c \in Accounts, s.block_number = Len(c), NEW b \in Seq(Evm),
           AllExecuted(b), NEW e \in Evm,
           s.settled_receipts \in [Evm -> Receipt \cup {None}],
           ReceiptOf(c, e, s.settled_receipts[e])
    PROVE  ReceiptOf(c \o Marks(b), e, Extend(s.settled_receipts, ReceiptsAt(s, b, DOMAIN b))[e])
    <1> DEFINE d == c \o Marks(b)
               old == s.settled_receipts
               new == ReceiptsAt(s, b, DOMAIN b)
               l == Len(c)
               k == Len(b)
    <1>0. d = c \o Marks(b) OBVIOUS
    <1> HIDE DEF d
    <1> HIDE DEF l, k, old, new
    <1>1. /\ l \in Nat /\ k \in Nat /\ DOMAIN c = 1..l /\ DOMAIN d = 1..(l + k)
          /\ \A i \in 1..l : d[i] = c[i]
          /\ \A i \in 1..k : d[l + i].tx = b[i]
          /\ \A i \in DOMAIN d : i \in 1..l \/ i - l \in 1..k
        <2>1. /\ Len(c) \in Nat /\ Len(b) \in Nat
              /\ DOMAIN c = 1..Len(c) /\ DOMAIN d = 1..Len(d) /\ Len(d) = Len(c) + Len(b)
            BY ONLY <1>0, c \in Accounts, b \in Seq(Evm), ExtendedChain
        <2>2. \A i \in 1..Len(c) : d[i] = c[i]
            BY ONLY <1>0, c \in Accounts, b \in Seq(Evm), ExtendedChain
        <2>3. \A i \in 1..Len(b) : d[Len(c) + i].tx = b[i]
            BY ONLY <1>0, c \in Accounts, b \in Seq(Evm), AddedMark
        <2>4. \A i \in DOMAIN d : i \in 1..Len(c) \/ i - Len(c) \in 1..Len(b)
            BY ONLY <1>0, c \in Accounts, b \in Seq(Evm), ExtendedChain
        <2> QED BY <2>1, <2>2, <2>3, <2>4 DEF l, k
    <1>2. DOMAIN b = 1..k BY LenProperties DEF k
    <1>3. Extend(old, new)[e] = IF new[e] # None THEN new[e] ELSE old[e] BY DEF Extend, old
    <1> USE DEF old, new
    <1>4. \A i \in DOMAIN d : i \in 1..l \/ (i - l \in 1..k /\ d[i].tx = b[i - l])
        <2> TAKE i \in DOMAIN d
        <2>1. CASE i - l \in 1..k
            <3>1. l + (i - l) = i BY <1>1
            <3> QED BY <1>1, <2>1, <3>1
        <2> QED BY <1>1, <2>1
    <1>5. CASE \E i \in DOMAIN b : LastOccurrence(b, DOMAIN b, e, i)
        <2>1. PICK i \in DOMAIN b :
                /\ i = (CHOOSE j \in DOMAIN b : LastOccurrence(b, DOMAIN b, e, j))
                /\ LastOccurrence(b, DOMAIN b, e, i)
            BY <1>5
        <2>2. i \in 1..k /\ b[i] = e /\ e \in Executable /\ \A j \in 1..k : j > i => b[j] # e
            BY <1>2, <2>1 DEF LastOccurrence, AllExecuted
        <2> DEFINE r == [block_number |-> s.block_number + i, logs |-> e \in Executable]
        <2>3. new[e] = r BY <1>5, <2>1 DEF ReceiptsAt
        <2>4. r = [block_number |-> l + i, logs |-> TRUE] BY <2>2 DEF l
        <2>5. r # None
            <3>1. [block_number |-> l + i, logs |-> TRUE] \in [block_number : Nat, logs : BOOLEAN]
                BY <1>1, <2>2
            <3> HIDE DEF r
            <3> QED BY <2>4, <3>1, EthAssumption
        <2>6. l + i \in DOMAIN d /\ d[l + i].tx = e BY <1>1, <2>2
        <2>7. \A j \in DOMAIN d : d[j].tx = e => j <= l + i
            <3> TAKE j \in DOMAIN d
            <3> HAVE d[j].tx = e
            <3>1. CASE j \in 1..l BY <1>1, <2>2, <3>1
            <3>2. CASE j - l \in 1..k /\ d[j].tx = b[j - l]
                <4>1. ~ (j - l > i) BY <2>2, <3>2
                <4> QED BY <1>1, <2>2, <3>2, <4>1
            <3> QED BY <1>4, <3>1, <3>2
        <2> HIDE DEF r, new
        <2>8. Extend(old, new)[e] = [block_number |-> l + i, logs |-> TRUE]
            BY <1>3, <2>3, <2>4, <2>5
        <2> QED BY <2>6, <2>7, <2>8 DEF ReceiptOf, d, new
    <1>6. CASE ~ \E i \in DOMAIN b : LastOccurrence(b, DOMAIN b, e, i)
        <2>1. new[e] = None BY <1>6 DEF ReceiptsAt
        <2>2. \A i \in 1..k : b[i] # e
            <3> SUFFICES ASSUME NEW m \in 1..k, b[m] = e PROVE FALSE OBVIOUS
            <3> DEFINE T == {k - i : i \in {j \in 1..k : b[j] = e}}
            <3>1. T \subseteq Nat /\ T # {} BY <1>1
            <3>2. PICK x \in T : \A y \in T : x <= y BY <3>1, LeastNat
            <3>3. PICK i \in 1..k : b[i] = e /\ x = k - i BY <3>2
            <3>4. \A j \in 1..k : b[j] = e => ~ (j > i)
                <4> TAKE j \in 1..k
                <4> HAVE b[j] = e
                <4>1. k - j \in T OBVIOUS
                <4>2. k - i <= k - j BY <3>2, <3>3, <4>1
                <4> QED BY <1>1, <4>2
            <3> QED BY <1>2, <1>6, <3>3, <3>4 DEF LastOccurrence
        <2>3. \A i \in DOMAIN d : d[i].tx = e => i \in 1..l /\ c[i].tx = e
            BY <1>1, <1>4, <2>2
        <2>4. \A i \in 1..l : i \in DOMAIN d /\ d[i].tx = c[i].tx BY <1>1
        <2> HIDE DEF new
        <2>5. ReceiptOf(d, e, old[e]) BY <1>1, <2>3, <2>4 DEF ReceiptOf
        <2> QED BY <1>3, <2>1, <2>5 DEF d, new
    <1> QED BY <1>5, <1>6

\* Genesis is the state of the empty chain.
LEMMA GenesisCanonical == Canonical(Genesis, <<>>)
    <1>1. \A i \in DOMAIN Genesis.header_history :
            /\ Genesis.header_history[i] = [number |-> 0, state_root |-> <<>>]
        BY DEF Genesis
    <1>2. SubSeq(<<>>, 1, 0) = <<>>
        BY EmptySeq, SubSeqProperties
    <1>3. \A e \in Evm : ReceiptOf(<<>>, e, Genesis.settled_receipts[e])
        BY EmptySeq DEF Genesis, ReceiptOf
    <1>4. Genesis.block_number = Len(<<>>) BY EmptySeq DEF Genesis
    <1>5. OnChain(Genesis.header_history, <<>>)
        <2> SUFFICES ASSUME NEW i \in DOMAIN Genesis.header_history
                     PROVE  Genesis.header_history[i].state_root
                                = SubSeq(<<>>, 1, Genesis.header_history[i].number)
            BY DEF OnChain
        <2>1. PICK h : h = Genesis.header_history[i] OBVIOUS
        <2>2. h.number = 0 /\ h.state_root = <<>> BY <1>1, <2>1
        <2> QED BY <1>2, <2>1, <2>2
    <1>6. Genesis.accounts = <<>> /\ Genesis.state_root = <<>> BY DEF Genesis
    <1> QED BY <1>3, <1>4, <1>5, <1>6 DEF Canonical

\* The headers of executed blobs, after those of the chain before them.
LEMMA HeadersContinue ==
    ASSUME NEW s \in Sound, NEW c \in Accounts, Canonical(s, c), NEW b \in Seq(Evm),
           AllExecuted(b)
    PROVE  OnChain(s.header_history \o NewHeaders(s, b), c \o Marks(b))
    <1> SUFFICES ASSUME NEW all, all = s.header_history \o NewHeaders(s, b), NEW i \in DOMAIN all
                 PROVE  all[i].state_root = SubSeq(c \o Marks(b), 1, all[i].number)
        BY DEF OnChain
    <1>0. PICK h, m, new : h = s.header_history /\ m = Marks(b) /\ new = NewHeaders(s, b)
        OBVIOUS
    <1>1. m \in Seq(Mark) /\ c \in Seq(Mark) /\ Len(c) \in Nat BY <1>0, MarksType, LenProperties DEF Accounts
    <1>2. Len(m) = Len(b) /\ Len(b) \in Nat BY <1>0, MarksType, LenProperties
    <1>3. s \in EthState /\ s.block_number = Len(c) /\ s.accounts = c BY DEF Sound, Canonical
    <1>4. h \in Seq(Header) /\ new \in Seq(Header) BY <1>0, <1>3, NewHeadersType DEF EthState
    <1>5. Len(new) = Len(b) /\ \A j \in 1..Len(b) :
            new[j].number = Len(c) + j /\ new[j].state_root = RootAfter(s, b, j)
        BY <1>0, <1>2, <1>3 DEF NewHeaders
    <1>6. /\ all = h \o new /\ Len(h) \in Nat
          /\ DOMAIN all = 1..(Len(h) + Len(b))
        <2>1. /\ Len(h \o new) = Len(h) + Len(new) /\ DOMAIN (h \o new) = 1..Len(h \o new)
              /\ Len(h) \in Nat
            BY ONLY <1>4, ConcatFacts
        <2> QED BY <1>0, <1>5, <2>1
    <1>7. CASE i \in 1..Len(h)
        <2>1. \A j \in 1..Len(h) : (h \o new)[j] = h[j] BY ONLY <1>4, ConcatFacts
        <2>2. all[i] = h[i] BY <1>6, <1>7, <2>1
        <2>3. i \in DOMAIN h BY <1>4, <1>7, LenProperties
        <2>4. h[i].state_root = SubSeq(c, 1, h[i].number)
            BY <1>0, <2>3 DEF Canonical, OnChain
        <2>5. h[i].number \in 0..Len(c)
            <3>1. h[i].number = Len(c) - Len(h) + i BY <1>0, <1>3, <1>7 DEF Sound, Chained
            <3>2. Len(h) = IF Len(c) < HeaderCap THEN Len(c) + 1 ELSE HeaderCap
                BY <1>0, <1>3 DEF Sound, Chained
            <3>3. HeaderCap \in Nat \ {0} BY EthAssumption
            <3> QED BY <1>1, <1>6, <1>7, <3>1, <3>2, <3>3, SMTT(30)
        <2>6. \A k \in 0..Len(c) : SubSeq(c \o m, 1, k) = SubSeq(c, 1, k) BY ONLY <1>1, SubSeqConcat
        <2> QED BY <1>0, <2>2, <2>4, <2>5, <2>6
    <1>8. CASE i - Len(h) \in 1..Len(b)
        <2>0. PICK j \in 1..Len(b) : j = i - Len(h) BY <1>8
        <2>1. \A k \in 1..Len(new) : (h \o new)[Len(h) + k] = new[k] BY ONLY <1>4, ConcatFacts
        <2>2. Len(h) + j = i BY <1>6, <2>0
        <2>3. all[i] = new[j] BY <1>5, <1>6, <2>1, <2>2
        <2>4. RootAfter(s, b, j) = AccountsAfter(s, b, j) BY AllRun
        <2>5. AccountsAfter(s, b, j) = c \o SubSeq(m, 1, j) BY <1>0, <1>3 DEF AccountsAfter
        <2>6. PICK n : n = Len(c) + j OBVIOUS
        <2>7. j \in 0..Len(m) BY <1>2
        <2>9. SubSeq(c \o m, 1, Len(c \o SubSeq(m, 1, j))) = c \o SubSeq(m, 1, j)
            BY ONLY <1>1, <2>7, SubSeqOfConcat
        <2>10. Len(c \o SubSeq(m, 1, j)) = n
            BY ONLY <1>1, <2>6, <2>7, SubSeqOfConcat
        <2>8. SubSeq(c \o m, 1, n) = c \o SubSeq(m, 1, j) BY <2>9, <2>10
        <2> QED BY <1>0, <1>5, <2>3, <2>4, <2>5, <2>6, <2>8
    <1>9. i \in 1..Len(h) \/ i - Len(h) \in 1..Len(b) BY <1>2, <1>6
    <1> QED BY <1>7, <1>8, <1>9

\* Executing blobs on the state of a chain, none of which fails, gives that of the chain
\* that they continue.
LEMMA CanonicalSpeculative ==
    ASSUME NEW s \in Sound, NEW c \in Accounts, Canonical(s, c), NEW b \in Seq(Evm),
           b # <<>>, AllExecuted(b)
    PROVE  Canonical(ApplySpeculative(s, b), c \o Marks(b))
    <1>0. PICK u, d : u = ApplySpeculative(s, b) /\ d = c \o Marks(b) OBVIOUS
    <1>1. s \in EthState /\ s.block_number = Len(c) /\ s.accounts = c BY DEF Sound, Canonical
    <1>2. Len(b) \in Nat \ {0} BY EmptySeq, LenProperties
    <1>3. Len(d) = Len(c) + Len(b) BY <1>0, ExtendedChain
    <1>4. AccountsAfter(s, b, Len(b)) = d
        <2>1. Marks(b) \in Seq(Mark) BY MarksType
        <2>2. SubSeq(Marks(b), 1, Len(Marks(b))) = Marks(b) BY <2>1, SubSeqConcat
        <2>3. Len(Marks(b)) = Len(b) BY MarksType
        <2> QED BY <1>0, <1>1, <2>2, <2>3 DEF AccountsAfter
    <1>5. u.accounts = d BY <1>0, <1>4, ApplySpeculativeFields
    <1>6. u.state_root = d
        <2>1. Len(b) \in 1..Len(b) BY <1>2
        <2>2. RootAfter(s, b, Len(b)) = AccountsAfter(s, b, Len(b)) BY <2>1, AllRun
        <2> QED BY <1>0, <1>4, <2>2, ApplySpeculativeFields
    <1>7. u.block_number = Len(d) BY <1>0, <1>1, <1>3, ApplySpeculativeFields, ZenonT(60)
    <1>8. OnChain(u.header_history, d)
        <2>1. PICK all : all = s.header_history \o NewHeaders(s, b) OBVIOUS
        <2>2. u.header_history = Trim(all) BY <1>0, <2>1, ApplySpeculativeFields
        <2>3. all \in Seq(Header)
            BY <1>1, <2>1, NewHeadersType, ConcatProperties DEF EthState
        <2>4. OnChain(all, d) BY <1>0, <2>1, HeadersContinue
        <2>5. \A i \in DOMAIN Trim(all) : \E j \in DOMAIN all : Trim(all)[i] = all[j]
            BY <2>3, TrimElements
        <2> QED BY <2>2, <2>4, <2>5 DEF OnChain
    <1>9. \A e \in Evm : ReceiptOf(d, e, u.settled_receipts[e])
        <2> TAKE e \in Evm
        <2>1. u.settled_receipts = Extend(s.settled_receipts, ReceiptsAt(s, b, DOMAIN b))
            BY <1>0, AllRun, ApplySpeculativeFields, ZenonT(60)
        <2>2. s.settled_receipts \in [Evm -> Receipt \cup {None}] BY <1>1 DEF EthState
        <2>3. ReceiptOf(c, e, s.settled_receipts[e]) BY DEF Canonical
        <2>4. ReceiptOf(c \o Marks(b), e, Extend(s.settled_receipts, ReceiptsAt(s, b, DOMAIN b))[e])
            BY <1>1, <2>2, <2>3, ReceiptsContinue
        <2> QED BY <1>0, <2>1, <2>4
    <1> QED BY <1>0, <1>5, <1>6, <1>7, <1>8, <1>9 DEF Canonical

\* The message index has no part in what is canonical.
LEMMA CanonicalAgree ==
    ASSUME NEW s, NEW u, Agree(s, u), NEW c, Canonical(s, c)
    PROVE  Canonical(u, c)
    BY DEF Canonical, Agree

\* The headers of a chain's state: one for each of the last blocks, with the root there.
LEMMA CanonicalHeaders ==
    ASSUME NEW s \in Sound, NEW c \in Accounts, Canonical(s, c),
           NEW h, h = s.header_history, NEW n, n = Len(h)
    PROVE  /\ Len(c) \in Nat /\ n \in Nat \ {0} /\ DOMAIN h = 1..n /\ h \in Seq(Header)
           /\ n = IF Len(c) < HeaderCap THEN Len(c) + 1 ELSE HeaderCap
           /\ \A i \in 1..n : h[i] = [number |-> Len(c) - n + i,
                                      state_root |-> SubSeq(c, 1, Len(c) - n + i)]
           /\ LatestHeader(s) = [number |-> Len(c), state_root |-> c]
    <1>1. /\ s \in EthState /\ Chained(s) /\ s.block_number = Len(c) /\ c \in Seq(Mark)
          /\ HeaderCap \in Nat \ {0}
        BY EthAssumption DEF Sound, Canonical, Accounts
    <1>2. h \in Seq(Header) BY <1>1 DEF EthState
    <1>3. Len(c) \in Nat /\ n \in Nat /\ DOMAIN h = 1..n /\ \A i \in 1..n : h[i] \in Header
        BY <1>1, <1>2, LenProperties, ElementOfSeq
    <1>4. /\ n = IF Len(c) < HeaderCap THEN Len(c) + 1 ELSE HeaderCap
          /\ \A i \in 1..n : h[i].number = Len(c) - n + i
        BY <1>1 DEF Chained
    <1>5. \A i \in 1..n : h[i].state_root = SubSeq(c, 1, h[i].number)
        BY <1>3 DEF Canonical, OnChain
    <1>6. \A i \in 1..n : h[i] = [number |-> h[i].number, state_root |-> h[i].state_root]
        BY <1>3 DEF Header
    <1>7. \A i \in 1..n : h[i] = [number |-> Len(c) - n + i,
                                  state_root |-> SubSeq(c, 1, Len(c) - n + i)]
        <2> TAKE i \in 1..n
        <2>1. PICK m : m = Len(c) - n + i OBVIOUS
        <2>2. h[i].number = m /\ h[i].state_root = SubSeq(c, 1, m) BY <1>4, <1>5, <2>1
        <2> QED BY <1>6, <2>1, <2>2
    <1>8. n \in Nat \ {0} BY <1>1, <1>3, <1>4
    <1>9. LatestHeader(s) = [number |-> Len(c), state_root |-> c]
        <2>1. LatestHeader(s) = h[n] BY DEF LatestHeader, Last
        <2>2. n \in 1..n /\ Len(c) - n + n = Len(c) BY <1>3, <1>8
        <2>3. h[n] = [number |-> Len(c), state_root |-> SubSeq(c, 1, Len(c))] BY <1>7, <2>2
        <2>4. SubSeq(c, 1, Len(c)) = c BY <1>1, SubSeqConcat
        <2> QED BY <2>1, <2>3, <2>4
    <1> QED BY <1>2, <1>3, <1>4, <1>7, <1>8, <1>9

\* Where a payload runs last on a chain is the block of its receipt.
LEMMA CanonicalReceipt ==
    ASSUME NEW c, NEW e, NEW r, ReceiptOf(c, e, r), DOMAIN c \subseteq Int,
           NEW places, places = {i \in DOMAIN c : c[i].tx = e}
    PROVE  r = IF places = {} THEN None
               ELSE [block_number |-> Max(places), logs |-> TRUE]
    <1>1. CASE r = None /\ \A i \in DOMAIN c : c[i].tx # e
        <2>1. places = {} BY <1>1
        <2> QED BY <1>1, <2>1
    <1>2. CASE \E i \in DOMAIN c :
            /\ c[i].tx = e /\ r = [block_number |-> i, logs |-> TRUE]
            /\ \A j \in DOMAIN c : c[j].tx = e => j <= i
        <2>1. PICK i \in DOMAIN c :
                /\ c[i].tx = e /\ r = [block_number |-> i, logs |-> TRUE]
                /\ \A j \in DOMAIN c : c[j].tx = e => j <= i
            BY <1>2
        <2>2. /\ i \in places /\ places # {} /\ places \subseteq Int
              /\ \A j \in places : i >= j
            BY <2>1
        <2>3. \A x \in places : (\A y \in places : x >= y) => x = i BY <2>2
        <2>4. Max(places) = i BY <2>2, <2>3 DEF Max
        <2> QED BY <2>1, <2>2, <2>4
    <1> QED BY <1>1, <1>2 DEF ReceiptOf

-----------------------------------------------------------------------------
\* Folds.

\* The results of the first n steps of op, from a.
HasFold(T, a, n, op) ==
    \E g \in [0..n -> T] : g[0] = a /\ \A i \in 1..n : g[i] = op[<<g[i - 1], i>>]

\* They exist.
LEMMA FoldExists ==
    ASSUME NEW T, NEW a \in T, NEW n \in Nat, NEW op \in [T \X (1..n) -> T]
    PROVE  HasFold(T, a, n, op)
    <1> DEFINE Built(m) ==
            \E g \in [0..m -> T] : g[0] = a /\ \A i \in 1..m : g[i] = op[<<g[i - 1], i>>]
               P == {m \in 0..n : Built(m)}
    <1>1. Built(0)
        <2> DEFINE g == [i \in 0..0 |-> a]
        <2>1. g \in [0..0 -> T] /\ g[0] = a /\ \A i \in 1..0 : g[i] = op[<<g[i - 1], i>>]
            OBVIOUS
        <2> HIDE DEF g
        <2> QED BY <2>1
    <1>2. ASSUME NEW m \in 1..n, Built(m - 1) PROVE Built(m)
        <2>1. PICK f \in [0..(m - 1) -> T] :
                f[0] = a /\ \A i \in 1..(m - 1) : f[i] = op[<<f[i - 1], i>>]
            BY <1>2
        <2>2. m - 1 \in 0..(m - 1) /\ m \in Nat /\ m # 0 OBVIOUS
        <2>3. PICK last : last = op[<<f[m - 1], m>>] OBVIOUS
        <2>4. last \in T
            <3>1. <<f[m - 1], m>> \in T \X (1..n) BY <2>2
            <3> QED BY <2>3, <3>1
        <2> DEFINE g == [i \in 0..m |-> IF i = m THEN last ELSE f[i]]
        <2>5. \A i \in 0..m : i # m => i \in 0..(m - 1) BY <2>2
        <2>6. g \in [0..m -> T] BY <2>4, <2>5
        <2>7. g[0] = f[0] /\ g[m] = last BY <2>2
        <2>8. \A i \in 0..(m - 1) : g[i] = f[i] BY <2>2
        <2> HIDE DEF g
        <2>9. ASSUME NEW i \in 1..m PROVE g[i] = op[<<g[i - 1], i>>]
            <3>1. i - 1 \in 0..(m - 1) BY <2>2
            <3>2. CASE i = m BY <2>3, <2>7, <2>8, <3>1, <3>2
            <3>3. CASE i # m
                <4>1. i \in 1..(m - 1) /\ i \in 0..(m - 1) BY <2>2, <3>3
                <4> QED BY <2>1, <2>8, <3>1, <4>1
            <3> QED BY <3>2, <3>3
        <2> QED BY <2>1, <2>6, <2>7, <2>9
    <1> HIDE DEF Built
    <1>3. 0..n \subseteq P
        <2>1. 0 \in P BY <1>1
        <2>2. \A m \in 1..n : m - 1 \in P => m \in P BY <1>2
        <2> HIDE DEF P
        <2> QED BY <2>1, <2>2, CountUp
    <1>4. n \in P BY <1>3
    <1> QED BY <1>4 DEF Built, HasFold

\* Flattening adds one sequence at a time.
LEMMA FlattenSteps ==
    ASSUME NEW R, NEW n \in Nat, NEW f \in [1..n -> Seq(R)], NEW g \in [0..n -> Seq(R)],
           g[0] = <<>>, \A i \in 1..n : g[i] = g[i - 1] \o f[i]
    PROVE  FlattenSeq(f) = g[n]
    <1>1. f \in Seq(Seq(R)) /\ Len(f) = n
        <2>1. f \in Seq(Seq(R)) BY SeqDef
        <2>2. Len(f) \in Nat /\ 1..Len(f) = 1..n BY <2>1, LenProperties
        <2> QED BY <2>1, <2>2
    <1>2. CASE n = 0
        <2>1. f = <<>> BY <1>1, <1>2, EmptySeq
        <2>2. FlattenSeq(f) = f BY <1>1, <1>2 DEF FlattenSeq
        <2> QED BY <1>2, <2>1, <2>2
    <1>3. CASE n # 0
        <2> DEFINE step(h) == [i \in 1..n |-> IF i = 1 THEN f[i] ELSE h[i - 1] \o f[i]]
                   w == [i \in 1..n |-> g[i]]
        <2>1. ASSUME NEW i \in 1..n PROVE w[i] = g[i] /\ w[i] = step(w)[i]
            <3>1. CASE i = 1
                <4>1. g[i] = g[i - 1] \o f[i] OBVIOUS
                <4>2. i - 1 = 0 BY <3>1
                <4>3. PICK x : x = f[i] OBVIOUS
                <4>4. x \in Seq(R) BY <4>3
                <4>5. <<>> \o x = x BY ONLY <4>4, ConcatEmptySeq
                <4>6. g[i] = x BY <4>1, <4>2, <4>3, <4>5
                <4> QED BY <3>1, <4>3, <4>6
            <3>2. CASE i # 1
                <4>1. i - 1 \in 1..n BY <3>2
                <4> QED BY <3>2, <4>1
            <3> QED BY <3>1, <3>2
        <2>2. w = step(w) BY <2>1
        <2>3. ASSUME NEW h, h = step(h) PROVE h[n] = g[n]
            <3> DEFINE P == {0} \cup {i \in 1..n : h[i] = g[i]}
            <3>1. ASSUME NEW i \in 1..n, i - 1 \in P PROVE i \in P
                <4>1. h[i] = step(h)[i] BY <2>3
                <4>2. g[i] = step(w)[i] BY <2>1
                <4>3. CASE i = 1
                    <5>1. step(h)[i] = f[i] /\ step(w)[i] = f[i] BY <4>3
                    <5> HIDE DEF w, step
                    <5> QED BY <4>1, <4>2, <5>1
                <4>4. CASE i # 1
                    <5>1. i - 1 \in 1..n BY <4>4
                    <5>2. h[i - 1] = g[i - 1] BY <3>1, <5>1
                    <5>3. step(h)[i] = h[i - 1] \o f[i] /\ step(w)[i] = g[i - 1] \o f[i]
                        BY <4>4, <5>1
                    <5>4. h[i] = g[i]
                        <6> HIDE DEF w, step
                        <6> QED BY ONLY <4>1, <4>2, <5>2, <5>3
                    <5> QED BY <5>4
                <4> QED BY <4>3, <4>4
            <3>2. 0..n \subseteq P
                <4>1. 0 \in P OBVIOUS
                <4>2. \A i \in 1..n : i - 1 \in P => i \in P BY <3>1
                <4> HIDE DEF P
                <4> QED BY <4>1, <4>2, CountUp
            <3>3. n \in 0..n OBVIOUS
            <3>4. n \in P BY <3>2, <3>3
            <3> QED BY <1>3, <3>4
        <2>4. FlattenSeq(f) = (CHOOSE h : h = step(h))[n] BY <1>1, <1>3 DEF FlattenSeq
        <2> HIDE DEF step
        <2>5. PICK h : h = step(h) /\ h = CHOOSE x : x = step(x) BY <2>2
        <2>6. FlattenSeq(f) = h[n] BY <2>4, <2>5
        <2> QED BY <2>3, <2>5, <2>6
    <1> QED BY <1>2, <1>3

\* So does whoever adds them to a sequence.
LEMMA FlattenFrom ==
    ASSUME NEW R, NEW n \in Nat, NEW f \in [1..n -> Seq(R)], NEW c \in Seq(R), NEW g,
           g[0] = c, \A i \in 1..n : g[i] = g[i - 1] \o f[i]
    PROVE  FlattenSeq(f) \in Seq(R) /\ g[n] = c \o FlattenSeq(f)
    <1>1. ASSUME NEW s \in Seq(R), NEW t \in Seq(R), NEW u \in Seq(R)
          PROVE  (s \o t) \o u = s \o (t \o u)
        BY ONLY ConcatAssociative, SMTT(30)
    <1>2. PICK T : T = Seq(R) OBVIOUS
    <1>3. PICK op : op = [p \in T \X (1..n) |-> p[1] \o f[p[2]]] OBVIOUS
    <1>4. PICK k \in [0..n -> T] : k[0] = <<>> /\ \A i \in 1..n : k[i] = op[<<k[i - 1], i>>]
        <2>1. op \in [T \X (1..n) -> T]
            <3> SUFFICES ASSUME NEW p \in T \X (1..n) PROVE p[1] \o f[p[2]] \in T
                BY <1>3
            <3>1. p[1] \in Seq(R) /\ f[p[2]] \in Seq(R) BY <1>2
            <3> QED BY <1>2, <3>1, ConcatProperties
        <2>2. PICK a : a = <<>> OBVIOUS
        <2>3. a \in T BY <1>2, <2>2, EmptySeq
        <2>4. n \in Nat OBVIOUS
        <2>5. HasFold(T, a, n, op) BY ONLY <2>1, <2>3, <2>4, FoldExists
        <2> QED BY <2>2, <2>5 DEF HasFold
    <1>5. ASSUME NEW i \in 1..n PROVE i - 1 \in 0..n /\ k[i] = k[i - 1] \o f[i]
        <2>1. i - 1 \in 0..n OBVIOUS
        <2>2. op[<<k[i - 1], i>>] = k[i - 1] \o f[i] BY <1>3, <2>1
        <2> QED BY <1>4, <2>1, <2>2
    <1>6. FlattenSeq(f) = k[n]
        <2>1. n \in Nat /\ k \in [0..n -> Seq(R)] /\ f \in [1..n -> Seq(R)] BY <1>2
        <2>2. \A i \in 1..n : k[i] = k[i - 1] \o f[i] BY <1>5
        <2> QED BY ONLY <1>4, <2>1, <2>2, FlattenSteps
    <1> DEFINE P == {i \in 0..n : g[i] = c \o k[i]}
    <1>7. 0 \in P BY <1>4, ConcatEmptySeq
    <1>8. ASSUME NEW i \in 1..n, i - 1 \in P PROVE i \in P
        <2>1. k[i - 1] \in Seq(R) /\ f[i] \in Seq(R) /\ g[i - 1] = c \o k[i - 1]
            BY <1>2, <1>5, <1>8
        <2>2. (c \o k[i - 1]) \o f[i] = c \o (k[i - 1] \o f[i]) BY <1>1, <2>1
        <2>3. g[i] = g[i - 1] \o f[i] /\ k[i] = k[i - 1] \o f[i] BY <1>5
        <2>4. g[i] = c \o k[i] BY ONLY <2>1, <2>2, <2>3
        <2> QED BY <2>4
    <1>9. 0..n \subseteq P
        <2> HIDE DEF P
        <2> QED BY <1>7, <1>8, CountUp
    <1>10. n \in P BY <1>9
    <1> QED BY <1>2, <1>6, <1>10

=============================================================================
