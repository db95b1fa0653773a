------------------------ MODULE EthChainLoops_proofs ------------------------
(***************************************************************************)
(* The closed forms of EthChainState are the loops of the code, for every  *)
(* transaction, however many blobs it has and whichever of them repeat or  *)
(* fail, on every state the chain can be in.                               *)
(*                                                                         *)
(* Part is the state in the middle of a transaction.  A turn of a loop     *)
(* makes one blob more of it (PartNext, PartRecorded); a loop is then the  *)
(* last of its parts, by induction on the blobs.                           *)
(***************************************************************************)
EXTENDS EthChainLoops, EthChainState_proofs

-----------------------------------------------------------------------------
\* Sequences.

\* Sequences that start alike have the same starts.
LEMMA SamePrefix ==
    ASSUME NEW R, NEW v \in Seq(R), NEW w \in Seq(R), NEW k \in 0..Len(v), k <= Len(w),
           \A i \in 1..k : v[i] = w[i]
    PROVE  SubSeq(v, 1, k) = SubSeq(w, 1, k)
    <1>1. /\ k \in Int /\ 1 \in Int /\ k - 1 + 1 = k
          /\ \A i \in 1..k : v[i] \in R /\ w[i] \in R /\ 1 + i - 1 = i
        BY LenProperties, ElementOfSeq
    <1>2. /\ SubSeq(v, 1, k) \in Seq(R)
          /\ Len(SubSeq(v, 1, k)) = IF 1 <= k THEN k - 1 + 1 ELSE 0
          /\ \A i \in 1..(k - 1 + 1) : SubSeq(v, 1, k)[i] = v[1 + i - 1]
        BY <1>1, SubSeqProperties
    <1>3. /\ SubSeq(w, 1, k) \in Seq(R)
          /\ Len(SubSeq(w, 1, k)) = IF 1 <= k THEN k - 1 + 1 ELSE 0
          /\ \A i \in 1..(k - 1 + 1) : SubSeq(w, 1, k)[i] = w[1 + i - 1]
        BY <1>1, SubSeqProperties
    <1>4. Len(SubSeq(v, 1, k)) = Len(SubSeq(w, 1, k)) BY <1>2, <1>3
    <1>5. \A i \in 1..Len(SubSeq(v, 1, k)) : i \in 1..k BY <1>1, <1>2
    <1>6. \A i \in 1..Len(SubSeq(v, 1, k)) : SubSeq(v, 1, k)[i] = SubSeq(w, 1, k)[i]
        BY <1>1, <1>2, <1>3, <1>5
    <1> QED BY <1>2, <1>3, <1>4, <1>6, SeqEqual

\* A sequence and the start of another: one element more.
LEMMA PrefixNext ==
    ASSUME NEW R, NEW h \in Seq(R), NEW w \in Seq(R), NEW m \in 1..Len(w)
    PROVE  /\ h \o SubSeq(w, 1, m) = Append(h \o SubSeq(w, 1, m - 1), w[m])
           /\ h \o SubSeq(w, 1, m) \in Seq(R) /\ h \o SubSeq(w, 1, m - 1) \in Seq(R)
    <1>1. m \in Nat /\ m - 1 \in 0..Len(w) /\ 1 \in 1..Len(w) /\ m \in 1..Len(w) /\ m \in 0..Len(w)
        BY LenProperties
    <1>2. PICK q, e : q = SubSeq(w, 1, m - 1) /\ e = w[m] OBVIOUS
    <1>3. \A k \in 0..Len(w) : SubSeq(w, 1, k) \in Seq(R)
        <2> TAKE k \in 0..Len(w)
        <2>1. \A i \in 1..k : w[i] \in R BY LenProperties, ElementOfSeq
        <2> QED BY <2>1, SubSeqProperties
    <1>4. q \in Seq(R) /\ e \in R /\ <<e>> \in Seq(R) BY <1>1, <1>2, <1>3, ElementOfSeq
    <1>5. SubSeq(w, 1, m) = q \o <<e>>
        <2>1. m \in 1..Len(w) OBVIOUS
        <2> QED BY ONLY <1>1, <1>2, w \in Seq(R), SubSeqRecursiveSecond
    <1>6. h \o (q \o <<e>>) = (h \o q) \o <<e>> BY ONLY <1>4, h \in Seq(R), ConcatAssociative
    <1>7. h \o q \in Seq(R) BY <1>4, ConcatProperties
    <1>8. Append(h \o q, e) = (h \o q) \o <<e>> BY ONLY <1>4, <1>7, AppendIsConcat
    <1>9. h \o SubSeq(w, 1, m) = Append(h \o q, e) BY ONLY <1>5, <1>6, <1>8
    <1>10. Append(h \o q, e) \in Seq(R) BY ONLY <1>4, <1>7, AppendProperties
    <1> QED BY <1>2, <1>7, <1>9, <1>10

-----------------------------------------------------------------------------
\* One blob more.

\* The last of the blobs that ran is the last one, if it ran,
LEMMA RootNext ==
    ASSUME NEW s, NEW b, NEW m \in Nat \ {0}
    PROVE  RootAfter(s, b, m) =
                IF b[m] \in Executable THEN AccountsAfter(s, b, m) ELSE RootAfter(s, b, m - 1)
    <1>1. \A j \in 1..m : LastRun(b, m, j) => b[j] \in Executable /\ \A k \in (j + 1)..m : b[k] \notin Executable
        BY DEF LastRun
    <1>2. CASE b[m] \in Executable
        <2>1. m \in 1..m /\ LastRun(b, m, m) BY <1>2 DEF LastRun
        <2>2. \A j \in 1..m : LastRun(b, m, j) => j = m
            <3> SUFFICES ASSUME NEW j \in 1..m, LastRun(b, m, j), j # m PROVE FALSE OBVIOUS
            <3>1. m \in (j + 1)..m OBVIOUS
            <3> QED BY <1>1, <1>2, <3>1
        <2>3. (CHOOSE j \in 1..m : LastRun(b, m, j)) = m BY <2>1, <2>2
        <2> QED BY <1>2, <2>1, <2>3 DEF RootAfter
    \* or else the one that was.
    <1>3. CASE b[m] \notin Executable
        <2>1. \A j \in 1..m : LastRun(b, m, j) <=> j \in 1..(m - 1) /\ LastRun(b, m - 1, j)
            <3> TAKE j \in 1..m
            <3>1. CASE j = m BY <1>1, <1>3, <3>1
            <3>2. CASE j # m
                <4>1. j \in 1..(m - 1) /\ (j + 1)..m = ((j + 1)..(m - 1)) \cup {m} BY <3>2
                <4> QED BY <1>3, <4>1 DEF LastRun
            <3> QED BY <3>1, <3>2
        <2>2. \A i \in 1..(m - 1) : i \in 1..m OBVIOUS
        <2>3. CASE \E j \in 1..m : LastRun(b, m, j)
            <3>1. PICK j \in 1..m : LastRun(b, m, j) BY <2>3
            <3>2. \A k \in 1..m : LastRun(b, m, k) => k = j
                <4> SUFFICES ASSUME NEW k \in 1..m, LastRun(b, m, k), k # j PROVE FALSE OBVIOUS
                <4>1. k \in (j + 1)..m \/ j \in (k + 1)..m OBVIOUS
                <4> QED BY <1>1, <3>1, <4>1
            <3>3. (CHOOSE k \in 1..m : LastRun(b, m, k)) = j BY <3>1, <3>2
            <3>4. j \in 1..(m - 1) /\ LastRun(b, m - 1, j) BY <2>1, <3>1
            <3>5. \A k \in 1..(m - 1) : LastRun(b, m - 1, k) => k = j BY <2>1, <2>2, <3>2
            <3>6. (CHOOSE k \in 1..(m - 1) : LastRun(b, m - 1, k)) = j BY <3>4, <3>5
            <3> QED BY <1>3, <2>3, <3>3, <3>4, <3>6 DEF RootAfter
        <2>4. CASE ~ \E j \in 1..m : LastRun(b, m, j)
            <3>1. ~ \E j \in 1..(m - 1) : LastRun(b, m - 1, j) BY <2>1, <2>2, <2>4
            <3> QED BY <1>3, <2>4, <3>1 DEF RootAfter
        <2> QED BY <2>3, <2>4
    <1> QED BY <1>2, <1>3

\* Trimming keeps the last HeaderCap headers.
LEMMA TrimIs ==
    ASSUME NEW w \in Seq(Header), Len(w) >= HeaderCap
    PROVE  /\ Trim(w) \in Seq(Header) /\ Len(Trim(w)) = HeaderCap
           /\ \A i \in 1..HeaderCap : Trim(w)[i] = w[Len(w) - HeaderCap + i]
    <1> PICK n, c : n = Len(w) /\ c = HeaderCap OBVIOUS
    <1>0. n >= c OBVIOUS
    <1>1. n \in Nat /\ c \in Nat \ {0} /\ \A i \in 1..n : w[i] \in Header
        BY LenProperties, ElementOfSeq, EthAssumption
    <1>2. CASE n = c
        <2>1. Trim(w) = w BY <1>1, <1>2 DEF Trim
        <2>2. \A i \in 1..c : n - c + i = i BY <1>1, <1>2
        <2> QED BY <1>2, <2>1, <2>2
    <1>3. CASE n # c
        <2>1. PICK first : first = n - c + 1 OBVIOUS
        <2>2. Trim(w) = SubSeq(w, first, n) BY <1>0, <1>1, <1>3, <2>1 DEF Trim
        <2>3. first \in Int /\ n \in Int /\ \A i \in first..n : w[i] \in Header
            BY <1>0, <1>1, <1>3, <2>1
        <2>4. /\ SubSeq(w, first, n) \in Seq(Header)
              /\ Len(SubSeq(w, first, n)) = IF first <= n THEN n - first + 1 ELSE 0
              /\ \A i \in 1..(n - first + 1) : SubSeq(w, first, n)[i] = w[first + i - 1]
            BY <2>3, SubSeqProperties
        <2>5. first <= n /\ n - first + 1 = c /\ \A i \in 1..c : first + i - 1 = n - c + i
            BY <1>0, <1>1, <1>3, <2>1
        <2> QED BY <2>2, <2>4, <2>5
    <1> QED BY <1>2, <1>3

\* Trimming after each header or after all of them is the same.
LEMMA TrimNext ==
    ASSUME NEW w \in Seq(Header), NEW h \in Header
    PROVE  Trim(Append(w, h)) = Push(Trim(w), h)
    <1>1. PICK n, c, all : n = Len(w) /\ c = HeaderCap /\ all = Append(w, h) OBVIOUS
    <1>2. /\ n \in Nat /\ c \in Nat \ {0} /\ all \in Seq(Header) /\ Len(all) = n + 1
          /\ all[n + 1] = h /\ \A i \in 1..n : all[i] = w[i]
        BY <1>1, LenProperties, AppendProperties, EthAssumption
    <1>3. CASE n < c
        <2>1. Trim(w) = w /\ Trim(all) = all BY <1>1, <1>2, <1>3 DEF Trim
        <2>2. ~ (Len(w) + 1 > c) BY <1>1, <1>2, <1>3
        <2> QED BY <1>1, <2>1, <2>2 DEF Push
    <1>4. CASE ~ (n < c)
        <2>1. PICK old, y : old = Trim(w) /\ y = Trim(all) OBVIOUS
        <2>2. old \in Seq(Header) /\ Len(old) = c /\ \A i \in 1..c : old[i] = w[n - c + i]
            <3>1. Len(w) >= HeaderCap BY <1>1, <1>2, <1>4
            <3> QED BY <1>1, <2>1, <3>1, TrimIs
        <2>3. PICK t, x : t = Tail(old) /\ x = Append(t, h) OBVIOUS
        <2>4. /\ t \in Seq(Header) /\ Len(t) = c - 1 /\ \A i \in 1..(c - 1) : t[i] = old[i + 1]
            <3>1. old # <<>> BY <1>2, <2>2, EmptySeq
            <3> QED BY <2>2, <2>3, <3>1, HeadTailProperties
        <2>5. /\ x \in Seq(Header) /\ Len(x) = c /\ x[c] = h /\ \A i \in 1..(c - 1) : x[i] = t[i]
            <3>1. c - 1 + 1 = c BY <1>2
            <3> QED BY <2>3, <2>4, <3>1, AppendProperties
        <2>6. Push(old, h) = x BY <1>1, <1>2, <2>2, <2>3 DEF Push
        <2>7. y \in Seq(Header) /\ Len(y) = c /\ \A i \in 1..c : y[i] = all[n + 1 - c + i]
            <3>1. Len(all) >= HeaderCap BY <1>1, <1>2, <1>4
            <3>2. /\ Trim(all) \in Seq(Header) /\ Len(Trim(all)) = HeaderCap
                  /\ \A i \in 1..HeaderCap : Trim(all)[i] = all[Len(all) - HeaderCap + i]
                BY <1>2, <3>1, TrimIs
            <3>3. y \in Seq(Header) /\ Len(y) = c /\ \A i \in 1..c : y[i] = all[Len(all) - c + i]
                BY <1>1, <2>1, <3>2
            <3> QED BY <1>2, <3>3
        <2>8. ASSUME NEW i \in 1..c PROVE x[i] = y[i]
            <3>1. CASE i = c
                <4>1. n + 1 - c + i = n + 1 BY <1>2, <3>1
                <4> QED BY <1>2, <2>5, <2>7, <3>1, <4>1
            <3>2. CASE i # c
                <4>1. PICK k : k = n + 1 - c + i OBVIOUS
                <4>2. i \in 1..(c - 1) /\ i + 1 \in 1..c /\ k \in 1..n /\ k = n - c + (i + 1)
                    BY <1>2, <1>4, <3>2, <4>1
                <4>3. x[i] = w[k] BY <2>2, <2>4, <2>5, <4>2
                <4>4. y[i] = w[k] BY <1>2, <2>7, <4>1, <4>2
                <4> QED BY <4>3, <4>4
            <3> QED BY <3>1, <3>2
        <2>9. x = y BY <2>5, <2>7, <2>8, SeqEqual
        <2> QED BY <1>1, <2>1, <2>6, <2>9
    <1> QED BY <1>3, <1>4

\* A payload that occurs again gets its later receipt; the others keep theirs.
LEMMA ReceiptsNext ==
    ASSUME NEW s, s.block_number \in Nat, NEW b, NEW m \in Nat \ {0},
           NEW at \in SUBSET (1..(m - 1)), b[m] \in Evm,
           NEW r, DOMAIN r = Evm
    PROVE  Extend(r, ReceiptsAt(s, b, at \cup {m})) =
                [Extend(r, ReceiptsAt(s, b, at)) EXCEPT ![b[m]] =
                    [block_number |-> s.block_number + m, logs |-> b[m] \in Executable]]
    <1>1. PICK new : new = at \cup {m} OBVIOUS
    <1>2. /\ at \subseteq Int /\ new \subseteq Int /\ m \in new
          /\ \A i \in at : i < m /\ i \in new
          /\ \A i \in new : i = m \/ i \in at
        BY <1>1
    <1>3. ASSUME NEW e \in Evm
          PROVE  ReceiptsAt(s, b, new)[e] =
                    IF e = b[m]
                    THEN [block_number |-> s.block_number + m, logs |-> b[m] \in Executable]
                    ELSE ReceiptsAt(s, b, at)[e]
        <2>1. CASE e = b[m]
            <3>1. LastOccurrence(b, new, e, m) BY <1>2, <2>1 DEF LastOccurrence
            <3>2. \A i \in new : LastOccurrence(b, new, e, i) => i = m
                BY <1>2, <2>1 DEF LastOccurrence
            <3>3. (CHOOSE i \in new : LastOccurrence(b, new, e, i)) = m BY <1>2, <3>1, <3>2
            <3> QED BY <1>2, <2>1, <3>1, <3>3 DEF ReceiptsAt
        <2>2. CASE e # b[m]
            <3>1. \A i \in new : LastOccurrence(b, new, e, i) <=> LastOccurrence(b, at, e, i)
                BY <1>2, <2>2 DEF LastOccurrence
            <3>2. \A i : LastOccurrence(b, at, e, i) => i \in at BY DEF LastOccurrence
            <3>3. CASE \E i \in at : LastOccurrence(b, at, e, i)
                <4>1. PICK i \in at : LastOccurrence(b, at, e, i) BY <3>3
                <4>2. \A j \in at : LastOccurrence(b, at, e, j) => j = i
                    <5> SUFFICES ASSUME NEW j \in at, LastOccurrence(b, at, e, j), j # i PROVE FALSE
                        OBVIOUS
                    <5>1. j > i \/ i > j BY <1>2
                    <5> QED BY <4>1, <5>1 DEF LastOccurrence
                <4>3. (CHOOSE j \in at : LastOccurrence(b, at, e, j)) = i BY <4>1, <4>2
                <4>4. i \in new /\ LastOccurrence(b, new, e, i) BY <1>2, <3>1, <4>1
                <4>5. \A j \in new : LastOccurrence(b, new, e, j) => j = i BY <3>1, <3>2, <4>2
                <4>6. (CHOOSE j \in new : LastOccurrence(b, new, e, j)) = i BY <4>4, <4>5
                <4> QED BY <2>2, <3>3, <4>3, <4>4, <4>6 DEF ReceiptsAt
            <3>4. CASE ~ \E i \in at : LastOccurrence(b, at, e, i)
                <4>1. ~ \E i \in new : LastOccurrence(b, new, e, i) BY <3>1, <3>2, <3>4
                <4> QED BY <2>2, <3>4, <4>1 DEF ReceiptsAt
            <3> QED BY <3>3, <3>4
        <2> QED BY <2>1, <2>2
    <1>4. PICK x : x = [block_number |-> s.block_number + m, logs |-> b[m] \in Executable] OBVIOUS
    <1>5. x # None
        <2> DEFINE logs == b[m] \in Executable
        <2>1. logs \in BOOLEAN /\ s.block_number + m \in Nat OBVIOUS
        <2>2. x = [block_number |-> s.block_number + m, logs |-> logs] BY <1>4
        <2> HIDE DEF logs
        <2> QED BY <2>1, <2>2, EthAssumption
    <1> QED BY <1>1, <1>3, <1>4, <1>5 DEF Extend

-----------------------------------------------------------------------------
\* The state in the middle of a transaction: the first m blobs of b executed on s, with the
\* receipts of those at the positions of `at`.

Part(s, b, m, at) ==
    [accounts         |-> AccountsAfter(s, b, m),
     state_root       |-> RootAfter(s, b, m),
     block_number     |-> s.block_number + m,
     header_history   |-> Trim(s.header_history \o SubSeq(NewHeaders(s, b), 1, m)),
     settled_receipts |-> Extend(s.settled_receipts, ReceiptsAt(s, b, at)),
     message_id_index |-> s.message_id_index,
     evm_to_hyli_hash |-> s.evm_to_hyli_hash]

\* A state is its fields.
LEMMA StateIs ==
    ASSUME NEW u \in EthState
    PROVE  u = [accounts         |-> u.accounts,
                state_root       |-> u.state_root,
                block_number     |-> u.block_number,
                header_history   |-> u.header_history,
                settled_receipts |-> u.settled_receipts,
                message_id_index |-> u.message_id_index,
                evm_to_hyli_hash |-> u.evm_to_hyli_hash]
    BY DEF EthState

\* A transaction starts where the state is.
LEMMA PartNone ==
    ASSUME NEW s \in Sound, NEW b \in Seq(Evm)
    PROVE  Part(s, b, 0, {}) = s
    <1>1. /\ s \in EthState /\ s.accounts \in Seq(Mark) /\ s.header_history \in Seq(Header)
          /\ s.block_number \in Nat /\ s.settled_receipts \in [Evm -> Receipt \cup {None}]
        BY DEF Sound, EthState, Accounts
    <1>2. SubSeq(Marks(b), 1, 0) = <<>> /\ SubSeq(NewHeaders(s, b), 1, 0) = <<>>
        BY SubSeqEmpty
    <1>3. AccountsAfter(s, b, 0) = s.accounts BY <1>1, <1>2, ConcatEmptySeq DEF AccountsAfter
    <1>4. RootAfter(s, b, 0) = s.state_root BY DEF RootAfter
    <1>5. Trim(s.header_history \o SubSeq(NewHeaders(s, b), 1, 0)) = s.header_history
        <2>1. s.header_history \o <<>> = s.header_history BY <1>1, ConcatEmptySeq
        <2>2. ~ (Len(s.header_history) > HeaderCap) BY <1>1, EthAssumption DEF Sound, Chained
        <2> QED BY <1>2, <2>1, <2>2 DEF Trim
    <1>6. Extend(s.settled_receipts, ReceiptsAt(s, b, {})) = s.settled_receipts
        BY <1>1 DEF Extend, ReceiptsAt
    <1>7. s = [accounts         |-> s.accounts,
               state_root       |-> s.state_root,
               block_number     |-> s.block_number,
               header_history   |-> s.header_history,
               settled_receipts |-> s.settled_receipts,
               message_id_index |-> s.message_id_index,
               evm_to_hyli_hash |-> s.evm_to_hyli_hash]
        BY <1>1, StateIs
    <1>8. s.block_number + 0 = s.block_number BY <1>1
    <1> QED BY ONLY <1>3, <1>4, <1>5, <1>6, <1>7, <1>8 DEF Part

\* What a blob adds to the accounts and the headers.
LEMMA PartAdds ==
    ASSUME NEW s \in Sound, NEW b \in Seq(Evm), NEW m \in 1..Len(b)
    PROVE  /\ AccountsAfter(s, b, m) =
                Append(AccountsAfter(s, b, m - 1), [tx |-> b[m], ran |-> b[m] \in Executable])
           /\ Trim(s.header_history \o SubSeq(NewHeaders(s, b), 1, m)) =
                Push(Trim(s.header_history \o SubSeq(NewHeaders(s, b), 1, m - 1)),
                     [number |-> s.block_number + m, state_root |-> RootAfter(s, b, m)])
    <1>1. /\ s \in EthState /\ s.accounts \in Seq(Mark) /\ s.header_history \in Seq(Header)
          /\ s.block_number \in Nat
        BY DEF Sound, EthState, Accounts
    <1>2. PICK k : k = Marks(b) OBVIOUS
    <1>3. k \in Seq(Mark) /\ Len(k) = Len(b) /\ k[m] = [tx |-> b[m], ran |-> b[m] \in Executable]
        BY <1>2, MarksType DEF Marks
    <1>4. s.accounts \o SubSeq(k, 1, m) = Append(s.accounts \o SubSeq(k, 1, m - 1), k[m])
        <2>1. PICK c : c = s.accounts OBVIOUS
        <2>2. c \in Seq(Mark) /\ m \in 1..Len(k) BY <1>1, <1>3, <2>1
        <2>3. c \o SubSeq(k, 1, m) = Append(c \o SubSeq(k, 1, m - 1), k[m])
            BY ONLY <1>3, <2>2, PrefixNext
        <2> QED BY <2>1, <2>3
    <1>5. PICK w : w = NewHeaders(s, b) OBVIOUS
    <1>6. /\ w \in Seq(Header) /\ Len(w) = Len(b)
          /\ w[m] = [number |-> s.block_number + m, state_root |-> RootAfter(s, b, m)]
        BY <1>1, <1>5, NewHeadersType DEF NewHeaders
    <1>7. PICK old, h : old = s.header_history \o SubSeq(w, 1, m - 1) /\ h = w[m] OBVIOUS
    <1>8. s.header_history \o SubSeq(w, 1, m) = Append(old, h) /\ old \in Seq(Header)
        BY <1>1, <1>6, <1>7, PrefixNext, ZenonT(60)
    <1>9. h \in Header BY <1>6, <1>7, ElementOfSeq
    <1>10. Trim(Append(old, h)) = Push(Trim(old), h) BY <1>8, <1>9, TrimNext
    <1> QED BY <1>2, <1>3, <1>4, <1>5, <1>6, <1>7, <1>8, <1>10 DEF AccountsAfter

\* A turn of the loops, up to the receipt,
LEMMA PartNext ==
    ASSUME NEW s \in Sound, NEW b \in Seq(Evm), NEW m \in 1..Len(b), NEW at
    PROVE  ApplyOne(Part(s, b, m - 1, at), b[m]) = Part(s, b, m, at)
    <1>1. m \in Nat \ {0} /\ s.block_number \in Nat BY LenProperties DEF Sound, EthState
    <1>2. s.block_number + (m - 1) + 1 = s.block_number + m BY <1>1
    <1>3. PICK p, e : p = Part(s, b, m - 1, at) /\ e = b[m] OBVIOUS
    <1>4. PICK acc, root :
            /\ acc = Append(p.accounts, [tx |-> e, ran |-> e \in Executable])
            /\ root = IF e \in Executable THEN acc ELSE p.state_root
        OBVIOUS
    <1>5. acc = AccountsAfter(s, b, m) BY <1>3, <1>4, PartAdds DEF Part
    <1>6. root = RootAfter(s, b, m) BY <1>1, <1>3, <1>4, <1>5, RootNext DEF Part
    <1>7. p.block_number + 1 = s.block_number + m BY <1>2, <1>3 DEF Part
    <1>8. Push(p.header_history, [number |-> p.block_number + 1, state_root |-> root])
            = Trim(s.header_history \o SubSeq(NewHeaders(s, b), 1, m))
        BY <1>3, <1>6, <1>7, PartAdds DEF Part
    <1>9. ApplyOne(p, e) =
            [p EXCEPT !.accounts = acc, !.state_root = root, !.block_number = p.block_number + 1,
                      !.header_history =
                        Push(p.header_history, [number |-> p.block_number + 1, state_root |-> root])]
        BY <1>4 DEF ApplyOne
    <1> QED BY <1>3, <1>5, <1>6, <1>7, <1>8, <1>9, ZenonT(60) DEF Part

\* and with it.
LEMMA PartRecorded ==
    ASSUME NEW s \in Sound, NEW b \in Seq(Evm), NEW m \in 1..Len(b), NEW at \in SUBSET (1..(m - 1))
    PROVE  Record(Part(s, b, m, at), b[m]) = Part(s, b, m, at \cup {m})
    <1>1. /\ m \in Nat \ {0} /\ s.block_number \in Nat /\ b[m] \in Evm
          /\ DOMAIN s.settled_receipts = Evm
        BY LenProperties, ElementOfSeq DEF Sound, EthState
    <1>2. Extend(s.settled_receipts, ReceiptsAt(s, b, at \cup {m})) =
            [Extend(s.settled_receipts, ReceiptsAt(s, b, at)) EXCEPT ![b[m]] =
                [block_number |-> s.block_number + m, logs |-> b[m] \in Executable]]
        BY <1>1, ReceiptsNext, ZenonT(60)
    <1> QED BY <1>2 DEF Part, Record

\* The closed form is the whole of it.
LEMMA PartAll ==
    ASSUME NEW s \in Sound, NEW b \in Seq(Evm)
    PROVE  ApplySpeculative(s, b) =
                Part(s, b, Len(b), {i \in DOMAIN b : b[i] \in Executable})
    <1>1. PICK w : w = NewHeaders(s, b) OBVIOUS
    <1>2. s \in EthState /\ w \in Seq(Header) /\ Len(w) = Len(b)
        BY <1>1, NewHeadersType DEF Sound
    <1>3. SubSeq(w, 1, Len(b)) = w BY <1>2, SubSeqFull
    <1>4. PICK a, r, n, h, m :
            /\ a = AccountsAfter(s, b, Len(b)) /\ r = RootAfter(s, b, Len(b))
            /\ n = s.block_number + Len(b) /\ h = Trim(s.header_history \o w)
            /\ m = Extend(s.settled_receipts,
                          ReceiptsAt(s, b, {i \in DOMAIN b : b[i] \in Executable}))
        OBVIOUS
    <1>5. ApplySpeculative(s, b) =
            [s EXCEPT !.accounts = a, !.state_root = r, !.block_number = n,
                      !.header_history = h, !.settled_receipts = m]
        BY Zenon, <1>1, <1>4 DEF ApplySpeculative
    <1>6. Part(s, b, Len(b), {i \in DOMAIN b : b[i] \in Executable}) =
            [accounts |-> a, state_root |-> r, block_number |-> n, header_history |-> h,
             settled_receipts |-> m, message_id_index |-> s.message_id_index,
             evm_to_hyli_hash |-> s.evm_to_hyli_hash]
        BY Zenon, <1>1, <1>3, <1>4 DEF Part
    <1>7. PICK u : u = ApplySpeculative(s, b) OBVIOUS
    <1>8. u \in EthState BY <1>7, ApplySpeculativeSound DEF Sound
    <1>9. u = [s EXCEPT !.accounts = a, !.state_root = r, !.block_number = n,
                        !.header_history = h, !.settled_receipts = m]
        BY <1>5, <1>7
    <1>10. u = [accounts |-> a, state_root |-> r, block_number |-> n, header_history |-> h,
                settled_receipts |-> m, message_id_index |-> s.message_id_index,
                evm_to_hyli_hash |-> s.evm_to_hyli_hash]
        <2>1. /\ u.accounts = a /\ u.state_root = r /\ u.block_number = n
              /\ u.header_history = h /\ u.settled_receipts = m
              /\ u.message_id_index = s.message_id_index
              /\ u.evm_to_hyli_hash = s.evm_to_hyli_hash
            BY <1>2, <1>9 DEF EthState
        <2> QED BY <1>8, <2>1, StateIs
    <1> QED BY ONLY <1>6, <1>7, <1>10

\* The last turn of settling, with Hyli's root.
LEMMA PartSettled ==
    ASSUME NEW s \in Sound, NEW b \in Seq(Evm), NEW n, n = Len(b), n # 0, NEW c \in Accounts
    PROVE  Record(ApplyLast(Part(s, b, n - 1, 1..(n - 1)), b[n], c), b[n]) = ApplySettled(s, b, c)
    <1>1. PICK w, all : w = NewHeaders(s, b) /\ all = [w EXCEPT ![n].state_root = c] OBVIOUS
    <1>2. /\ s \in EthState /\ n \in Nat \ {0} /\ n \in 1..Len(b) /\ s.block_number \in Nat
          /\ s.header_history \in Seq(Header) /\ b[n] \in Evm /\ DOMAIN b = 1..n
          /\ w \in Seq(Header) /\ Len(w) = n
        BY <1>1, LenProperties, ElementOfSeq, NewHeadersType DEF Sound, EthState
    <1>3. w[n] \in Header /\ w[n].number = s.block_number + n
        BY <1>1, <1>2, ElementOfSeq, NewHeadersType
    <1>4. PICK h : h = [number |-> s.block_number + n, state_root |-> c] OBVIOUS
    <1>5. h \in Header /\ h = [w[n] EXCEPT !.state_root = c]
        BY <1>2, <1>3, <1>4, SMTT(30) DEF Header
    <1>6. all = [w EXCEPT ![n] = h] BY <1>1, <1>5
    <1>7. /\ all \in Seq(Header) /\ Len(all) = n /\ all[n] = h
          /\ \A i \in 1..(n - 1) : all[i] = w[i]
        <2>1. n \in 1..Len(w) BY <1>2
        <2>2. /\ all \in Seq(Header) /\ Len(all) = Len(w)
              /\ \A i \in 1..Len(w) : all[i] = IF i = n THEN h ELSE w[i]
            BY <1>2, <1>5, <1>6, <2>1, ExceptSeq
        <2> QED BY <1>2, <2>1, <2>2
    <1>8. SubSeq(all, 1, n - 1) = SubSeq(w, 1, n - 1)
        <2>1. PICK k : k = n - 1 OBVIOUS
        <2>2. k \in 0..Len(all) /\ k <= Len(w) /\ \A i \in 1..k : all[i] = w[i]
            BY <1>2, <1>7, <2>1
        <2>3. SubSeq(all, 1, k) = SubSeq(w, 1, k) BY ONLY <1>2, <1>7, <2>2, SamePrefix
        <2> QED BY <2>1, <2>3
    <1>9. PICK old : old = s.header_history \o SubSeq(w, 1, n - 1) OBVIOUS
    <1>10. old \in Seq(Header) /\ Trim(s.header_history \o all) = Push(Trim(old), h)
        <2>0. PICK g : g = s.header_history OBVIOUS
        <2>00. g \in Seq(Header) /\ n \in 1..Len(all) BY <1>2, <1>7, <2>0
        <2>1. /\ g \o SubSeq(all, 1, n) = Append(g \o SubSeq(all, 1, n - 1), all[n])
              /\ g \o SubSeq(all, 1, n - 1) \in Seq(Header)
            BY ONLY <1>7, <2>00, PrefixNext
        <2>2. SubSeq(all, 1, n) = all BY <1>7, SubSeqFull
        <2>3. s.header_history \o all = Append(old, h) /\ old \in Seq(Header)
            BY <1>7, <1>8, <1>9, <2>0, <2>1, <2>2
        <2> QED BY <1>5, <2>3, TrimNext
    <1>11. PICK a, m :
            /\ a = AccountsAfter(s, b, n)
            /\ m = Extend(s.settled_receipts, ReceiptsAt(s, b, 1..n))
        OBVIOUS
    <1>12. PICK p, e : p = Part(s, b, n - 1, 1..(n - 1)) /\ e = b[n] OBVIOUS
    <1>13. /\ Append(p.accounts, [tx |-> e, ran |-> e \in Executable]) = a
           /\ p.block_number + 1 = s.block_number + n
           /\ p.header_history = Trim(old)
        <2>1. s.block_number + (n - 1) + 1 = s.block_number + n BY <1>2
        <2> QED BY <1>1, <1>2, <1>9, <1>11, <1>12, <2>1, PartAdds DEF Part
    <1>14. [p.settled_receipts EXCEPT ![e] =
                [block_number |-> s.block_number + n, logs |-> e \in Executable]] = m
        <2>1. (1..(n - 1)) \cup {n} = 1..n /\ 1..(n - 1) \in SUBSET (1..(n - 1)) BY <1>2
        <2>2. DOMAIN s.settled_receipts = Evm BY <1>2 DEF EthState
        <2>3. PICK r, i : r = s.settled_receipts /\ i = s.block_number OBVIOUS
        <2>4. Extend(r, ReceiptsAt(s, b, (1..(n - 1)) \cup {n})) =
                [Extend(r, ReceiptsAt(s, b, 1..(n - 1))) EXCEPT ![b[n]] =
                    [block_number |-> s.block_number + n, logs |-> b[n] \in Executable]]
            <3>1. n \in Nat \ {0} /\ b[n] \in Evm /\ s.block_number \in Nat /\ DOMAIN r = Evm
                BY <1>2, <2>2, <2>3
            <3> QED BY ONLY <2>1, <3>1, ReceiptsNext, ZenonT(60)
        <2>5. p.settled_receipts = Extend(r, ReceiptsAt(s, b, 1..(n - 1))) BY <1>12, <2>3 DEF Part
        <2> QED BY <1>11, <1>12, <2>1, <2>3, <2>4, <2>5
    <1>15. PICK k : k = s.block_number + n OBVIOUS
    <1>16. Record(ApplyLast(p, e, c), e) =
            [accounts |-> a, state_root |-> c, block_number |-> k,
             header_history |-> Push(Trim(old), h), settled_receipts |-> m,
             message_id_index |-> s.message_id_index, evm_to_hyli_hash |-> s.evm_to_hyli_hash]
        <2>1. PICK q : q = ApplyLast(p, e, c) OBVIOUS
        <2>2. q = [accounts |-> a, state_root |-> c, block_number |-> k,
                   header_history |-> Push(Trim(old), h),
                   settled_receipts |-> p.settled_receipts,
                   message_id_index |-> s.message_id_index,
                   evm_to_hyli_hash |-> s.evm_to_hyli_hash]
            <3>1. q = [p EXCEPT !.accounts = a, !.state_root = c, !.block_number = k,
                                !.header_history = Push(Trim(old), h)]
                BY <1>4, <1>13, <1>15, <2>1 DEF ApplyLast
            <3> QED BY <1>12, <3>1 DEF Part
        <2>3. Record(q, e) = [q EXCEPT !.settled_receipts = m]
            BY <1>14, <1>15, <2>2 DEF Record
        <2> QED BY <2>1, <2>2, <2>3
    <1>17. ApplySettled(s, b, c) =
            [s EXCEPT !.accounts = a, !.state_root = c, !.block_number = k,
                      !.header_history = Push(Trim(old), h), !.settled_receipts = m]
        BY Zenon, <1>1, <1>2, <1>10, <1>11, <1>15, n = Len(b) DEF ApplySettled
    <1>18. ApplySettled(s, b, c) =
            [accounts |-> a, state_root |-> c, block_number |-> k,
             header_history |-> Push(Trim(old), h), settled_receipts |-> m,
             message_id_index |-> s.message_id_index, evm_to_hyli_hash |-> s.evm_to_hyli_hash]
        <2>1. PICK u : u = ApplySettled(s, b, c) OBVIOUS
        <2>2. b # <<>> BY <1>2, EmptySeq
        <2>3. u \in EthState BY <2>1, <2>2, ApplySettledSound DEF Sound
        <2>4. u = [s EXCEPT !.accounts = a, !.state_root = c, !.block_number = k,
                            !.header_history = Push(Trim(old), h), !.settled_receipts = m]
            BY ONLY <1>17, <2>1
        <2>5. u = [accounts |-> a, state_root |-> c, block_number |-> k,
                   header_history |-> Push(Trim(old), h), settled_receipts |-> m,
                   message_id_index |-> s.message_id_index,
                   evm_to_hyli_hash |-> s.evm_to_hyli_hash]
            <3>1. /\ u.accounts = a /\ u.state_root = c /\ u.block_number = k
                  /\ u.header_history = Push(Trim(old), h) /\ u.settled_receipts = m
                  /\ u.message_id_index = s.message_id_index
                  /\ u.evm_to_hyli_hash = s.evm_to_hyli_hash
                BY <1>2, <2>4 DEF EthState
            <3> QED BY <2>3, <3>1, StateIs
        <2> QED BY ONLY <2>1, <2>5
    <1> QED BY <1>12, <1>16, <1>18

-----------------------------------------------------------------------------
\* The loops.

\* Two runs of a loop that start alike and turn alike end alike.
LEMMA SameLoop ==
    ASSUME NEW n \in Nat, NEW h, NEW w, h[0] = w[0],
           \A i \in 1..n : h[i - 1] = w[i - 1] => h[i] = w[i]
    PROVE  h[n] = w[n]
    <1> DEFINE P == {i \in 0..n : h[i] = w[i]}
    <1>1. 0 \in P OBVIOUS
    <1>2. \A i \in 1..n : i - 1 \in P => i \in P OBVIOUS
    <1>3. 0..n \subseteq P
        <2> HIDE DEF P
        <2> QED BY <1>1, <1>2, CountUp
    <1> QED BY <1>3

\* The positions of the first m blobs that ran.
Ran(b, m) == {i \in 1..m : b[i] \in Executable}

\* A turn of handle_sequenced_tx's loop.
LEMMA SpeculativeTurn ==
    ASSUME NEW s \in Sound, NEW b \in Seq(Evm), NEW m \in 1..Len(b)
    PROVE  Part(s, b, m, Ran(b, m)) =
                IF b[m] \in Executable
                THEN Record(ApplyOne(Part(s, b, m - 1, Ran(b, m - 1)), b[m]), b[m])
                ELSE ApplyOne(Part(s, b, m - 1, Ran(b, m - 1)), b[m])
    <1>1. m \in Nat \ {0} BY LenProperties
    <1>2. PICK at : at = Ran(b, m - 1) OBVIOUS
    <1>3. at \in SUBSET (1..(m - 1)) BY <1>2 DEF Ran
    <1>4. ApplyOne(Part(s, b, m - 1, at), b[m]) = Part(s, b, m, at) BY PartNext
    <1>5. CASE b[m] \in Executable
        <2>1. Ran(b, m) = at \cup {m} BY <1>1, <1>2, <1>5 DEF Ran
        <2>2. Record(Part(s, b, m, at), b[m]) = Part(s, b, m, at \cup {m})
            BY <1>3, PartRecorded
        <2> QED BY <1>2, <1>4, <1>5, <2>1, <2>2
    <1>6. CASE b[m] \notin Executable
        <2>1. Ran(b, m) = at BY <1>1, <1>2, <1>6 DEF Ran
        <2> QED BY <1>2, <1>4, <1>6, <2>1
    <1> QED BY <1>5, <1>6

\* The loop of handle_sequenced_tx is the closed form.
LEMMA SpeculativeLoopIs ==
    ASSUME NEW s \in Sound, NEW b \in Seq(Evm)
    PROVE  SpeculativeLoop(s, b) = ApplySpeculative(s, b)
    <1> DEFINE n == Len(b)
               w == [i \in 0..n |-> Part(s, b, i, Ran(b, i))]
               step(h) == [i \in 0..Len(b) |->
                    IF i = 0 THEN s
                    ELSE IF b[i] \in Executable THEN Record(ApplyOne(h[i - 1], b[i]), b[i])
                    ELSE ApplyOne(h[i - 1], b[i])]
    <1>0. n \in Nat /\ n \in 0..n /\ DOMAIN b = 1..n BY LenProperties
    <1>1. ASSUME NEW i \in 0..n PROVE w[i] = step(w)[i]
        <2>1. CASE i = 0
            <3>1. Ran(b, 0) = {} BY DEF Ran
            <3>2. w[0] = Part(s, b, 0, {})
                <4>1. 0 \in 0..n BY <1>0
                <4>2. w[0] = Part(s, b, 0, Ran(b, 0)) BY <4>1
                <4> QED BY ONLY <3>1, <4>2
            <3>3. step(w)[0] = s BY <1>0
            <3> QED BY <2>1, <3>2, <3>3, PartNone
        <2>2. CASE i # 0
            <3>1. i \in 1..Len(b) /\ i - 1 \in 0..n BY <1>0, <2>2
            <3>2. PICK p, q : p = Part(s, b, i - 1, Ran(b, i - 1)) /\ q = Part(s, b, i, Ran(b, i))
                OBVIOUS
            <3>3. w[i - 1] = p /\ w[i] = q BY <3>1, <3>2
            <3>4. q = IF b[i] \in Executable THEN Record(ApplyOne(p, b[i]), b[i])
                      ELSE ApplyOne(p, b[i])
                BY <3>1, <3>2, SpeculativeTurn
            <3>5. step(w)[i] = IF b[i] \in Executable THEN Record(ApplyOne(w[i - 1], b[i]), b[i])
                               ELSE ApplyOne(w[i - 1], b[i])
                <4> HIDE DEF w
                <4> QED BY <2>2
            <3> HIDE DEF w, step
            <3> QED BY <3>3, <3>4, <3>5
        <2> QED BY <2>1, <2>2
    <1>2. w = step(w)
        <2>1. DOMAIN w = 0..n /\ DOMAIN step(w) = 0..n OBVIOUS
        <2>2. w = [i \in 0..n |-> w[i]] /\ step(w) = [i \in 0..n |-> step(w)[i]] OBVIOUS
        <2> HIDE DEF w, step
        <2> QED BY ONLY <1>1, <2>2
    <1>3. ASSUME NEW h, h = step(h) PROVE h[n] = w[n]
        <2>1. h[0] = w[0]
            <3>1. step(h)[0] = s /\ step(w)[0] = s BY <1>0
            <3> HIDE DEF w, step
            <3> QED BY <1>2, <1>3, <3>1
        <2>2. ASSUME NEW i \in 1..n, h[i - 1] = w[i - 1] PROVE h[i] = w[i]
            <3>1. i \in 0..n /\ i # 0 BY <1>0
            <3>2. \A g : step(g)[i] = IF b[i] \in Executable THEN Record(ApplyOne(g[i - 1], b[i]), b[i])
                                      ELSE ApplyOne(g[i - 1], b[i])
                <4> HIDE DEF w
                <4> QED BY <3>1
            <3> HIDE DEF w, step
            <3>3. PICK x : x = h[i - 1] OBVIOUS
            <3>4. x = w[i - 1] BY <2>2, <3>3
            <3>5. step(h)[i] = step(w)[i] BY ONLY <3>2, <3>3, <3>4
            <3> QED BY <1>2, <1>3, <3>5
        <2> HIDE DEF n, w, step
        <2> QED BY <1>0, <2>1, <2>2, SameLoop
    <1>4. SpeculativeLoop(s, b) = (CHOOSE h : h = step(h))[n] BY DEF SpeculativeLoop
    <1>5. w[n] = ApplySpeculative(s, b)
        <2>1. {i \in DOMAIN b : b[i] \in Executable} = Ran(b, n) BY <1>0 DEF Ran
        <2>2. w[n] = Part(s, b, n, Ran(b, n)) BY <1>0
        <2>3. ApplySpeculative(s, b) = Part(s, b, Len(b), {i \in DOMAIN b : b[i] \in Executable})
            BY PartAll
        <2> QED BY <2>1, <2>2, <2>3
    <1> HIDE DEF w, step
    <1>6. PICK h : h = step(h) /\ h = CHOOSE x : x = step(x) BY <1>2
    <1> QED BY <1>3, <1>4, <1>5, <1>6

\* A turn of settle_success_catching_up's loop, before the last.
LEMMA SettledTurn ==
    ASSUME NEW s \in Sound, NEW b \in Seq(Evm), NEW m \in 1..Len(b)
    PROVE  Part(s, b, m, 1..m) = Record(ApplyOne(Part(s, b, m - 1, 1..(m - 1)), b[m]), b[m])
    <1>1. m \in Nat \ {0} BY LenProperties
    <1>2. PICK at : at = 1..(m - 1) OBVIOUS
    <1>3. at \in SUBSET (1..(m - 1)) /\ at \cup {m} = 1..m BY <1>1, <1>2
    <1>4. ApplyOne(Part(s, b, m - 1, at), b[m]) = Part(s, b, m, at) BY PartNext
    <1>5. Record(Part(s, b, m, at), b[m]) = Part(s, b, m, at \cup {m}) BY <1>3, PartRecorded
    <1> QED BY ONLY <1>2, <1>3, <1>4, <1>5

\* The loop of settle_success_catching_up is the closed form.
LEMMA SettledLoopIs ==
    ASSUME NEW s \in Sound, NEW b \in Seq(Evm), b # <<>>, NEW c \in Accounts
    PROVE  SettledLoop(s, b, c) = ApplySettled(s, b, c)
    <1> DEFINE n == Len(b)
               w == [i \in 0..n |-> IF i = n THEN ApplySettled(s, b, c) ELSE Part(s, b, i, 1..i)]
               step(h) == [i \in 0..Len(b) |->
                    IF i = 0 THEN s
                    ELSE IF i = Len(b) THEN Record(ApplyLast(h[i - 1], b[i], c), b[i])
                    ELSE Record(ApplyOne(h[i - 1], b[i]), b[i])]
    <1>0. n \in Nat /\ n \in 0..n /\ 0 \in 0..n /\ n # 0 /\ 1..0 = {} BY LenProperties, EmptySeq
    <1>1. ASSUME NEW i \in 0..n PROVE w[i] = step(w)[i]
        <2>1. CASE i = 0
            <3>1. w[0] = Part(s, b, 0, 1..0) BY <1>0
            <3>2. w[0] = Part(s, b, 0, {}) BY ONLY <1>0, <3>1
            <3>3. step(w)[0] = s BY <1>0
            <3> QED BY <2>1, <3>2, <3>3, PartNone
        <2>2. CASE i # 0
            <3>1. i \in 1..Len(b) /\ i - 1 \in 0..n /\ i - 1 # n BY <1>0, <2>2
            <3>2. PICK p, q : p = Part(s, b, i - 1, 1..(i - 1)) /\ q = w[i] OBVIOUS
            <3>3. w[i - 1] = p BY <3>1, <3>2
            <3>4. q = IF i = Len(b) THEN Record(ApplyLast(p, b[i], c), b[i])
                      ELSE Record(ApplyOne(p, b[i]), b[i])
                <4>1. CASE i = Len(b)
                    <5>1. w[i] = ApplySettled(s, b, c) BY <1>0, <4>1
                    <5>2. Record(ApplyLast(Part(s, b, i - 1, 1..(i - 1)), b[i], c), b[i])
                            = ApplySettled(s, b, c)
                        BY <2>2, <4>1, PartSettled
                    <5> QED BY ONLY <3>2, <4>1, <5>1, <5>2
                <4>2. CASE i # Len(b)
                    <5>1. w[i] = Part(s, b, i, 1..i) BY <4>2
                    <5>2. Part(s, b, i, 1..i) = Record(ApplyOne(p, b[i]), b[i])
                        BY <3>1, <3>2, SettledTurn
                    <5> QED BY ONLY <3>2, <4>2, <5>1, <5>2
                <4> QED BY <4>1, <4>2
            <3>5. step(w)[i] = IF i = Len(b) THEN Record(ApplyLast(w[i - 1], b[i], c), b[i])
                               ELSE Record(ApplyOne(w[i - 1], b[i]), b[i])
                <4> HIDE DEF w
                <4> QED BY <2>2
            <3> HIDE DEF w, step
            <3> QED BY <3>2, <3>3, <3>4, <3>5
        <2> QED BY <2>1, <2>2
    <1>2. w = step(w)
        <2>1. w = [i \in 0..n |-> w[i]] /\ step(w) = [i \in 0..n |-> step(w)[i]] OBVIOUS
        <2> HIDE DEF w, step
        <2> QED BY ONLY <1>1, <2>1
    <1>3. ASSUME NEW h, h = step(h) PROVE h[n] = w[n]
        <2>1. h[0] = w[0]
            <3>1. step(h)[0] = s /\ step(w)[0] = s BY <1>0
            <3> HIDE DEF w, step
            <3> QED BY <1>2, <1>3, <3>1
        <2>2. ASSUME NEW i \in 1..n, h[i - 1] = w[i - 1] PROVE h[i] = w[i]
            <3>1. i \in 0..n /\ i # 0 BY <1>0
            <3>2. \A g : step(g)[i] = IF i = Len(b) THEN Record(ApplyLast(g[i - 1], b[i], c), b[i])
                                      ELSE Record(ApplyOne(g[i - 1], b[i]), b[i])
                <4> HIDE DEF w
                <4> QED BY <3>1
            <3> HIDE DEF w, step
            <3>3. PICK x : x = h[i - 1] OBVIOUS
            <3>4. x = w[i - 1] BY <2>2, <3>3
            <3>5. step(h)[i] = step(w)[i] BY ONLY <3>2, <3>3, <3>4
            <3> QED BY <1>2, <1>3, <3>5
        <2> HIDE DEF n, w, step
        <2> QED BY <1>0, <2>1, <2>2, SameLoop
    <1>4. SettledLoop(s, b, c) = (CHOOSE h : h = step(h))[n] BY DEF SettledLoop
    <1>5. w[n] = ApplySettled(s, b, c) BY <1>0
    <1> HIDE DEF w, step
    <1>6. PICK h : h = step(h) /\ h = CHOOSE x : x = step(x) BY <1>2
    <1> QED BY <1>3, <1>4, <1>5, <1>6

-----------------------------------------------------------------------------
\* The pass over the nonces.

\* The marks of account a among the first m, and the nonce they leave.
OwnMarks(accounts, a, m) ==
    {i \in 1..m : accounts[i].tx \in Decodable /\ Sender[accounts[i].tx] = a}

LastMark(accounts, a, m) ==
    CHOOSE i \in OwnMarks(accounts, a, m) : \A j \in OwnMarks(accounts, a, m) : j <= i

NonceAfter(accounts, a, m) ==
    IF OwnMarks(accounts, a, m) = {} THEN 0
    ELSE Nonce[accounts[LastMark(accounts, a, m)].tx]
            + (IF accounts[LastMark(accounts, a, m)].ran THEN 1 ELSE 0)

\* One mark more replaces the nonce if it is the account's.
LEMMA NonceTurn ==
    ASSUME NEW accounts, NEW a, NEW m \in Nat \ {0}
    PROVE  NonceAfter(accounts, a, m) =
                IF accounts[m].tx \in Decodable /\ Sender[accounts[m].tx] = a
                THEN Nonce[accounts[m].tx] + (IF accounts[m].ran THEN 1 ELSE 0)
                ELSE NonceAfter(accounts, a, m - 1)
    <1>1. PICK own : own = OwnMarks(accounts, a, m) OBVIOUS
    <1>2. CASE accounts[m].tx \in Decodable /\ Sender[accounts[m].tx] = a
        <2>1. m \in own /\ \A i \in own : i \in Int /\ i <= m BY <1>1, <1>2 DEF OwnMarks
        <2>2. \A i \in own : (\A j \in own : j <= i) => i = m BY <2>1
        <2>3. (CHOOSE i \in own : \A j \in own : j <= i) = m BY <2>1, <2>2
        <2>4. LastMark(accounts, a, m) = m BY <1>1, <2>3 DEF LastMark
        <2>5. OwnMarks(accounts, a, m) # {} BY <1>1, <2>1
        <2> QED BY <1>2, <2>4, <2>5 DEF NonceAfter
    <1>3. CASE ~ (accounts[m].tx \in Decodable /\ Sender[accounts[m].tx] = a)
        <2>1. own = OwnMarks(accounts, a, m - 1) BY <1>1, <1>3 DEF OwnMarks
        <2> QED BY <1>1, <1>3, <2>1 DEF NonceAfter, LastMark
    <1> QED BY <1>2, <1>3

\* The nonce is the one a pass over the marks leaves.
LEMMA NonceLoopIs ==
    ASSUME NEW accounts \in Accounts, NEW a
    PROVE  AccountNonce(accounts, a) = NonceLoop(accounts, a)
    <1> DEFINE n == Len(accounts)
               w == [i \in 0..n |-> NonceAfter(accounts, a, i)]
               step(h) == [i \in 0..Len(accounts) |->
                    IF i = 0 THEN 0
                    ELSE IF accounts[i].tx \in Decodable /\ Sender[accounts[i].tx] = a
                         THEN Nonce[accounts[i].tx] + (IF accounts[i].ran THEN 1 ELSE 0)
                         ELSE h[i - 1]]
    <1>0. n \in Nat /\ n \in 0..n /\ 0 \in 0..n /\ DOMAIN accounts = 1..n
        BY LenProperties DEF Accounts
    <1>1. ASSUME NEW i \in 0..n PROVE w[i] = step(w)[i]
        <2>1. CASE i = 0
            <3>1. w[0] = NonceAfter(accounts, a, 0) /\ step(w)[0] = 0 BY <1>0
            <3>2. OwnMarks(accounts, a, 0) = {} BY DEF OwnMarks
            <3> QED BY <2>1, <3>1, <3>2 DEF NonceAfter
        <2>2. CASE i # 0
            <3>1. i \in Nat \ {0} /\ i - 1 \in 0..n BY <1>0, <2>2
            <3>2. w[i - 1] = NonceAfter(accounts, a, i - 1) /\ w[i] = NonceAfter(accounts, a, i)
                BY <3>1
            <3>3. step(w)[i] = IF accounts[i].tx \in Decodable /\ Sender[accounts[i].tx] = a
                               THEN Nonce[accounts[i].tx] + (IF accounts[i].ran THEN 1 ELSE 0)
                               ELSE w[i - 1]
                <4> HIDE DEF w
                <4> QED BY <2>2
            <3> HIDE DEF w, step
            <3> QED BY <3>1, <3>2, <3>3, NonceTurn
        <2> QED BY <2>1, <2>2
    <1>2. w = step(w)
        <2>1. w = [i \in 0..n |-> w[i]] /\ step(w) = [i \in 0..n |-> step(w)[i]] OBVIOUS
        <2> HIDE DEF w, step
        <2> QED BY ONLY <1>1, <2>1
    <1>3. ASSUME NEW h, h = step(h) PROVE h[n] = w[n]
        <2>1. h[0] = w[0]
            <3>1. step(h)[0] = 0 /\ step(w)[0] = 0 BY <1>0
            <3> HIDE DEF w, step
            <3> QED BY <1>2, <1>3, <3>1
        <2>2. ASSUME NEW i \in 1..n, h[i - 1] = w[i - 1] PROVE h[i] = w[i]
            <3>1. i \in 0..n /\ i # 0 BY <1>0
            <3>2. \A g : step(g)[i] = IF accounts[i].tx \in Decodable /\ Sender[accounts[i].tx] = a
                                      THEN Nonce[accounts[i].tx] + (IF accounts[i].ran THEN 1 ELSE 0)
                                      ELSE g[i - 1]
                <4> HIDE DEF w
                <4> QED BY <3>1
            <3> HIDE DEF w, step
            <3>3. PICK x : x = h[i - 1] OBVIOUS
            <3>4. x = w[i - 1] BY <2>2, <3>3
            <3>5. step(h)[i] = step(w)[i] BY ONLY <3>2, <3>3, <3>4
            <3> QED BY <1>2, <1>3, <3>5
        <2> HIDE DEF n, w, step
        <2> QED BY <1>0, <2>1, <2>2, SameLoop
    <1>4. NonceLoop(accounts, a) = (CHOOSE h : h = step(h))[n] BY DEF NonceLoop
    <1>5. w[n] = AccountNonce(accounts, a)
        <2>1. w[n] = NonceAfter(accounts, a, n) BY <1>0
        <2>2. OwnMarks(accounts, a, n) = {i \in DOMAIN accounts :
                    accounts[i].tx \in Decodable /\ Sender[accounts[i].tx] = a}
            BY <1>0 DEF OwnMarks
        <2> HIDE DEF w, step, n
        <2> QED BY <2>1, <2>2 DEF NonceAfter, LastMark, AccountNonce
    <1> HIDE DEF w, step
    <1>6. PICK h : h = step(h) /\ h = CHOOSE x : x = step(x) BY <1>2
    <1> QED BY <1>3, <1>4, <1>5, <1>6

-----------------------------------------------------------------------------
\* Proving against the post-state of the blob before.

\* The first blobs of a transaction leave what they leave when they are all it has.
LEMMA PrefixParts ==
    ASSUME NEW s \in EthState, NEW b \in Seq(Evm), NEW m \in 1..Len(b), NEW p, p = SubSeq(b, 1, m)
    PROVE  /\ p \in Seq(Evm) /\ Len(p) = m
           /\ AccountsAfter(s, p, m) = AccountsAfter(s, b, m)
           /\ RootAfter(s, p, m) = RootAfter(s, b, m)
    <1>1. m \in Nat \ {0} /\ Len(b) \in Nat /\ m <= Len(b) BY LenProperties
    <1>2. p \in Seq(Evm) /\ Len(p) = m /\ \A i \in 1..m : p[i] = b[i]
        <2>1. \A i \in 1..m : b[i] \in Evm BY <1>1, ElementOfSeq
        <2>2. /\ SubSeq(b, 1, m) \in Seq(Evm)
              /\ Len(SubSeq(b, 1, m)) = IF 1 <= m THEN m - 1 + 1 ELSE 0
              /\ \A i \in 1..(m - 1 + 1) : SubSeq(b, 1, m)[i] = b[1 + i - 1]
            BY <1>1, <2>1, SubSeqProperties
        <2>3. m - 1 + 1 = m /\ 1 <= m /\ \A i \in 1..m : 1 + i - 1 = i BY <1>1
        <2> QED BY <2>2, <2>3
    <1>3. \A k \in 1..m : AccountsAfter(s, p, k) = AccountsAfter(s, b, k)
        <2> TAKE k \in 1..m
        <2>1. PICK v, w : v = Marks(p) /\ w = Marks(b) OBVIOUS
        <2>2. v \in Seq(Mark) /\ w \in Seq(Mark) /\ Len(v) = m /\ Len(w) = Len(b)
            BY <1>2, <2>1, MarksType
        <2>3. k \in 0..Len(v) /\ k <= Len(w) BY <1>1, <2>2
        <2>4. \A i \in 1..k : v[i] = w[i] BY <1>1, <1>2, <2>1 DEF Marks
        <2>5. SubSeq(v, 1, k) = SubSeq(w, 1, k) BY ONLY <2>2, <2>3, <2>4, SamePrefix
        <2> QED BY <2>1, <2>5 DEF AccountsAfter
    <1>4. \A j \in 1..m : LastRun(p, m, j) <=> LastRun(b, m, j) BY <1>1, <1>2 DEF LastRun
    <1>5. RootAfter(s, p, m) = RootAfter(s, b, m)
        <2>1. CASE \E j \in 1..m : LastRun(b, m, j)
            <3>1. (CHOOSE j \in 1..m : LastRun(p, m, j)) = CHOOSE j \in 1..m : LastRun(b, m, j)
                BY <1>4
            <3>2. (CHOOSE j \in 1..m : LastRun(b, m, j)) \in 1..m BY <2>1
            <3> QED BY <1>3, <1>4, <2>1, <3>1, <3>2 DEF RootAfter
        <2>2. CASE ~ \E j \in 1..m : LastRun(b, m, j) BY <1>4, <2>2 DEF RootAfter
        <2> QED BY <2>1, <2>2
    <1> QED BY <1>1, <1>2, <1>3, <1>5

\* The header pushed last is the latest.
LEMMA LastPushed ==
    ASSUME NEW w \in Seq(Header), NEW h \in Header
    PROVE  Push(w, h)[Len(Push(w, h))] = h
    <1>1. Len(w) \in Nat /\ HeaderCap \in Nat \ {0} BY LenProperties, EthAssumption
    <1>2. CASE Len(w) + 1 > HeaderCap
        <2>1. w # <<>> BY <1>1, <1>2, EmptySeq
        <2>2. PICK t : t = Tail(w) OBVIOUS
        <2>3. t \in Seq(Header) BY <2>1, <2>2, HeadTailProperties
        <2>4. Len(Append(t, h)) = Len(t) + 1 /\ Append(t, h)[Len(t) + 1] = h
            BY ONLY <2>3, h \in Header, AppendProperties
        <2> QED BY <1>2, <2>2, <2>4 DEF Push
    <1>3. CASE ~ (Len(w) + 1 > HeaderCap)
        <2>1. Len(Append(w, h)) = Len(w) + 1 /\ Append(w, h)[Len(w) + 1] = h
            BY AppendProperties
        <2> QED BY <1>3, <2>1 DEF Push
    <1> QED BY <1>2, <1>3

\* What executing some blobs leaves to a proof of the next one.
LEMMA PostState ==
    ASSUME NEW s \in Sound, NEW p \in Seq(Evm), p # <<>>
    PROVE  /\ ApplySpeculative(s, p).accounts = AccountsAfter(s, p, Len(p))
           /\ LatestHeader(ApplySpeculative(s, p)).state_root = RootAfter(s, p, Len(p))
    <1>1. PICK n, at : n = Len(p) /\ at = {i \in DOMAIN p : p[i] \in Executable} OBVIOUS
    <1>2. n \in 1..Len(p) /\ s \in EthState /\ s.block_number \in Nat
        BY <1>1, LenProperties, EmptySeq DEF Sound, EthState
    <1>3. ApplySpeculative(s, p) = Part(s, p, n, at) BY <1>1, PartAll
    <1>4. PICK old : old = Trim(s.header_history \o SubSeq(NewHeaders(s, p), 1, n - 1)) OBVIOUS
    <1>5. PICK h : h = [number |-> s.block_number + n, state_root |-> RootAfter(s, p, n)] OBVIOUS
    <1>6. Part(s, p, n, at).header_history = Push(old, h)
        BY <1>2, <1>4, <1>5, PartAdds DEF Part
    <1>7. h \in Header
        <2>1. n \in 0..Len(p) /\ s.block_number + n \in Nat BY <1>2, LenProperties
        <2>2. RootAfter(s, p, n) \in Accounts BY <1>2, <2>1, RootAfterType
        <2> QED BY <1>5, <2>1, <2>2 DEF Header
    <1>8. old \in Seq(Header)
        <2>1. PICK w, g : w = NewHeaders(s, p) /\ g = s.header_history OBVIOUS
        <2>2. w \in Seq(Header) /\ Len(w) = Len(p) /\ g \in Seq(Header)
            BY <1>2, <2>1, NewHeadersType DEF EthState
        <2>3. n \in 1..Len(w) BY <1>2, <2>2
        <2>4. g \o SubSeq(w, 1, n - 1) \in Seq(Header) BY ONLY <2>2, <2>3, PrefixNext
        <2>5. PICK x : x = g \o SubSeq(w, 1, n - 1) OBVIOUS
        <2>6. x \in Seq(Header) /\ Len(x) \in Nat /\ HeaderCap \in Nat
            BY <2>4, <2>5, LenProperties, EthAssumption
        <2>7. CASE Len(x) >= HeaderCap
            <3>1. Trim(x) \in Seq(Header) BY <2>6, <2>7, TrimIs
            <3> QED BY <1>4, <2>1, <2>5, <3>1
        <2>8. CASE ~ (Len(x) >= HeaderCap)
            <3>1. Trim(x) = x BY <2>6, <2>8 DEF Trim
            <3> QED BY <1>4, <2>1, <2>5, <2>6, <3>1
        <2> QED BY <2>7, <2>8
    <1>9. LatestHeader(Part(s, p, n, at)) = h BY <1>6, <1>7, <1>8, LastPushed DEF LatestHeader, Last
    <1>10. h.state_root = RootAfter(s, p, n) BY <1>5
    <1>11. Part(s, p, n, at).accounts = AccountsAfter(s, p, n) BY DEF Part
    <1> QED BY <1>1, <1>3, <1>9, <1>10, <1>11

-----------------------------------------------------------------------------
\* Every state of the runs.

SoundInv == state \in Sound

\* The states compared are those of a chain.
LEMMA BatchesType == \A b \in Batches : b \in Seq(Evm) /\ b # <<>>
    <1> SUFFICES ASSUME NEW n \in 1..MaxBatch, NEW b \in [1..n -> Evm]
                 PROVE  b \in Seq(Evm) /\ b # <<>>
        BY DEF Batches
    <1>1. n \in Nat \ {0} BY LoopsAssumption
    <1>2. b \in Seq(Evm) BY <1>1, SeqDef
    <1>3. 1 \in DOMAIN b BY <1>1
    <1> QED BY <1>2, <1>3, EmptySeq

LEMMA SoundAlways == Spec => []SoundInv
    <1>1. Init => SoundInv BY GenesisSound DEF Init, SoundInv
    <1>2. SoundInv /\ [Next]_state => SoundInv'
        <2> SUFFICES ASSUME SoundInv, [Next]_state PROVE SoundInv' OBVIOUS
        <2>1. CASE Speculate
            <3>1. PICK b \in Batches : state' = ApplySpeculative(state, b) BY <2>1 DEF Speculate
            <3> QED BY <3>1, BatchesType, ApplySpeculativeSound DEF SoundInv
        <2>2. CASE Settle
            <3>1. PICK b \in Batches, c \in Roots : state' = ApplySettled(state, b, c)
                BY <2>2 DEF Settle
            <3> QED BY <3>1, BatchesType, LoopsAssumption, ApplySettledSound DEF SoundInv
        <2>3. CASE Fallback
            <3>1. PICK c \in Roots : state' = FallbackBlock(state, c) BY <2>3 DEF Fallback
            <3> QED BY <3>1, LoopsAssumption, FallbackBlockSound DEF SoundInv
        <2>4. CASE UNCHANGED state BY <2>4 DEF SoundInv
        <2> QED BY <2>1, <2>2, <2>3, <2>4 DEF Next
    <1> QED BY <1>1, <1>2, PTL DEF Spec

\* On every state, executing the blobs of a transaction at once is handle_sequenced_tx's loop
\* over them, whatever their number, repeated and failing ones included.
THEOREM SpeculationIsItsLoop == Spec => []SpeculativeIsLoop
    <1>1. SoundInv => SpeculativeIsLoop
        BY BatchesType, SpeculativeLoopIs DEF SoundInv, SpeculativeIsLoop
    <1> QED BY <1>1, SoundAlways, PTL

\* And settling them at once is settle_success_catching_up's.
THEOREM SettlementIsItsLoop == Spec => []SettledIsLoop
    <1>1. SoundInv => SettledIsLoop
        BY BatchesType, LoopsAssumption, SettledLoopIs DEF SoundInv, SettledIsLoop
    <1> QED BY <1>1, SoundAlways, PTL

\* The nonce of an account is what a pass over everything executed leaves of it.
THEOREM NonceIsItsLoop == Spec => []NonceIsLoop
    <1>1. SoundInv => NonceIsLoop
        BY NonceLoopIs DEF SoundInv, NonceIsLoop, Sound, EthState
    <1> QED BY <1>1, SoundAlways, PTL

\* The i-th blob is proved against the accounts and chained from the header that executing
\* the blobs before it leaves (reth_module.rs:227).
THEOREM ProofsUsePostState == Spec => []ProvedAgainstPostState
    <1>1. SoundInv => ProvedAgainstPostState
        <2> SUFFICES ASSUME SoundInv, NEW b \in Batches, NEW i \in 2..Len(b)
                     PROVE  LET after == SpeculativeLoop(state, SubSeq(b, 1, i - 1))
                            IN  /\ BuildsProof(state, b, i) <=> Provable(after.accounts, b[i])
                                /\ ParentRoot(state, b, i) = LatestHeader(after).state_root
            BY DEF ProvedAgainstPostState
        <2>1. state \in Sound /\ state \in EthState /\ b \in Seq(Evm) /\ Len(b) \in Nat
            BY BatchesType, LenProperties DEF SoundInv, Sound
        <2>2. PICK m, p : m = i - 1 /\ p = SubSeq(b, 1, m) OBVIOUS
        <2>3. m \in 1..Len(b) /\ m # 0 /\ i # 1 BY <2>1, <2>2
        <2>4. /\ p \in Seq(Evm) /\ Len(p) = m
              /\ AccountsAfter(state, p, m) = AccountsAfter(state, b, m)
              /\ RootAfter(state, p, m) = RootAfter(state, b, m)
            BY <2>1, <2>2, <2>3, PrefixParts
        <2>5. p # <<>> BY <2>3, <2>4, EmptySeq
        <2>6. SpeculativeLoop(state, p) = ApplySpeculative(state, p)
            BY <2>1, <2>4, SpeculativeLoopIs
        <2>7. /\ ApplySpeculative(state, p).accounts = AccountsAfter(state, b, m)
              /\ LatestHeader(ApplySpeculative(state, p)).state_root = RootAfter(state, b, m)
            BY <2>1, <2>4, <2>5, PostState
        <2>8. ParentRoot(state, b, i) = RootAfter(state, b, m) BY <2>2, <2>3 DEF ParentRoot
        <2>9. BuildsProof(state, b, i) <=> Provable(AccountsAfter(state, b, m), b[i])
            BY <2>2 DEF BuildsProof
        <2> QED BY <2>2, <2>6, <2>7, <2>8, <2>9
    <1> QED BY <1>1, SoundAlways, PTL

=============================================================================
