----------------------- MODULE OrderedHashTable_proofs -----------------------
(* The ordered hash table, for any keys, hash codes, iterators and fill     *)
(* factor of at least one.                                                  *)
EXTENDS OrderedHashTable, FiniteSetTheorems, SequenceTheorems, TLAPS

-----------------------------------------------------------------------------
(* Sets of indices and their order.                                        *)

\* The sets of indices of a sequence of length n.
IndexSets(n) == SUBSET (1..n)

LEMMA IndexIs ==
  ASSUME NEW n \in Nat, NEW S \in IndexSets(n), NEW i \in S
  PROVE  i \in Nat /\ i \in 1..n /\ 1 <= i /\ i <= n /\ i < n + 1
BY DEF IndexSets

\* How many indices come before another.
LEMMA BeforeType ==
  ASSUME NEW n \in Nat, NEW S \in IndexSets(n)
  PROVE  /\ IsFiniteSet(S) /\ Cardinality(S) \in Nat /\ Cardinality(S) <= n
         /\ \A i : Before(S, i) \in Nat /\ Before(S, i) <= Cardinality(S)
<1>1. IsFiniteSet(1..n) /\ Cardinality(1..n) = n
  BY FS_Interval
<1>2. IsFiniteSet(S) /\ Cardinality(S) <= n /\ Cardinality(S) \in Nat
  BY <1>1, FS_Subset, FS_CardinalityType DEF IndexSets
<1>3. ASSUME NEW i PROVE Before(S, i) \in Nat /\ Before(S, i) <= Cardinality(S)
  <2>1. {j \in S : j < i} \in SUBSET S
    OBVIOUS
  <2> QED
    BY <1>2, <2>1, FS_Subset, FS_CardinalityType DEF Before
<1> QED
  BY <1>2, <1>3

\* An index of the set counts for all that come after it.
LEMMA BeforeGrows ==
  ASSUME NEW n \in Nat, NEW S \in IndexSets(n), NEW i \in S, NEW j \in Nat, i < j
  PROVE  Before(S, i) < Before(S, j)
<1> DEFINE I == {l \in S : l < i}
           J == {l \in S : l < j}
<1>1. I \subseteq J /\ i \in J /\ i \notin I /\ J \subseteq S
  <2>1. \A l \in S : l \in Nat
    BY IndexIs
  <2> QED
    BY <2>1
<1>2. IsFiniteSet(J)
  BY <1>1, BeforeType, FS_Subset
<1>3. /\ Cardinality(I) <= Cardinality(J)
      /\ Cardinality(I) = Cardinality(J) => I = J
      /\ Cardinality(I) \in Nat /\ Cardinality(J) \in Nat
  BY <1>1, <1>2, FS_Subset, FS_CardinalityType
<1>4. Before(S, i) = Cardinality(I) /\ Before(S, j) = Cardinality(J)
  BY DEF Before
<1> HIDE DEF I, J
<1> QED
  BY <1>1, <1>3, <1>4

\* The next index counts one more than this one if this one is in the set.
LEMMA BeforeNext ==
  ASSUME NEW n \in Nat, NEW S \in IndexSets(n), NEW j \in Nat
  PROVE  Before(S, j + 1) = IF j \in S THEN Before(S, j) + 1 ELSE Before(S, j)
<1> DEFINE J == {l \in S : l < j}
           K == {l \in S : l < j + 1}
<1>1. Before(S, j) = Cardinality(J) /\ Before(S, j + 1) = Cardinality(K)
  BY DEF Before
<1>2. CASE j \in S
  <2>1. \A l \in S : l < j + 1 <=> l < j \/ l = j
    BY IndexIs
  <2>2. K = J \cup {j} /\ j \notin J
    <3>1. \A l \in S : l \in K <=> l \in J \cup {j}
      BY <2>1
    <3>2. K \subseteq S /\ J \cup {j} \subseteq S
      BY <1>2
    <3>3. j \notin J
      OBVIOUS
    <3> HIDE DEF J, K
    <3> QED
      BY <3>1, <3>2, <3>3
  <2>3. IsFiniteSet(J)
    BY BeforeType, FS_Subset
  <2> HIDE DEF J, K
  <2>4. Cardinality(K) = Cardinality(J) + 1
    BY <2>2, <2>3, FS_AddElement
  <2> QED
    BY <1>1, <1>2, <2>4
<1>3. CASE j \notin S
  <2>1. K = J
    BY <1>3, IndexIs
  <2> HIDE DEF J, K
  <2> QED
    BY <1>1, <1>3, <2>1
<1> QED
  BY <1>2, <1>3

\* Indices that are not in the set do not count.
LEMMA BeforeSame ==
  ASSUME NEW n \in Nat, NEW S \in IndexSets(n), NEW i \in Nat, NEW j \in Nat, i <= j,
         \A l \in S : ~(i <= l /\ l < j)
  PROVE  Before(S, j) = Before(S, i)
<1>1. {l \in S : l < j} = {l \in S : l < i}
  BY IndexIs
<1> QED
  BY <1>1 DEF Before

\* All of the set comes before what is beyond it, nothing before 1.
LEMMA BeforeEnds ==
  ASSUME NEW n \in Nat, NEW S \in IndexSets(n)
  PROVE  Before(S, n + 1) = Cardinality(S) /\ Before(S, 1) = 0
<1>1. {l \in S : l < n + 1} = S /\ {l \in S : l < 1} = {}
  BY IndexIs
<1> QED
  BY <1>1, FS_EmptySet DEF Before

\* Each index has a rank of its own, and each rank an index.
LEMMA Ranks ==
  ASSUME NEW n \in Nat, NEW S \in IndexSets(n)
  PROVE  /\ \A i \in S : Before(S, i) + 1 \in 1..Cardinality(S)
         /\ \A i, j \in S : Before(S, i) = Before(S, j) => i = j
         /\ \A p \in 1..Cardinality(S) : \E i \in S : Before(S, i) = p - 1
<1> DEFINE size == Cardinality(S)
           rank == [i \in S |-> Before(S, i) + 1]
<1>1. IsFiniteSet(S) /\ size \in Nat
  BY BeforeType
<1>2. \A i \in S : i \in Nat /\ Before(S, i) \in Nat /\ Before(S, i) < size
  <2> TAKE i \in S
  <2>1. i \in Nat /\ i < n + 1 /\ n + 1 \in Nat
    BY IndexIs
  <2>2. Before(S, i) < Before(S, n + 1)
    BY <2>1, BeforeGrows
  <2> QED
    BY <2>1, <2>2, BeforeEnds, BeforeType
<1>3. \A i, j \in S : Before(S, i) = Before(S, j) => i = j
  <2> TAKE i, j \in S
  <2> HAVE Before(S, i) = Before(S, j)
  <2>1. ~(i < j) /\ ~(j < i)
    BY <1>2, BeforeGrows
  <2> QED
    BY <1>2, <2>1
<1> HIDE DEF size
<1>4. rank \in [S -> 1..size]
  BY <1>1, <1>2
<1>5. \A i, j \in S : rank[i] = rank[j] => i = j
  BY <1>2, <1>3
<1>6. \A i \in S : rank[i] = Before(S, i) + 1
  OBVIOUS
<1> HIDE DEF rank
<1>7. rank \in Surjection(S, 1..size)
  <2>1. rank \in Injection(S, 1..size)
    BY <1>4, <1>5 DEF Injection, IsInjective
  <2>2. IsFiniteSet(1..size) /\ Cardinality(1..size) = Cardinality(S)
    BY <1>1, FS_Interval DEF size
  <2> QED
    BY <2>1, <2>2, FS_Injection
<1>8. \A p \in 1..size : \E i \in S : Before(S, i) = p - 1
  <2> TAKE p \in 1..size
  <2>1. PICK i \in S : rank[i] = p
    BY <1>7 DEF Surjection
  <2> QED
    BY <1>2, <1>6, <2>1
<1>9. \A i \in S : Before(S, i) + 1 \in 1..size
  BY <1>4, <1>6
<1> QED
  BY <1>3, <1>8, <1>9 DEF size

\* A set of indices has a least element.
LEMMA MinIs ==
  ASSUME NEW n \in Nat, NEW S \in IndexSets(n), S # {}
  PROVE  Min(S) \in S /\ \A y \in S : Min(S) <= y
<1>1. 1 \in 1..Cardinality(S)
  BY BeforeType, FS_EmptySet
<1>2. PICK x \in S : Before(S, x) = 0
  BY <1>1, Ranks
<1>3. IsFiniteSet({j \in S : j < x})
  BY BeforeType, FS_Subset
<1>4. {j \in S : j < x} = {}
  BY <1>2, <1>3, FS_EmptySet DEF Before
<1>5. \A y \in S : x <= y
  BY <1>4, IndexIs
<1> QED
  BY <1>5 DEF Min

\* InOrder(S) lists the set in ascending order.
LEMMA InOrderIs ==
  ASSUME NEW n \in Nat, NEW S \in IndexSets(n)
  PROVE  /\ InOrder(S) \in Seq(S) /\ Len(InOrder(S)) = Cardinality(S)
         /\ DOMAIN InOrder(S) = 1..Cardinality(S)
         /\ \A p \in 1..Cardinality(S) : InOrder(S)[p] \in S /\ Before(S, InOrder(S)[p]) = p - 1
         /\ \A i \in S : InOrder(S)[Before(S, i) + 1] = i
         /\ \A p, q \in 1..Cardinality(S) : p < q => InOrder(S)[p] < InOrder(S)[q]
         /\ ToSet(InOrder(S)) = S
<1> DEFINE size == Cardinality(S)
           at(p) == CHOOSE i \in S : Before(S, i) = p - 1
           s == InOrder(S)
<1>1. size \in Nat
  BY BeforeType
<1>2. \A p \in 1..size : at(p) \in S /\ Before(S, at(p)) = p - 1
  <2> TAKE p \in 1..size
  <2>1. \E i \in S : Before(S, i) = p - 1
    BY Ranks
  <2> QED
    BY <2>1
<1>3. s = [p \in 1..size |-> at(p)]
  BY DEF InOrder
<1> HIDE DEF at, size, s
<1>4. DOMAIN s = 1..size /\ \A p \in 1..size : s[p] \in S /\ Before(S, s[p]) = p - 1
  BY <1>2, <1>3
<1>5. s \in Seq(S) /\ Len(s) = size
  <2>1. s \in [1..size -> S]
    BY <1>2, <1>3
  <2> QED
    BY <1>1, <2>1, SeqDef
<1>6. \A i \in S : s[Before(S, i) + 1] = i
  <2> TAKE i \in S
  <2>1. Before(S, i) + 1 \in 1..size /\ Before(S, i) \in Nat
    BY Ranks, BeforeType DEF size
  <2>2. Before(S, s[Before(S, i) + 1]) = Before(S, i) + 1 - 1 /\ s[Before(S, i) + 1] \in S
    BY <1>4, <2>1
  <2>3. Before(S, i) + 1 - 1 = Before(S, i)
    BY <2>1
  <2> QED
    BY <2>2, <2>3, Ranks
<1>7. \A p, q \in 1..size : p < q => s[p] < s[q]
  <2> TAKE p, q \in 1..size
  <2> HAVE p < q
  <2>1. /\ s[p] \in S /\ s[q] \in S /\ s[p] \in Nat /\ s[q] \in Nat
        /\ Before(S, s[p]) = p - 1 /\ Before(S, s[q]) = q - 1
    BY <1>4, IndexIs
  <2>2. ~(s[q] < s[p])
    <3> SUFFICES ASSUME s[q] < s[p] PROVE FALSE
      OBVIOUS
    <3>1. Before(S, s[q]) < Before(S, s[p])
      BY <2>1, BeforeGrows
    <3> QED
      BY <2>1, <3>1
  <2>3. s[q] # s[p]
    BY <2>1
  <2> QED
    BY <2>1, <2>2, <2>3
<1>8. ToSet(s) = S
  <2>1. \A i \in S : \E p \in DOMAIN s : s[p] = i
    BY <1>4, <1>6, Ranks DEF size
  <2> QED
    BY <1>4, <2>1 DEF ToSet
<1> QED
  BY <1>4, <1>5, <1>6, <1>7, <1>8 DEF size, s

-----------------------------------------------------------------------------
(* The nonempty entries of a vector.                                       *)

LEMMA LiveEntriesAre ==
  ASSUME NEW T, NEW d \in Seq(T)
  PROVE  /\ Len(d) \in Nat /\ DOMAIN d = 1..Len(d)
         /\ LiveEntries(d) \in IndexSets(Len(d))
         /\ \A i : i \in LiveEntries(d) <=> i \in 1..Len(d) /\ d[i] # NoKey
BY DEF LiveEntries, IndexSets, IsLive

\* Live(d) has the nonempty entries in their order.
LEMMA LiveIs ==
  ASSUME NEW T, NEW d \in Seq(T)
  PROVE  /\ Live(d) \in Seq(T) /\ Len(Live(d)) = Cardinality(LiveEntries(d))
         /\ DOMAIN Live(d) = 1..Cardinality(LiveEntries(d))
         /\ Cardinality(LiveEntries(d)) \in Nat /\ Cardinality(LiveEntries(d)) <= Len(d)
         /\ \A i \in LiveEntries(d) :
              /\ Before(LiveEntries(d), i) + 1 \in 1..Cardinality(LiveEntries(d))
              /\ Live(d)[Before(LiveEntries(d), i) + 1] = d[i]
         /\ \A p \in 1..Cardinality(LiveEntries(d)) :
              \E i \in LiveEntries(d) : Before(LiveEntries(d), i) = p - 1 /\ Live(d)[p] = d[i]
         /\ \A p \in 1..Cardinality(LiveEntries(d)) : Live(d)[p] \in T /\ Live(d)[p] # NoKey
<1> DEFINE L == LiveEntries(d)
           n == Cardinality(L)
           at == InOrder(L)
<1>1. /\ L \in IndexSets(Len(d)) /\ Len(d) \in Nat
      /\ \A i \in L : d[i] \in T /\ d[i] # NoKey
  BY LiveEntriesAre, ElementOfSeq
<1> HIDE DEF L
<1>2. /\ n \in Nat /\ n <= Len(d) /\ DOMAIN at = 1..n
      /\ \A p \in 1..n : at[p] \in L /\ Before(L, at[p]) = p - 1
      /\ \A i \in L : at[Before(L, i) + 1] = i /\ Before(L, i) + 1 \in 1..n
  BY <1>1, BeforeType, InOrderIs, Ranks
<1> HIDE DEF n, at
<1>3. Live(d) = [p \in 1..n |-> d[at[p]]]
  BY <1>2 DEF Live, at, L
<1>4. \A p \in 1..n : d[at[p]] \in T /\ d[at[p]] # NoKey
  BY <1>1, <1>2
<1>5. Live(d) \in [1..n -> T] /\ DOMAIN Live(d) = 1..n
  BY <1>3, <1>4
<1>6. Live(d) \in Seq(T) /\ Len(Live(d)) = n
  BY <1>2, <1>5, SeqDef
<1>7. \A p \in 1..n : Live(d)[p] = d[at[p]]
  BY <1>3
<1> QED
  BY <1>2, <1>4, <1>5, <1>6, <1>7 DEF n, L

\* A key is among the nonempty entries or not.
LEMMA ContainsLive ==
  ASSUME NEW T, NEW d \in Seq(T), NEW k, k # NoKey
  PROVE  Contains(Live(d), k) <=> \E i \in DOMAIN d : d[i] = k
<1>1. ASSUME NEW i \in DOMAIN d, d[i] = k PROVE Contains(Live(d), k)
  <2>1. i \in LiveEntries(d)
    BY <1>1, LiveEntriesAre
  <2> QED
    BY <1>1, <2>1, LiveIs DEF Contains
<1>2. ASSUME Contains(Live(d), k) PROVE \E i \in DOMAIN d : d[i] = k
  <2>1. PICK p \in 1..Len(Live(d)) : Live(d)[p] = k
    BY <1>2 DEF Contains
  <2>2. PICK i \in LiveEntries(d) : Live(d)[p] = d[i]
    BY <2>1, LiveIs
  <2> QED
    BY <2>1, <2>2, LiveEntriesAre
<1> QED
  BY <1>1, <1>2

\* A sequence without empty entries is its own Live().
LEMMA LiveOfLive ==
  ASSUME NEW T, NEW d \in Seq(T), \A i \in DOMAIN d : d[i] # NoKey
  PROVE  /\ LiveEntries(d) = 1..Len(d) /\ Cardinality(LiveEntries(d)) = Len(d)
         /\ \A i \in 1..(Len(d) + 1) : Before(LiveEntries(d), i) = i - 1
         /\ Live(d) = d
<1> DEFINE n == Len(d)
<1>1. n \in Nat /\ LiveEntries(d) = 1..n
  BY LiveEntriesAre
<1>2. Cardinality(1..n) = n
  BY <1>1, FS_Interval
<1>3. \A i \in 1..(n + 1) : Before(1..n, i) = i - 1
  <2> TAKE i \in 1..(n + 1)
  <2>1. {j \in 1..n : j < i} = 1..(i - 1)
    BY <1>1
  <2>2. Cardinality(1..(i - 1)) = i - 1
    BY <1>1, FS_Interval
  <2> QED
    BY <2>1, <2>2 DEF Before
<1>4. Live(d) = d
  <2>1. Live(d) \in Seq(T) /\ Len(Live(d)) = n
    BY <1>1, <1>2, LiveIs
  <2>2. \A i \in 1..n : Live(d)[i] = d[i]
    <3> TAKE i \in 1..n
    <3>1. Live(d)[Before(1..n, i) + 1] = d[i]
      BY <1>1, LiveIs
    <3>2. Before(1..n, i) + 1 = i
      BY <1>1, <1>3
    <3> QED
      BY <3>1, <3>2
  <2> QED
    BY <2>1, <2>2, SeqEqual
<1> QED
  BY <1>1, <1>2, <1>3, <1>4

\* What is appended is the last of the nonempty entries.
LEMMA LiveOfAppend ==
  ASSUME NEW T, NEW d \in Seq(T), NEW k \in T, k # NoKey
  PROVE  /\ LiveEntries(Append(d, k)) = LiveEntries(d) \cup {Len(d) + 1}
         /\ Cardinality(LiveEntries(Append(d, k))) = Cardinality(LiveEntries(d)) + 1
         /\ \A i \in 1..(Len(d) + 1) :
              Before(LiveEntries(Append(d, k)), i) = Before(LiveEntries(d), i)
         /\ Live(Append(d, k)) = Append(Live(d), k)
<1> DEFINE n == Len(d)
           L == LiveEntries(d)
           e == Append(d, k)
           M == LiveEntries(e)
<1>1. /\ n \in Nat /\ L \in IndexSets(n) /\ DOMAIN d = 1..n
      /\ \A i : i \in L <=> i \in 1..n /\ d[i] # NoKey
  BY LiveEntriesAre
<1>2. /\ e \in Seq(T) /\ Len(e) = n + 1 /\ e[n + 1] = k
      /\ \A i \in 1..n : e[i] = d[i]
  BY AppendProperties
<1>3. \A i : i \in M <=> i \in 1..(n + 1) /\ e[i] # NoKey
  BY <1>2, LiveEntriesAre
<1> HIDE DEF n, L, e, M
<1>4. M = L \cup {n + 1} /\ n + 1 \notin L
  BY <1>1, <1>2, <1>3
<1>5. Cardinality(M) = Cardinality(L) + 1
  <2>1. IsFiniteSet(L)
    BY <1>1, BeforeType
  <2> QED
    BY <1>4, <2>1, FS_AddElement
<1>6. \A i \in 1..(n + 1) : Before(M, i) = Before(L, i)
  <2> TAKE i \in 1..(n + 1)
  <2>1. {j \in M : j < i} = {j \in L : j < i}
    BY <1>1, <1>4
  <2> QED
    BY <2>1 DEF Before
<1>7. Live(e) = Append(Live(d), k)
  <2> DEFINE c == Cardinality(L)
  <2>1. Live(d) \in Seq(T) /\ Len(Live(d)) = c /\ c \in Nat
    BY LiveIs DEF L
  <2>2. /\ Append(Live(d), k) \in Seq(T) /\ Len(Append(Live(d), k)) = c + 1
        /\ Append(Live(d), k)[c + 1] = k
        /\ \A p \in 1..c : Append(Live(d), k)[p] = Live(d)[p]
    BY <2>1, AppendProperties
  <2>3. Live(e) \in Seq(T) /\ Len(Live(e)) = c + 1
    BY <1>2, <1>5, LiveIs DEF M
  <2>4. ASSUME NEW p \in 1..c PROVE Live(e)[p] = Live(d)[p]
    <3>1. PICK i \in L : Before(L, i) = p - 1 /\ Live(d)[p] = d[i]
      BY LiveIs DEF L
    <3>2. i \in M /\ i \in 1..n /\ i \in 1..(n + 1)
      BY <1>1, <1>4
    <3>3. Live(e)[Before(M, i) + 1] = e[i]
      BY <1>2, <3>2, LiveIs DEF M
    <3>4. Before(M, i) + 1 = p
      BY <1>6, <2>1, <3>1, <3>2
    <3> QED
      BY <1>2, <3>1, <3>2, <3>3, <3>4
  <2>5. Live(e)[c + 1] = k
    <3>1. n + 1 \in M /\ n + 1 \in 1..(n + 1)
      BY <1>1, <1>4
    <3>2. Live(e)[Before(M, n + 1) + 1] = e[n + 1]
      BY <1>2, <3>1, LiveIs DEF M
    <3>3. Before(L, n + 1) = c
      BY <1>1, BeforeEnds
    <3> QED
      BY <1>2, <1>6, <3>1, <3>2, <3>3
  <2> HIDE DEF c
  <2>6. \A p \in 1..(c + 1) : Live(e)[p] = Append(Live(d), k)[p]
    BY <2>1, <2>2, <2>4, <2>5
  <2> QED
    BY <2>2, <2>3, <2>6, SeqEqual
<1> QED
  BY <1>4, <1>5, <1>6, <1>7 DEF n, L, e, M

LEMMA RemoveAtIs ==
  ASSUME NEW T, NEW s \in Seq(T), NEW p \in 1..Len(s)
  PROVE  /\ RemoveAt(s, p) \in Seq(T) /\ Len(RemoveAt(s, p)) = Len(s) - 1
         /\ \A q \in 1..(Len(s) - 1) : RemoveAt(s, p)[q] = IF q < p THEN s[q] ELSE s[q + 1]
<1> DEFINE n == Len(s)
           a == SubSeq(s, 1, p - 1)
           b == SubSeq(s, p + 1, n)
<1>1. n \in Nat /\ p \in Nat /\ 1 <= p /\ p <= n /\ \A i \in 1..n : s[i] \in T
  BY ElementOfSeq
<1>2. /\ a \in Seq(T) /\ Len(a) = p - 1
      /\ \A i \in 1..(p - 1) : a[i] = s[i]
  <2>1. \A i \in 1..(p - 1) : s[i] \in T
    BY <1>1
  <2> QED
    BY <1>1, <2>1, SubSeqProperties
<1>3. /\ b \in Seq(T) /\ Len(b) = n - p
      /\ \A i \in 1..(n - p) : b[i] = s[p + i]
  <2>1. \A i \in (p + 1)..n : s[i] \in T
    BY <1>1
  <2>2. /\ b \in Seq(T) /\ Len(b) = IF p + 1 <= n THEN n - (p + 1) + 1 ELSE 0
        /\ \A i \in 1..(n - (p + 1) + 1) : b[i] = s[p + 1 + i - 1]
    BY <1>1, <2>1, SubSeqProperties
  <2> QED
    BY <1>1, <2>2
<1>4. RemoveAt(s, p) = a \o b
  BY DEF RemoveAt
<1> HIDE DEF n, a, b
<1>5. /\ a \o b \in Seq(T) /\ Len(a \o b) = Len(a) + Len(b)
      /\ \A i \in 1..(Len(a) + Len(b)) : (a \o b)[i] = IF i <= Len(a) THEN a[i] ELSE b[i - Len(a)]
  BY <1>2, <1>3, ConcatProperties
<1>6. ASSUME NEW q \in 1..(n - 1)
      PROVE  (a \o b)[q] = IF q < p THEN s[q] ELSE s[q + 1]
  <2>1. CASE q < p
    BY <1>1, <1>2, <1>3, <1>5, <2>1
  <2>2. CASE ~(q < p)
    <3>1. (a \o b)[q] = b[q - (p - 1)] /\ q - (p - 1) \in 1..(n - p) /\ p + (q - (p - 1)) = q + 1
      BY <1>1, <1>2, <1>3, <1>5, <2>2
    <3> QED
      BY <1>3, <2>2, <3>1
  <2> QED
    BY <2>1, <2>2
<1> QED
  BY <1>1, <1>2, <1>3, <1>4, <1>5, <1>6 DEF n

\* An entry that is emptied is taken out of the nonempty ones.
LEMMA LiveWithout ==
  ASSUME NEW T, NEW d \in Seq(T), NEW e \in Seq(T), NEW j \in LiveEntries(d),
         Len(e) = Len(d), \A i \in 1..Len(d) : e[i] = IF i = j THEN NoKey ELSE d[i]
  PROVE  /\ LiveEntries(e) = LiveEntries(d) \ {j}
         /\ Cardinality(LiveEntries(e)) = Cardinality(LiveEntries(d)) - 1
         /\ \A i \in 1..(Len(d) + 1) : Before(LiveEntries(e), i) =
              IF j < i THEN Before(LiveEntries(d), i) - 1 ELSE Before(LiveEntries(d), i)
         /\ Live(e) = RemoveAt(Live(d), Before(LiveEntries(d), j) + 1)
<1> DEFINE n == Len(d)
           L == LiveEntries(d)
           M == LiveEntries(e)
           c == Cardinality(L)
<1>1. /\ n \in Nat /\ L \in IndexSets(n) /\ DOMAIN d = 1..n
      /\ \A i : i \in L <=> i \in 1..n /\ d[i] # NoKey
  BY LiveEntriesAre
<1>2. j \in 1..n
  BY <1>1
<1>3. e \in Seq(T) /\ Len(e) = n /\ \A i \in 1..n : e[i] = IF i = j THEN NoKey ELSE d[i]
  OBVIOUS
<1>4. M \in IndexSets(n) /\ \A i : i \in M <=> i \in 1..n /\ e[i] # NoKey
  BY <1>3, LiveEntriesAre
<1> HIDE DEF n, L, M
<1>5. M = L \ {j} /\ j \in L
  <2>1. \A i : i \in M <=> i \in L \ {j}
    BY <1>1, <1>2, <1>3, <1>4
  <2> QED
    BY <2>1 DEF L
<1>6. IsFiniteSet(L) /\ Cardinality(M) = c - 1 /\ c \in Nat
  BY <1>1, <1>5, BeforeType, FS_RemoveElement
<1>7. \A i \in 1..(n + 1) : Before(M, i) = IF j < i THEN Before(L, i) - 1 ELSE Before(L, i)
  <2> TAKE i \in 1..(n + 1)
  <2> DEFINE I == {l \in L : l < i}
             K == {l \in M : l < i}
  <2>1. Before(L, i) = Cardinality(I) /\ Before(M, i) = Cardinality(K)
    BY DEF Before
  <2>2. K = I \ {j} /\ (j \in I <=> j < i)
    BY <1>5
  <2>3. IsFiniteSet(I)
    BY <1>6, FS_Subset
  <2> HIDE DEF I, K
  <2> QED
    BY <2>1, <2>2, <2>3, FS_RemoveElement
<1>8. Live(e) = RemoveAt(Live(d), Before(L, j) + 1)
  <2> DEFINE s == RemoveAt(Live(d), Before(L, j) + 1)
             r == Before(L, j)
  <2>1. r \in Nat /\ r + 1 \in 1..c
    BY <1>1, <1>5, BeforeType, Ranks
  <2>2. Live(d) \in Seq(T) /\ Len(Live(d)) = c
    BY LiveIs DEF L
  <2>3. Live(e) \in Seq(T) /\ Len(Live(e)) = c - 1
    BY <1>3, <1>6, LiveIs DEF M
  <2> HIDE DEF r, c
  <2>4. /\ s \in Seq(T) /\ Len(s) = c - 1
        /\ \A q \in 1..(c - 1) : s[q] = IF q < r + 1 THEN Live(d)[q] ELSE Live(d)[q + 1]
    BY <2>1, <2>2, RemoveAtIs DEF r
  <2>5. ASSUME NEW q \in 1..(c - 1) PROVE Live(e)[q] = s[q]
    <3>1. PICK i \in M : Before(M, i) = q - 1 /\ Live(e)[q] = e[i]
      <4>1. q \in 1..Cardinality(M)
        BY <1>6 DEF c
      <4> QED
        BY <4>1, LiveIs DEF M
    <3>2. i \in L /\ i # j /\ i \in 1..n /\ i \in 1..(n + 1) /\ i \in Nat /\ j \in Nat
      BY <1>1, <1>2, <1>5
    <3>3. e[i] = d[i] /\ Live(d)[Before(L, i) + 1] = d[i] /\ Before(L, i) \in Nat
      BY <1>1, <1>3, <3>2, LiveIs, BeforeType DEF L
    <3>4. Before(M, i) = IF j < i THEN Before(L, i) - 1 ELSE Before(L, i)
      BY <1>7, <3>2
    <3>5. CASE j < i
      <4>1. r < Before(L, i)
        BY <1>1, <1>5, <3>2, <3>5, BeforeGrows DEF r
      <4>2. Before(L, i) + 1 = q + 1 /\ ~(q < r + 1)
        BY <2>1, <3>1, <3>3, <3>4, <3>5, <4>1
      <4> QED
        BY <2>4, <3>1, <3>3, <4>2
    <3>6. CASE i < j
      <4>1. Before(L, i) < r
        BY <1>1, <1>5, <3>2, <3>6, BeforeGrows DEF r
      <4>2. Before(L, i) + 1 = q /\ q < r + 1
        BY <2>1, <3>1, <3>2, <3>3, <3>4, <3>6, <4>1
      <4> QED
        BY <2>4, <3>1, <3>3, <4>2
    <3> QED
      BY <3>2, <3>5, <3>6
  <2> HIDE DEF s
  <2>6. Live(e) = s
    BY <2>3, <2>4, <2>5, SeqEqual
  <2> QED
    BY <2>6 DEF s
<1> QED
  BY <1>5, <1>6, <1>7, <1>8 DEF n, L, M, c

LEMMA EmptiedIs ==
  ASSUME NEW T, NEW d \in Seq(T), NoKey \in T, NEW j \in 1..Len(d)
  PROVE  /\ [d EXCEPT ![j] = NoKey] \in Seq(T) /\ Len([d EXCEPT ![j] = NoKey]) = Len(d)
         /\ \A i \in 1..Len(d) : [d EXCEPT ![j] = NoKey][i] = IF i = j THEN NoKey ELSE d[i]
BY ExceptSeq

\* seek() goes to the first nonempty entry from i on, or to the end.
LEMMA SeekIs ==
  ASSUME NEW T, NEW d \in Seq(T), NEW i \in 1..(Len(d) + 1)
  PROVE  /\ Seek(d, i) \in 1..(Len(d) + 1) /\ i <= Seek(d, i)
         /\ Seek(d, i) \in 1..Len(d) => Seek(d, i) \in LiveEntries(d)
         /\ Before(LiveEntries(d), Seek(d, i)) = Before(LiveEntries(d), i)
<1> DEFINE n == Len(d)
           L == LiveEntries(d)
           S == {l \in i..n : IsLive(d[l])} \cup {n + 1}
           m == Min(S)
<1>1. /\ n \in Nat /\ i \in Nat /\ 1 <= i /\ i <= n + 1
      /\ L \in IndexSets(n) /\ \A l : l \in L <=> l \in 1..n /\ d[l] # NoKey
  BY LiveEntriesAre
<1>2. Max({i, n + 1}) = n + 1
  BY <1>1 DEF Max
<1>3. Seek(d, i) = m
  BY <1>2 DEF Seek
<1> HIDE DEF n, L
<1>4. S \in IndexSets(n + 1) /\ S # {} /\ n + 1 \in Nat
  BY <1>1 DEF IndexSets
<1>5. m \in S /\ \A l \in S : m <= l
  BY <1>4, MinIs
<1>6. m \in Nat /\ i <= m /\ m \in 1..(n + 1) /\ (m \in 1..n => m \in L)
  BY <1>1, <1>5 DEF IsLive
<1>7. \A l \in L : ~(i <= l /\ l < m)
  <2> SUFFICES ASSUME NEW l \in L, i <= l, l < m PROVE FALSE
    OBVIOUS
  <2>1. l \in S /\ l \in Nat
    BY <1>1 DEF IsLive
  <2> QED
    BY <1>5, <1>6, <2>1
<1> HIDE DEF m
<1>8. Before(L, m) = Before(L, i)
  BY <1>1, <1>6, <1>7, BeforeSame
<1> QED
  BY <1>3, <1>6, <1>8 DEF n, L

-----------------------------------------------------------------------------
(* The hash chains.                                                        *)

\* The buckets are numbered from 0.
LEMMA BucketIs ==
  ASSUME NEW h \in Hashes, NEW n \in Nat \ {0}
  PROVE  Bucket(h, n) \in 0..(n - 1)
<1> DEFINE R == HashRange
           p == h * n
           q == p \div R
<1>1. R \in Nat /\ R >= 1 /\ h \in Nat /\ h + 1 <= R
  BY TableAssumption
<1>2. p \in Nat /\ (h + 1) * n = p + n /\ (h + 1) * n <= R * n /\ R * n \in Nat
  <2>1. ASSUME NEW a \in Nat, NEW b \in Nat, NEW c \in Nat, a <= b
        PROVE  a * c <= b * c /\ a * c \in Nat /\ (a + 1) * c = a * c + c
    BY <2>1
  <2> QED
    BY <1>1, <2>1
<1>3. q \in Nat /\ R * q <= p
  <2>1. ASSUME NEW a \in Nat, NEW b \in Nat, b >= 1
        PROVE  a \div b \in Nat /\ b * (a \div b) <= a
    BY <2>1
  <2> QED
    BY <1>1, <1>2, <2>1
<1>4. Bucket(h, n) = q
  BY DEF Bucket
<1> HIDE DEF p, q, R
<1>5. q >= n => R * q >= R * n
  <2>1. ASSUME NEW a \in Nat, NEW b \in Nat, NEW c \in Nat, b >= c
        PROVE  a * b >= a * c
    BY <2>1
  <2> QED
    BY <1>1, <1>3, <2>1
<1>6. q < n
  <2> DEFINE x == R * q
             y == R * n
             z == (h + 1) * n
  <2>1. x \in Nat /\ y \in Nat /\ z \in Nat /\ z = p + n /\ z <= y /\ x <= p /\ (q >= n => x >= y)
    <3>1. R * q \in Nat
      BY <1>1, <1>3
    <3> QED
      BY <1>2, <1>3, <1>5, <3>1
  <2> HIDE DEF x, y, z
  <2> QED
    BY <1>2, <1>3, <2>1
<1> QED
  BY <1>3, <1>4, <1>6

\* A chain holds each of its entries once, the youngest first.
Descending(s) == \A p, q \in DOMAIN s : p < q => s[q] < s[p]

\* The n chains of ht lead to the entries of d, to the nonempty ones by the hash
\* codes hs of their keys.
ChainsLead(d, ht, n, hs) ==
  /\ DOMAIN ht = 0..(n - 1)
  /\ \A b \in 0..(n - 1) : ht[b] \in Seq(1..Len(d)) /\ Descending(ht[b])
  /\ \A i \in 1..Len(d) :
       \E b \in 0..(n - 1) : \A c \in 0..(n - 1) : i \in ToSet(ht[c]) <=> c = b
  /\ \A i \in LiveEntries(d) : i \in ToSet(ht[Bucket(hs[d[i]], n)])

LEMMA ReverseIs ==
  ASSUME NEW n \in Nat, NEW S \in IndexSets(n)
  PROVE  /\ Reverse(InOrder(S)) \in Seq(1..n) /\ Descending(Reverse(InOrder(S)))
         /\ ToSet(Reverse(InOrder(S))) = S
<1> DEFINE c == Cardinality(S)
           at == InOrder(S)
           s == Reverse(at)
<1>1. /\ c \in Nat /\ Len(at) = c /\ DOMAIN at = 1..c
      /\ \A p \in 1..c : at[p] \in S
      /\ \A p, q \in 1..c : p < q => at[p] < at[q]
      /\ ToSet(at) = S
  BY InOrderIs, BeforeType
<1> HIDE DEF c, at
<1>2. s = [p \in 1..c |-> at[(c - p) + 1]]
  BY <1>1 DEF Reverse
<1>3. /\ \A p \in 1..c : (c - p) + 1 \in 1..c /\ (c - ((c - p) + 1)) + 1 = p
      /\ \A p, q \in 1..c : p < q => (c - q) + 1 < (c - p) + 1
  BY <1>1
<1> HIDE DEF s
<1>4. DOMAIN s = 1..c /\ \A p \in 1..c : s[p] = at[(c - p) + 1] /\ s[p] \in S /\ s[p] \in 1..n
  BY <1>1, <1>2, <1>3, IndexIs
<1>5. s \in Seq(1..n)
  <2>1. s \in [1..c -> 1..n]
    BY <1>2, <1>4
  <2> QED
    BY <1>1, <2>1, SeqDef
<1>6. Descending(s)
  BY <1>1, <1>3, <1>4 DEF Descending
<1>7. ToSet(s) = S
  <2>1. \A i \in S : \E p \in 1..c : at[p] = i
    BY <1>1 DEF ToSet
  <2>2. \A i \in S : \E p \in 1..c : s[p] = i
    <3> TAKE i \in S
    <3>1. PICK p \in 1..c : at[p] = i
      BY <2>1
    <3>2. (c - p) + 1 \in 1..c /\ s[(c - p) + 1] = i
      BY <1>3, <1>4, <3>1
    <3> QED
      BY <3>2
  <2> QED
    BY <1>4, <2>2 DEF ToSet
<1> QED
  BY <1>5, <1>6, <1>7 DEF s, at

\* An entry that comes to the head of a chain.
LEMMA HeadIs ==
  ASSUME NEW n \in Nat, NEW s \in Seq(1..n), Descending(s)
  PROVE  /\ <<n + 1>> \o s \in Seq(1..(n + 1)) /\ Descending(<<n + 1>> \o s)
         /\ ToSet(<<n + 1>> \o s) = ToSet(s) \cup {n + 1}
<1> DEFINE t == <<n + 1>> \o s
           m == Len(s)
<1>1. m \in Nat /\ DOMAIN s = 1..m /\ \A p \in 1..m : s[p] \in 1..n /\ s[p] \in Nat /\ s[p] < n + 1
  BY ElementOfSeq
<1>2. s \in Seq(1..(n + 1)) /\ <<n + 1>> \in Seq(1..(n + 1)) /\ Len(<<n + 1>>) = 1
      /\ <<n + 1>>[1] = n + 1
  <2>1. 1..n \subseteq 1..(n + 1)
    OBVIOUS
  <2> QED
    BY <2>1, SeqMonotonic
<1>3. /\ t \in Seq(1..(n + 1)) /\ Len(t) = 1 + m
      /\ \A p \in 1..(1 + m) : t[p] = IF p <= 1 THEN <<n + 1>>[p] ELSE s[p - 1]
  BY <1>2, ConcatProperties
<1> HIDE DEF t, m
<1>4. /\ DOMAIN t = 1..(m + 1) /\ t[1] = n + 1
      /\ \A p \in 1..m : t[p + 1] = s[p]
      /\ \A p \in 1..(m + 1) : p # 1 => p - 1 \in 1..m /\ t[p] = s[p - 1]
  <2>1. DOMAIN t = 1..(m + 1)
    BY <1>1, <1>3
  <2>2. t[1] = n + 1
    BY <1>1, <1>2, <1>3
  <2>3. \A p \in 1..(m + 1) : p # 1 => p - 1 \in 1..m /\ t[p] = s[p - 1]
    BY <1>1, <1>3
  <2>4. \A p \in 1..m : t[p + 1] = s[p]
    BY <1>1, <1>3
  <2> QED
    BY <2>1, <2>2, <2>3, <2>4
<1>5. Descending(t)
  <2> SUFFICES ASSUME NEW p \in 1..(m + 1), NEW q \in 1..(m + 1), p < q PROVE t[q] < t[p]
    BY <1>4 DEF Descending
  <2>1. q # 1 /\ q - 1 \in 1..m /\ t[q] = s[q - 1]
    BY <1>4
  <2>2. CASE p = 1
    BY <1>1, <1>4, <2>1, <2>2
  <2>3. CASE p # 1
    <3>1. p - 1 \in 1..m /\ t[p] = s[p - 1] /\ p - 1 < q - 1
      BY <1>1, <1>4, <2>1, <2>3
    <3> QED
      BY <1>1, <2>1, <3>1 DEF Descending
  <2> QED
    BY <2>2, <2>3
<1>6. ToSet(t) = ToSet(s) \cup {n + 1}
  <2>1. ASSUME NEW p \in 1..(m + 1) PROVE t[p] \in ToSet(s) \cup {n + 1}
    <3>1. CASE p = 1
      BY <1>4, <3>1
    <3>2. CASE p # 1
      BY <1>1, <1>4, <3>2 DEF ToSet
    <3> QED
      BY <3>1, <3>2
  <2>2. ASSUME NEW i \in ToSet(s) PROVE i \in ToSet(t)
    <3>1. PICK p \in 1..m : s[p] = i
      BY <1>1 DEF ToSet
    <3>2. p + 1 \in 1..(m + 1) /\ t[p + 1] = i
      BY <1>1, <1>4, <3>1
    <3> QED
      BY <1>4, <3>2 DEF ToSet
  <2>3. n + 1 \in ToSet(t)
    BY <1>1, <1>4 DEF ToSet
  <2>4. ToSet(t) \subseteq ToSet(s) \cup {n + 1}
    BY <1>4, <2>1 DEF ToSet
  <2> QED
    BY <2>2, <2>3, <2>4
<1> QED
  BY <1>3, <1>5, <1>6 DEF t

\* What is on a chain is an entry.
LEMMA OnChain ==
  ASSUME NEW d, NEW ht, NEW n, NEW hs, ChainsLead(d, ht, n, hs), NEW b \in 0..(n - 1)
  PROVE  /\ ht[b] \in Seq(1..Len(d)) /\ Descending(ht[b])
         /\ ToSet(ht[b]) \subseteq 1..Len(d)
<1>1. ht[b] \in Seq(1..Len(d)) /\ Descending(ht[b])
  BY DEF ChainsLead
<1>2. \A p \in DOMAIN ht[b] : ht[b][p] \in 1..Len(d)
  BY <1>1, ElementOfSeq
<1> QED
  BY <1>1, <1>2 DEF ToSet

\* An empty table has empty chains.
LEMMA EmptyLeads ==
  ASSUME NEW n \in Nat \ {0}, NEW hs
  PROVE  ChainsLead(<<>>, EmptyTable(n), n, hs)
<1>1. Len(<<>>) = 0 /\ LiveEntries(<<>>) = {}
  BY DEF LiveEntries
<1>2. <<>> \in Seq(1..0) /\ Descending(<<>>)
  BY DEF Descending
<1> QED
  BY <1>1, <1>2 DEF ChainsLead, EmptyTable

\* A new entry at the head of the chain of its key.
LEMMA AppendLeads ==
  ASSUME NEW n \in Nat \ {0}, NEW T, NEW d \in Seq(T), NEW ht, NEW hs, NEW k \in T, k # NoKey,
         Bucket(hs[k], n) \in 0..(n - 1), ChainsLead(d, ht, n, hs)
  PROVE  ChainsLead(Append(d, k), [ht EXCEPT ![Bucket(hs[k], n)] = <<Len(d) + 1>> \o @], n, hs)
<1> DEFINE B == Bucket(hs[k], n)
           e == Append(d, k)
           m == Len(d)
           new == [ht EXCEPT ![B] = <<m + 1>> \o @]
<1>1. /\ m \in Nat /\ Len(e) = m + 1 /\ e[m + 1] = k
      /\ \A i \in 1..m : e[i] = d[i]
      /\ LiveEntries(e) = LiveEntries(d) \cup {m + 1} /\ LiveEntries(d) \subseteq 1..m
  BY AppendProperties, LiveOfAppend, LiveEntriesAre
<1>2. /\ DOMAIN ht = 0..(n - 1)
      /\ \A b \in 0..(n - 1) : ht[b] \in Seq(1..m) /\ Descending(ht[b]) /\ ToSet(ht[b]) \subseteq 1..m
  BY OnChain DEF ChainsLead
<1>3. /\ DOMAIN new = 0..(n - 1) /\ new[B] = <<m + 1>> \o ht[B]
      /\ \A b \in 0..(n - 1) : b # B => new[b] = ht[b]
  BY <1>2
<1> HIDE DEF B, e, m, new
<1>4. B \in 0..(n - 1)
  BY DEF B
<1>5. /\ new[B] \in Seq(1..(m + 1)) /\ Descending(new[B])
      /\ ToSet(new[B]) = ToSet(ht[B]) \cup {m + 1}
  BY <1>1, <1>2, <1>3, <1>4, HeadIs
<1>6. \A b \in 0..(n - 1) : b # B =>
        /\ new[b] \in Seq(1..(m + 1)) /\ Descending(new[b])
        /\ ToSet(new[b]) = ToSet(ht[b])
  <2>1. 1..m \subseteq 1..(m + 1)
    BY <1>1
  <2> QED
    BY <1>2, <1>3, <2>1, SeqMonotonic
<1>7. ASSUME NEW i \in 1..(m + 1)
      PROVE  \E b \in 0..(n - 1) : \A c \in 0..(n - 1) : i \in ToSet(new[c]) <=> c = b
  <2>1. CASE i = m + 1
    <3>1. \A c \in 0..(n - 1) : i \in ToSet(new[c]) <=> c = B
      BY <1>1, <1>2, <1>5, <1>6, <2>1
    <3> QED
      BY <1>4, <3>1
  <2>2. CASE i # m + 1
    <3>1. i \in 1..m
      BY <1>1, <2>2
    <3>2. PICK b \in 0..(n - 1) : \A c \in 0..(n - 1) : i \in ToSet(ht[c]) <=> c = b
      BY <3>1 DEF ChainsLead, m
    <3>3. \A c \in 0..(n - 1) : i \in ToSet(new[c]) <=> c = b
      BY <1>4, <1>5, <1>6, <2>2, <3>2
    <3> QED
      BY <3>3
  <2> QED
    BY <2>1, <2>2
<1>8. ASSUME NEW i \in LiveEntries(e) PROVE i \in ToSet(new[Bucket(hs[e[i]], n)])
  <2>1. CASE i = m + 1
    BY <1>1, <1>5, <2>1 DEF B
  <2>2. CASE i # m + 1
    <3>1. i \in LiveEntries(d) /\ i \in 1..m /\ e[i] = d[i]
      BY <1>1, <2>2
    <3>2. i \in ToSet(ht[Bucket(hs[d[i]], n)])
      BY <3>1 DEF ChainsLead
    <3>3. Bucket(hs[d[i]], n) \in 0..(n - 1) \/ new[Bucket(hs[d[i]], n)] = ht[Bucket(hs[d[i]], n)]
      BY <1>2, <1>3 DEF new
    <3> QED
      BY <1>5, <1>6, <3>1, <3>2, <3>3
  <2> QED
    BY <2>1, <2>2
<1> QED
  BY <1>1, <1>3, <1>5, <1>6, <1>7, <1>8 DEF ChainsLead, new, e, m, B

\* Emptied entries stay where they are.
LEMMA EmptiedLeads ==
  ASSUME NEW d, NEW e, NEW ht, NEW n, NEW hs, ChainsLead(d, ht, n, hs), Len(e) = Len(d),
         LiveEntries(e) \subseteq LiveEntries(d), \A i \in LiveEntries(e) : e[i] = d[i]
  PROVE  ChainsLead(e, ht, n, hs)
BY DEF ChainsLead

\* rehash() puts each entry on the chain of its key.
LEMMA RehashLeads ==
  ASSUME NEW n \in Nat \ {0}, NEW d \in Seq(Keys), hash \in [Keys -> Hashes]
  PROVE  ChainsLead(d, ChainsOf(d, n), n, hash)
<1> DEFINE m == Len(d)
           S(b) == {i \in 1..m : Bucket(hash[d[i]], n) = b}
           ht == ChainsOf(d, n)
<1>1. m \in Nat /\ DOMAIN d = 1..m /\ \A i \in 1..m : Bucket(hash[d[i]], n) \in 0..(n - 1)
  <2>1. \A i \in 1..m : hash[d[i]] \in Hashes
    BY ElementOfSeq
  <2> QED
    BY <2>1, BucketIs
<1>2. DOMAIN ht = 0..(n - 1) /\ \A b \in 0..(n - 1) : ht[b] = Reverse(InOrder(S(b)))
  BY <1>1 DEF ChainsOf
<1>3. \A b \in 0..(n - 1) : S(b) \in IndexSets(m)
  BY DEF IndexSets
<1> HIDE DEF ht
<1>4. \A b \in 0..(n - 1) : ht[b] \in Seq(1..m) /\ Descending(ht[b]) /\ ToSet(ht[b]) = S(b)
  <2> TAKE b \in 0..(n - 1)
  <2> HIDE DEF S, m
  <2> QED
    BY <1>1, <1>2, <1>3, ReverseIs
<1>5. ASSUME NEW i \in 1..m
      PROVE  \A c \in 0..(n - 1) : i \in ToSet(ht[c]) <=> c = Bucket(hash[d[i]], n)
  BY <1>4
<1>6. LiveEntries(d) \subseteq 1..m
  BY LiveEntriesAre
<1> QED
  BY <1>1, <1>2, <1>4, <1>5, <1>6 DEF ChainsLead, ht

\* rekeyFront() moves entries to the chains of their new hash codes.
LEMMA RekeyLeads ==
  ASSUME NEW T, data \in Seq(T), hashBuckets \in Nat \ {0},
         ChainsLead(data, hashTable, hashBuckets, hash),
         NEW newHash, \A i \in LiveEntries(data) : newHash[data[i]] \in Hashes,
         NEW moved, moved \subseteq LiveEntries(data),
         \A i \in LiveEntries(data) \ moved : newHash[data[i]] = hash[data[i]]
  PROVE  ChainsLead(data, Rekey(moved, newHash), hashBuckets, newHash)
<1> DEFINE m == Len(data)
           n == hashBuckets
           To(i) == Bucket(newHash[data[i]], n)
           S(b) == (ToSet(hashTable[b]) \ moved) \cup {i \in moved : To(i) = b}
           ht == Rekey(moved, newHash)
<1>1. m \in Nat /\ LiveEntries(data) \subseteq 1..m
  BY LiveEntriesAre
<1>2. \A i \in LiveEntries(data) : To(i) \in 0..(n - 1)
  BY BucketIs
<1>3. /\ DOMAIN hashTable = 0..(n - 1)
      /\ \A b \in 0..(n - 1) : ToSet(hashTable[b]) \subseteq 1..m
  BY OnChain DEF ChainsLead
<1>4. DOMAIN ht = 0..(n - 1) /\ \A b \in 0..(n - 1) : ht[b] = Reverse(InOrder(S(b)))
  BY <1>3 DEF Rekey
<1>5. \A b \in 0..(n - 1) : S(b) \in IndexSets(m)
  BY <1>1, <1>3 DEF IndexSets
<1> HIDE DEF ht
<1>6. \A b \in 0..(n - 1) : ht[b] \in Seq(1..m) /\ Descending(ht[b]) /\ ToSet(ht[b]) = S(b)
  <2> TAKE b \in 0..(n - 1)
  <2> HIDE DEF S, m, n
  <2> QED
    BY <1>1, <1>4, <1>5, ReverseIs
<1>7. ASSUME NEW i \in 1..m
      PROVE  \E b \in 0..(n - 1) : \A c \in 0..(n - 1) : i \in ToSet(ht[c]) <=> c = b
  <2>1. CASE i \in moved
    <3>1. \A c \in 0..(n - 1) : i \in ToSet(ht[c]) <=> c = To(i)
      BY <1>6, <2>1
    <3> QED
      BY <1>2, <2>1, <3>1
  <2>2. CASE i \notin moved
    <3>1. PICK b \in 0..(n - 1) : \A c \in 0..(n - 1) : i \in ToSet(hashTable[c]) <=> c = b
      BY DEF ChainsLead
    <3>2. \A c \in 0..(n - 1) : i \in ToSet(ht[c]) <=> c = b
      BY <1>6, <2>2, <3>1
    <3> QED
      BY <3>2
  <2> QED
    BY <2>1, <2>2
<1>8. ASSUME NEW i \in LiveEntries(data) PROVE i \in ToSet(ht[To(i)])
  <2>1. To(i) \in 0..(n - 1)
    BY <1>2
  <2>2. CASE i \in moved
    BY <1>6, <2>1, <2>2
  <2>3. CASE i \notin moved
    <3>1. i \in ToSet(hashTable[To(i)])
      BY <2>3 DEF ChainsLead
    <3> QED
      BY <1>6, <2>1, <2>3, <3>1
  <2> QED
    BY <2>2, <2>3
<1> QED
  BY <1>4, <1>6, <1>7, <1>8 DEF ChainsLead, ht

\* Each key is stored once.
KeysDiffer(d) == \A i, j \in LiveEntries(d) : d[i] = d[j] => i = j

\* lookup() finds the entry of the key, and nothing if there is none.
LEMMA LookupIs ==
  ASSUME NEW T, data \in Seq(T), hashBuckets \in Nat \ {0}, hash \in [Keys -> Hashes],
         ChainsLead(data, hashTable, hashBuckets, hash), KeysDiffer(data), NEW k \in Keys
  PROVE  /\ lookup(k) # 0 => lookup(k) \in LiveEntries(data) /\ data[lookup(k)] = k
         /\ \A i \in 1..Len(data) : data[i] = k => lookup(k) = i
<1> DEFINE B == Bucket(hash[k], hashBuckets)
           found == {i \in ToSet(hashTable[B]) : data[i] = k}
<1>1. k # NoKey
  BY TableAssumption
<1>2. B \in 0..(hashBuckets - 1)
  BY BucketIs
<1>3. \A i \in found : i \in 1..Len(data) /\ i \in LiveEntries(data) /\ data[i] = k
  BY <1>1, <1>2, OnChain, LiveEntriesAre
<1>4. lookup(k) = IF found = {} THEN 0 ELSE CHOOSE i \in found : TRUE
  BY DEF lookup
<1>5. ASSUME NEW i \in 1..Len(data), data[i] = k PROVE i \in found /\ \A j \in found : j = i
  <2>1. i \in LiveEntries(data)
    BY <1>1, <1>5, LiveEntriesAre
  <2>2. i \in ToSet(hashTable[Bucket(hash[data[i]], hashBuckets)])
    BY <2>1 DEF ChainsLead
  <2>3. i \in found
    BY <1>5, <2>2
  <2> QED
    BY <1>3, <1>5, <2>1, <2>3 DEF KeysDiffer
<1> HIDE DEF found
<1>6. lookup(k) # 0 => lookup(k) \in found
  BY <1>4
<1>7. ASSUME NEW i \in 1..Len(data), data[i] = k PROVE lookup(k) = i
  <2>1. found = {i}
    BY <1>5, <1>7
  <2> QED
    BY <1>4, <2>1
<1> QED
  BY <1>3, <1>6, <1>7

-----------------------------------------------------------------------------
(* The sizes of a table.                                                   *)

\* What a quotient is at least and at most.
LEMMA QuotientIs ==
  ASSUME NEW a \in Nat, NEW b \in Nat \ {0}, NEW q \in Nat
  PROVE  /\ a \div b \in Nat /\ b * (a \div b) <= a /\ a < b * (a \div b) + b
         /\ b * q <= a => q <= a \div b
         /\ a < b * (q + 1) => a \div b <= q
<1> DEFINE r == a \div b
<1>1. r \in Nat /\ b * r <= a /\ a < b * r + b
  OBVIOUS
<1> HIDE DEF r
<1>2. ASSUME NEW x \in Nat, NEW y \in Nat, x < y PROVE b * x + b <= b * y /\ b * x \in Nat
  <2>1. PICK z \in Nat : y = x + 1 + z
    <3>1. y - x - 1 \in Nat /\ y = x + 1 + (y - x - 1)
      BY <1>2
    <3> QED
      BY <3>1
  <2>2. b * y = b * x + b + b * z /\ b * z \in Nat /\ b * x \in Nat
    BY <2>1
  <2> QED
    BY <2>2
<1>3. ASSUME b * q <= a PROVE q <= r
  <2> SUFFICES ASSUME r < q PROVE FALSE
    BY <1>1
  <2>1. b * r + b <= b * q /\ b * r \in Nat /\ b * q \in Nat
    BY <1>1, <1>2
  <2> QED
    BY <1>1, <1>3, <2>1
<1>4. ASSUME a < b * (q + 1) PROVE r <= q
  <2> SUFFICES ASSUME q < r PROVE FALSE
    BY <1>1
  <2>1. b * q + b <= b * r /\ b * q \in Nat /\ b * (q + 1) = b * q + b
    BY <1>1, <1>2
  <2> QED
    BY <1>1, <1>4, <2>1
<1> QED
  BY <1>1, <1>3, <1>4 DEF r

\* A table has room for as many entries as buckets, and twice the buckets have
\* twice the room, but for one entry.
LEMMA CapacityIs ==
  ASSUME NEW n \in Nat
  PROVE  /\ Capacity(n) \in Nat /\ n <= Capacity(n)
         /\ 2 * Capacity(n) <= Capacity(2 * n) /\ Capacity(2 * n) <= 2 * Capacity(n) + 1
<1> DEFINE p == n * FillNum
           q == Capacity(n)
           D == FillDen
<1>1. D \in Nat \ {0} /\ FillNum \in Nat /\ D <= FillNum
  BY TableAssumption
<1>2. p \in Nat /\ D * n <= p /\ (2 * n) * FillNum = 2 * p
  <2>1. ASSUME NEW a \in Nat, NEW b \in Nat, a <= b PROVE a * n <= n * b /\ n * b \in Nat
    BY <2>1
  <2>2. D * n <= n * FillNum /\ n * FillNum \in Nat
    BY <1>1, <2>1
  <2>3. (2 * n) * FillNum = 2 * (n * FillNum)
    BY <1>1
  <2> QED
    BY <2>2, <2>3
<1>3. q = p \div D /\ Capacity(2 * n) = (2 * p) \div D
  BY <1>2 DEF Capacity
<1> HIDE DEF p, q, D
<1>4. q \in Nat /\ D * q <= p /\ p < D * q + D /\ n <= q
  BY <1>1, <1>2, <1>3, QuotientIs
<1>5. D * q \in Nat /\ D * (2 * q) = 2 * (D * q) /\ D * (2 * q + 1 + 1) = 2 * (D * q) + 2 * D
  BY <1>1, <1>4
<1> DEFINE x == D * q
<1>6. D * (2 * q) <= 2 * p /\ 2 * p < D * (2 * q + 1 + 1)
  <2>1. x \in Nat /\ x <= p /\ p < x + D /\ p \in Nat /\ D \in Nat
    BY <1>1, <1>2, <1>4, <1>5
  <2>2. D * (2 * q) = 2 * x /\ D * (2 * q + 1 + 1) = 2 * x + 2 * D
    BY <1>5
  <2> HIDE DEF x
  <2> QED
    BY <2>1, <2>2
<1>7. 2 * p \in Nat /\ 2 * q \in Nat /\ 2 * q + 1 \in Nat
  BY <1>2, <1>4
<1>8. 2 * q <= (2 * p) \div D /\ (2 * p) \div D <= 2 * q + 1
  BY <1>1, <1>6, <1>7, QuotientIs
<1> QED
  BY <1>3, <1>4, <1>8 DEF q

\* The numbers of buckets that doubling leads to.
BucketNumbers ==
  {n \in Nat : \A B \in SUBSET Nat :
                 initialBuckets \in B /\ (\A m \in B : 2 * m \in B) => n \in B}

\* They begin with two and can be halved down to it.
LEMMA BucketNumbersAre ==
  /\ initialBuckets \in BucketNumbers
  /\ \A n \in BucketNumbers :
       /\ n \in Nat \ {0} /\ 2 * n \in BucketNumbers
       /\ n > initialBuckets => n \div 2 \in BucketNumbers /\ n = 2 * (n \div 2)
<1>1. initialBuckets \in BucketNumbers
  BY DEF BucketNumbers, initialBuckets
<1>2. ASSUME NEW n \in BucketNumbers PROVE n \in Nat /\ 2 * n \in BucketNumbers
  BY DEF BucketNumbers
<1>3. ASSUME NEW n \in BucketNumbers PROVE n # 0
  <2> DEFINE B == Nat \ {0}
  <2>1. initialBuckets \in B /\ \A m \in B : 2 * m \in B
    BY DEF initialBuckets
  <2> QED
    BY <2>1 DEF BucketNumbers
<1>4. ASSUME NEW n \in BucketNumbers, n > initialBuckets
      PROVE  n \div 2 \in BucketNumbers /\ n = 2 * (n \div 2)
  <2> DEFINE B == {m \in Nat : m = initialBuckets \/ \E q \in BucketNumbers : m = 2 * q}
  <2>1. initialBuckets \in B
    BY DEF initialBuckets
  <2>2. ASSUME NEW m \in B PROVE 2 * m \in B
    <3>1. m \in BucketNumbers
      BY <1>1, <1>2
    <3> QED
      BY <1>2, <3>1
  <2>3. B \in SUBSET Nat
    OBVIOUS
  <2>4. n \in B
    <3> HIDE DEF B
    <3> QED
      BY <2>1, <2>2, <2>3 DEF BucketNumbers
  <2>5. PICK q \in BucketNumbers : n = 2 * q
    BY <1>4, <2>4 DEF initialBuckets
  <2>6. q \in Nat
    BY <1>2
  <2>7. n \div 2 = q
    BY <2>5, <2>6
  <2> QED
    BY <2>5, <2>7
<1> QED
  BY <1>1, <1>2, <1>3, <1>4

-----------------------------------------------------------------------------
(* The invariant.                                                          *)

Data == Keys \cup {NoKey}

\* The table: its n chains lead to its entries, whose keys differ, and it has
\* room for them.
TableIs(d, ht, n, hs, live) ==
  /\ d \in Seq(Data) /\ KeysDiffer(d)
  /\ n \in BucketNumbers /\ ChainsLead(d, ht, n, hs)
  /\ live = Cardinality(LiveEntries(d)) /\ Len(d) <= Capacity(n)

TableOK == TableIs(data, hashTable, hashBuckets, hash, liveCount)

\* The keys that a minor collection moves: a map that is not in the nursery
\* itself has recorded those of its own.
Recorded(d) == \A i \in LiveEntries(d) : d[i] \in young => d[i] \in nurseryKeys

GCOK ==
  /\ hash \in [Keys -> Hashes]
  /\ young \subseteq ObjectKeys /\ nurseryKeys \subseteq young /\ mapYoung \in BOOLEAN
  /\ ~mapYoung => Recorded(data)

\* A Range stands at a nonempty entry or at the end and counts those before it.
Stands(range, d) ==
  /\ range \in [list : Lists, i : 1..(Len(d) + 1), count : Nat]
  /\ range.i \in 1..Len(d) => range.i \in LiveEntries(d)
  /\ range.count = Before(LiveEntries(d), range.i)

AllStand(rs, d) ==
  /\ DOMAIN rs = Iterators
  /\ \A r \in Iterators : rs[r] \in {NoRange, DoneRange} \/ Stands(rs[r], d)

\* A map with Ranges in the nursery is on the nursery's list.
RangesOK ==
  /\ AllStand(ranges, data)
  /\ \A r \in Iterators : ranges[r].list = "nursery" => registered
  /\ hasNurseryMemory = registered /\ registered \in BOOLEAN

\* The inductive invariant.
IInv == TableOK /\ GCOK /\ RangesOK

-----------------------------------------------------------------------------
(* What becomes of a Range.                                                *)

LEMMA RangeWith ==
  ASSUME NEW n, NEW range \in [list : Lists, i : 1..n, count : Nat], NEW i, NEW count
  PROVE  [range EXCEPT !.count = count, !.i = i] =
           [list |-> range.list, i |-> i, count |-> count]
<1> DEFINE s == [range EXCEPT !.count = count, !.i = i]
<1>1. s \in [list : {range.list}, i : {i}, count : {count}]
  OBVIOUS
<1> HIDE DEF s
<1>2. s = [list |-> s.list, i |-> s.i, count |-> s.count]
  BY <1>1
<1>3. s.list = range.list /\ s.i = i /\ s.count = count
  BY <1>1
<1>4. s = [list |-> range.list, i |-> i, count |-> count]
  BY <1>2, <1>3
<1> QED
  BY <1>4 DEF s

\* The Ranges rs of a vector d become Ranges of a vector e.
Become(rs, d, new, e) ==
  \A r \in Iterators : Stands(rs[r], d) => Stands(new[r], e) /\ new[r].list = rs[r].list

\* All Ranges of the two lists are told.
LEMMA ForEachRangeIs ==
  ASSUME NEW rs, NEW d, AllStand(rs, d), NEW e, NEW new, Become(rs, d, new, e)
  PROVE  /\ AllStand(ForEachRange(rs, new), e)
         /\ \A r \in Iterators : ForEachRange(rs, new)[r].list = rs[r].list
         /\ \A r \in Iterators : rs[r].list \in Lists =>
              Stands(rs[r], d) /\ ForEachRange(rs, new)[r] = new[r]
<1>1. ASSUME NEW r \in Iterators PROVE Stands(rs[r], d) <=> rs[r].list \in Lists
  <2>1. NoRange.list \notin Lists /\ DoneRange.list \notin Lists
    BY DEF NoRange, DoneRange, Lists
  <2>2. Stands(rs[r], d) => rs[r].list \in Lists
    BY DEF Stands
  <2> QED
    BY <2>1, <2>2 DEF AllStand
<1>2. /\ DOMAIN ForEachRange(rs, new) = Iterators
      /\ \A r \in Iterators : ForEachRange(rs, new)[r] =
           IF rs[r].list \in Lists THEN new[r] ELSE rs[r]
  BY DEF ForEachRange
<1> QED
  BY <1>1, <1>2 DEF AllStand, Become

\* onRemove(): those that have passed the entry have one less behind them, those
\* at it go on to the next.
LEMMA RemovedStands ==
  ASSUME NEW d \in Seq(Data), NEW e \in Seq(Data), NEW j \in LiveEntries(d),
         Len(e) = Len(d), \A i \in 1..Len(d) : e[i] = IF i = j THEN NoKey ELSE d[i],
         NEW range, Stands(range, d)
  PROVE  /\ Stands(OnRemove(range, e, j), e) /\ OnRemove(range, e, j).list = range.list
         /\ OnRemove(range, e, j).count = IF j < range.i THEN range.count - 1 ELSE range.count
<1> DEFINE n == Len(d)
           L == LiveEntries(d)
           M == LiveEntries(e)
           i == range.i
           next == OnRemove(range, e, j)
<1>1. /\ n \in Nat /\ L \in IndexSets(n) /\ j \in 1..n /\ j \in Nat
  BY LiveEntriesAre, IndexIs
<1>2. /\ M = L \ {j}
      /\ \A l \in 1..(n + 1) : Before(M, l) = IF j < l THEN Before(L, l) - 1 ELSE Before(L, l)
  BY LiveWithout
<1>3. /\ range \in [list : Lists, i : 1..(n + 1), count : Nat]
      /\ i \in 1..n => i \in L
      /\ range.count = Before(L, i) /\ i \in 1..(n + 1) /\ i \in Nat
  BY <1>1 DEF Stands
<1> HIDE DEF n, L, M
<1>4. next = [list |-> range.list, i |-> IF j = i THEN Seek(e, i) ELSE i,
              count |-> IF j < i THEN range.count - 1 ELSE range.count]
  <2> DEFINE at == IF j = i THEN Seek(e, i) ELSE i
             passed == IF j < i THEN range.count - 1 ELSE range.count
  <2>1. next = [range EXCEPT !.count = passed, !.i = at]
    BY DEF OnRemove
  <2> HIDE DEF at, passed, next
  <2>2. next = [list |-> range.list, i |-> at, count |-> passed]
    BY <1>3, <2>1, RangeWith
  <2> QED
    BY <2>2 DEF at, passed
<1> HIDE DEF next
<1>5. CASE j = i
  <2>1. /\ Seek(e, i) \in 1..(n + 1) /\ (Seek(e, i) \in 1..n => Seek(e, i) \in M)
        /\ Before(M, Seek(e, i)) = Before(M, i)
    <3>1. i \in 1..(Len(e) + 1)
      BY <1>3 DEF n
    <3> QED
      BY <3>1, SeekIs DEF M, n
  <2>2. Before(M, i) = Before(L, i) /\ ~(j < i)
    <3>1. ~(j < i)
      BY <1>3, <1>5
    <3> QED
      BY <1>2, <1>3, <3>1
  <2>3. /\ next \in [list : Lists, i : 1..(n + 1), count : Nat] /\ next.i = Seek(e, i)
        /\ next.count = range.count /\ next.list = range.list
    BY <1>3, <1>4, <1>5, <2>1, <2>2
  <2> QED
    BY <1>3, <2>1, <2>2, <2>3 DEF Stands, n, M, next
<1>6. CASE j # i
  <2>1. j < i => Before(L, i) \in Nat /\ Before(L, i) > 0
    <3> HAVE j < i
    <3>1. Before(L, j) < Before(L, i)
      BY <1>1, <1>3, BeforeGrows DEF L
    <3> QED
      BY <1>1, <3>1, BeforeType
  <2>2. Before(M, i) = IF j < i THEN Before(L, i) - 1 ELSE Before(L, i)
    BY <1>2, <1>3
  <2>3. next.list = range.list /\ next.i = i /\ next.count = Before(M, i)
    BY <1>3, <1>4, <1>6, <2>2
  <2>4. next \in [list : Lists, i : 1..(n + 1), count : Nat]
    <3>1. (IF j < i THEN range.count - 1 ELSE range.count) \in Nat
      BY <1>3, <2>1
    <3> QED
      BY <1>3, <1>4, <1>6, <3>1
  <2>5. i \in 1..n => i \in M
    BY <1>2, <1>3, <1>6
  <2>6. Stands(next, e)
    BY <1>2, <1>3, <2>3, <2>4, <2>5 DEF Stands, n, M
  <2> QED
    BY <1>3, <1>4, <2>3, <2>6 DEF next
<1> QED
  BY <1>5, <1>6

\* The table without its empty entries.
LEMMA CompactedIs ==
  ASSUME NEW d \in Seq(Data), KeysDiffer(d)
  PROVE  /\ Live(d) \in Seq(Keys) /\ Live(d) \in Seq(Data) /\ KeysDiffer(Live(d))
         /\ Len(Live(d)) = Cardinality(LiveEntries(d))
         /\ LiveEntries(Live(d)) = 1..Len(Live(d))
         /\ Cardinality(LiveEntries(Live(d))) = Len(Live(d))
         /\ \A i \in 1..(Len(Live(d)) + 1) : Before(LiveEntries(Live(d)), i) = i - 1
         /\ \A p \in 1..Len(Live(d)) : \E i \in LiveEntries(d) : Live(d)[p] = d[i]
         /\ Live(Live(d)) = Live(d)
<1> DEFINE s == Live(d)
           c == Cardinality(LiveEntries(d))
<1>1. /\ s \in Seq(Data) /\ Len(s) = c /\ DOMAIN s = 1..c /\ c \in Nat
      /\ \A p \in 1..c : s[p] \in Data /\ s[p] # NoKey
      /\ \A p \in 1..c : \E i \in LiveEntries(d) : Before(LiveEntries(d), i) = p - 1 /\ s[p] = d[i]
  BY LiveIs
<1> HIDE DEF s
<1>2. \A p \in 1..c : s[p] \in Keys
  BY <1>1 DEF Data
<1>3. s \in Seq(Keys)
  <2>1. s \in [1..c -> Keys]
    BY <1>1, <1>2, LenProperties
  <2> QED
    BY <1>1, <2>1, SeqDef
<1>4. /\ LiveEntries(s) = 1..c /\ Cardinality(LiveEntries(s)) = c
      /\ \A i \in 1..(c + 1) : Before(LiveEntries(s), i) = i - 1
      /\ Live(s) = s
  BY <1>1, LiveOfLive
<1>5. KeysDiffer(s)
  <2> SUFFICES ASSUME NEW p \in 1..c, NEW q \in 1..c, s[p] = s[q] PROVE p = q
    BY <1>4 DEF KeysDiffer
  <2>1. PICK i \in LiveEntries(d) : Before(LiveEntries(d), i) = p - 1 /\ s[p] = d[i]
    BY <1>1
  <2>2. PICK j \in LiveEntries(d) : Before(LiveEntries(d), j) = q - 1 /\ s[q] = d[j]
    BY <1>1
  <2>3. i = j
    BY <2>1, <2>2 DEF KeysDiffer
  <2> QED
    BY <2>1, <2>2, <2>3
<1> QED
  BY <1>1, <1>3, <1>4, <1>5 DEF s

\* onCompact(): the count tells the new place.
LEMMA CompactedStands ==
  ASSUME NEW d \in Seq(Data), KeysDiffer(d), NEW range, Stands(range, d)
  PROVE  /\ Stands(OnCompact(range), Live(d)) /\ OnCompact(range).list = range.list
         /\ OnCompact(range).count = range.count
<1> DEFINE n == Len(d)
           L == LiveEntries(d)
           c == Cardinality(L)
           next == OnCompact(range)
<1>1. n \in Nat /\ L \in IndexSets(n)
  BY LiveEntriesAre
<1>2. /\ range \in [list : Lists, i : 1..(n + 1), count : Nat] /\ range.count = Before(L, range.i)
  BY DEF Stands
<1>3. c \in Nat /\ range.count <= c /\ range.count \in Nat
  BY <1>1, <1>2, BeforeType
<1>4. /\ Len(Live(d)) = c /\ LiveEntries(Live(d)) = 1..c
      /\ \A i \in 1..(c + 1) : Before(LiveEntries(Live(d)), i) = i - 1
  BY CompactedIs
<1> HIDE DEF c, n, L
<1>5. /\ next \in [list : Lists, i : 1..(c + 1), count : Nat] /\ next.i = range.count + 1
      /\ next.list = range.list /\ next.count = range.count
  BY <1>2, <1>3 DEF OnCompact
<1>6. Before(LiveEntries(Live(d)), next.i) = next.count
  BY <1>3, <1>4, <1>5
<1> HIDE DEF next
<1>7. Stands(next, Live(d))
  BY <1>4, <1>5, <1>6 DEF Stands
<1> QED
  BY <1>5, <1>7 DEF next

\* onClear(): back to the start.
LEMMA ClearedStands ==
  ASSUME NEW d, NEW range, Stands(range, d)
  PROVE  /\ Stands(OnClear(range), <<>>) /\ OnClear(range).list = range.list
         /\ OnClear(range).count = 0
<1>1. LiveEntries(<<>>) = {} /\ Len(<<>>) = 0
  BY DEF LiveEntries
<1>2. {} \in IndexSets(0)
  BY DEF IndexSets
<1>3. Before({}, 1) = 0
  BY <1>2, BeforeEnds
<1>4. range \in [list : Lists, i : 1..(Len(d) + 1), count : Nat] /\ range.list \in Lists
  BY DEF Stands
<1>5. OnClear(range) = [list |-> range.list, i |-> 1, count |-> 0]
  BY <1>4, RangeWith DEF OnClear
<1> QED
  <2>1. /\ OnClear(range).list = range.list /\ OnClear(range).i = 1 /\ OnClear(range).count = 0
        /\ OnClear(range) \in [list : Lists, i : 1..(0 + 1), count : Nat]
    BY <1>4, <1>5
  <2>2. OnClear(range).i \notin 1..0
    BY <2>1
  <2> QED
    BY <1>1, <1>3, <2>1, <2>2 DEF Stands

\* A Range at the end is at the entry that is appended.
LEMMA AppendedStands ==
  ASSUME NEW d \in Seq(Data), NEW k \in Keys, NEW range, Stands(range, d)
  PROVE  Stands(range, Append(d, k))
<1> DEFINE n == Len(d)
           e == Append(d, k)
<1>1. k # NoKey /\ k \in Data
  BY TableAssumption DEF Data
<1>2. n \in Nat /\ LiveEntries(d) \subseteq 1..n /\ Len(e) = n + 1
  BY <1>1, LiveEntriesAre, AppendProperties
<1>3. /\ LiveEntries(e) = LiveEntries(d) \cup {n + 1}
      /\ \A i \in 1..(n + 1) : Before(LiveEntries(e), i) = Before(LiveEntries(d), i)
  BY <1>1, LiveOfAppend
<1> HIDE DEF n, e
<1>4. /\ range \in [list : Lists, i : 1..(n + 1), count : Nat]
      /\ range.i \in 1..n => range.i \in LiveEntries(d)
      /\ range.count = Before(LiveEntries(d), range.i)
  BY DEF Stands, n
<1>5. 1..(n + 1) \subseteq 1..(n + 1 + 1)
  BY <1>2
<1>6. range.i \in 1..(n + 1) => range.i \in LiveEntries(e)
  BY <1>2, <1>3, <1>4
<1>7. range.count = Before(LiveEntries(e), range.i)
  BY <1>3, <1>4
<1> QED
  BY <1>2, <1>4, <1>5, <1>6, <1>7 DEF Stands, e

\* A new Range is at the first nonempty entry.
LEMMA NewStands ==
  ASSUME NEW d \in Seq(Data), NEW l \in Lists
  PROVE  Stands([list |-> l, i |-> Seek(d, 1), count |-> 0], d)
<1>1. Len(d) \in Nat /\ LiveEntries(d) \in IndexSets(Len(d)) /\ 1 \in 1..(Len(d) + 1)
  BY LiveEntriesAre
<1>2. Before(LiveEntries(d), 1) = 0
  BY <1>1, BeforeEnds
<1> QED
  BY <1>1, <1>2, SeekIs DEF Stands

\* popFront(): one more behind it, and on to the next nonempty entry.
LEMMA PoppedStands ==
  ASSUME data \in Seq(Data), NEW range, Stands(range, data), range.i <= Len(data)
  PROVE  /\ Stands(PopFront(range), data) /\ PopFront(range).list = range.list
         /\ PopFront(range).count = range.count + 1
<1> DEFINE n == Len(data)
           L == LiveEntries(data)
           i == range.i
           next == PopFront(range)
<1>1. n \in Nat /\ L \in IndexSets(n)
  BY LiveEntriesAre
<1>2. /\ range \in [list : Lists, i : 1..(n + 1), count : Nat] /\ i \in L
      /\ range.count = Before(L, i) /\ i + 1 \in 1..(n + 1) /\ i \in Nat
  BY <1>1 DEF Stands
<1>3. /\ Seek(data, i + 1) \in 1..(n + 1)
      /\ Seek(data, i + 1) \in 1..n => Seek(data, i + 1) \in L
      /\ Before(L, Seek(data, i + 1)) = Before(L, i + 1)
  BY <1>2, SeekIs
<1>4. Before(L, i + 1) = Before(L, i) + 1
  BY <1>1, <1>2, BeforeNext
<1>5. next = [list |-> range.list, i |-> Seek(data, i + 1), count |-> range.count + 1]
  BY <1>2, RangeWith DEF PopFront
<1> HIDE DEF n, L, next
<1>6. /\ next \in [list : Lists, i : 1..(n + 1), count : Nat] /\ next.i = Seek(data, i + 1)
      /\ next.list = range.list /\ next.count = range.count + 1
  BY <1>2, <1>3, <1>5
<1> QED
  BY <1>2, <1>3, <1>4, <1>6 DEF Stands, next, n, L

\* All the Ranges of a table.
RemoveAll(rs, e, j) == ForEachRange(rs, [r \in Iterators |-> OnRemove(rs[r], e, j)])
CompactAll(rs) == ForEachRange(rs, [r \in Iterators |-> OnCompact(rs[r])])
ClearAll(rs) == ForEachRange(rs, [r \in Iterators |-> OnClear(rs[r])])

LEMMA AllRemoved ==
  ASSUME NEW d \in Seq(Data), NEW e \in Seq(Data), NEW j \in LiveEntries(d),
         Len(e) = Len(d), \A i \in 1..Len(d) : e[i] = IF i = j THEN NoKey ELSE d[i],
         NEW rs, AllStand(rs, d)
  PROVE  /\ AllStand(RemoveAll(rs, e, j), e)
         /\ \A r \in Iterators :
              /\ RemoveAll(rs, e, j)[r].list = rs[r].list
              /\ rs[r].list \in Lists =>
                   RemoveAll(rs, e, j)[r].count = IF j < rs[r].i THEN rs[r].count - 1 ELSE rs[r].count
<1> DEFINE new == [r \in Iterators |-> OnRemove(rs[r], e, j)]
<1>1. ASSUME NEW r \in Iterators, Stands(rs[r], d)
      PROVE  /\ Stands(new[r], e) /\ new[r].list = rs[r].list
             /\ new[r].count = IF j < rs[r].i THEN rs[r].count - 1 ELSE rs[r].count
  BY <1>1, RemovedStands
<1>2. RemoveAll(rs, e, j) = ForEachRange(rs, new)
  BY DEF RemoveAll
<1> HIDE DEF new
<1>3. Become(rs, d, new, e)
  BY <1>1 DEF Become
<1>4. /\ AllStand(ForEachRange(rs, new), e)
      /\ \A r \in Iterators : ForEachRange(rs, new)[r].list = rs[r].list
      /\ \A r \in Iterators : rs[r].list \in Lists =>
           Stands(rs[r], d) /\ ForEachRange(rs, new)[r] = new[r]
  BY <1>3, ForEachRangeIs
<1> QED
  BY <1>1, <1>2, <1>4

LEMMA AllCompacted ==
  ASSUME NEW d \in Seq(Data), KeysDiffer(d), NEW rs, AllStand(rs, d)
  PROVE  /\ AllStand(CompactAll(rs), Live(d))
         /\ \A r \in Iterators :
              /\ CompactAll(rs)[r].list = rs[r].list
              /\ rs[r].list \in Lists => CompactAll(rs)[r].count = rs[r].count
<1> DEFINE new == [r \in Iterators |-> OnCompact(rs[r])]
<1>1. ASSUME NEW r \in Iterators, Stands(rs[r], d)
      PROVE  /\ Stands(new[r], Live(d)) /\ new[r].list = rs[r].list
             /\ new[r].count = rs[r].count
  BY <1>1, CompactedStands
<1>2. CompactAll(rs) = ForEachRange(rs, new)
  BY DEF CompactAll
<1> HIDE DEF new
<1>3. Become(rs, d, new, Live(d))
  BY <1>1 DEF Become
<1> QED
  BY <1>1, <1>2, <1>3, ForEachRangeIs

LEMMA AllCleared ==
  ASSUME NEW d, NEW rs, AllStand(rs, d)
  PROVE  /\ AllStand(ClearAll(rs), <<>>)
         /\ \A r \in Iterators :
              /\ ClearAll(rs)[r].list = rs[r].list
              /\ rs[r].list \in Lists => ClearAll(rs)[r].count = 0
<1> DEFINE new == [r \in Iterators |-> OnClear(rs[r])]
<1>1. ASSUME NEW r \in Iterators, Stands(rs[r], d)
      PROVE  Stands(new[r], <<>>) /\ new[r].list = rs[r].list /\ new[r].count = 0
  BY <1>1, ClearedStands
<1>2. ClearAll(rs) = ForEachRange(rs, new)
  BY DEF ClearAll
<1> HIDE DEF new
<1>3. Become(rs, d, new, <<>>)
  BY <1>1 DEF Become
<1> QED
  BY <1>1, <1>2, <1>3, ForEachRangeIs

LEMMA AllAppended ==
  ASSUME NEW d \in Seq(Data), NEW k \in Keys, NEW rs, AllStand(rs, d)
  PROVE  AllStand(rs, Append(d, k))
BY AppendedStands DEF AllStand

-----------------------------------------------------------------------------
(* What becomes of a table.                                                *)

\* An entry is emptied.
LEMMA EmptiedTable ==
  ASSUME NEW d, NEW ht, NEW n, NEW hs, NEW live, TableIs(d, ht, n, hs, live),
         NEW j \in LiveEntries(d)
  PROVE  /\ TableIs([d EXCEPT ![j] = NoKey], ht, n, hs, live - 1)
         /\ [d EXCEPT ![j] = NoKey] \in Seq(Data) /\ Len([d EXCEPT ![j] = NoKey]) = Len(d)
         /\ \A i \in 1..Len(d) : [d EXCEPT ![j] = NoKey][i] = IF i = j THEN NoKey ELSE d[i]
<1> DEFINE e == [d EXCEPT ![j] = NoKey]
<1>1. d \in Seq(Data) /\ NoKey \in Data /\ j \in 1..Len(d) /\ LiveEntries(d) \subseteq 1..Len(d)
  BY LiveEntriesAre DEF TableIs, Data
<1>2. /\ e \in Seq(Data) /\ Len(e) = Len(d)
      /\ \A i \in 1..Len(d) : e[i] = IF i = j THEN NoKey ELSE d[i]
  BY <1>1, EmptiedIs
<1> HIDE DEF e
<1>3. /\ LiveEntries(e) = LiveEntries(d) \ {j}
      /\ Cardinality(LiveEntries(e)) = Cardinality(LiveEntries(d)) - 1
  BY <1>1, <1>2, LiveWithout
<1>4. \A i \in LiveEntries(e) : e[i] = d[i]
  BY <1>1, <1>2, <1>3
<1>5. KeysDiffer(e)
  BY <1>3, <1>4 DEF KeysDiffer, TableIs
<1>6. ChainsLead(e, ht, n, hs)
  BY <1>2, <1>3, <1>4, EmptiedLeads DEF TableIs
<1> QED
  BY <1>2, <1>3, <1>5, <1>6 DEF TableIs, e

\* The nonempty entries get new chains.
LEMMA CompactedTable ==
  ASSUME NEW d \in Seq(Data), KeysDiffer(d), hash \in [Keys -> Hashes], NEW n \in BucketNumbers,
         Cardinality(LiveEntries(d)) <= Capacity(n)
  PROVE  TableIs(Live(d), ChainsOf(Live(d), n), n, hash, Cardinality(LiveEntries(d)))
<1>1. n \in Nat \ {0}
  BY BucketNumbersAre
<1>2. /\ Live(d) \in Seq(Keys) /\ Live(d) \in Seq(Data) /\ KeysDiffer(Live(d))
      /\ Len(Live(d)) = Cardinality(LiveEntries(d))
      /\ Cardinality(LiveEntries(Live(d))) = Len(Live(d))
  BY CompactedIs
<1>3. ChainsLead(Live(d), ChainsOf(Live(d), n), n, hash)
  BY <1>1, <1>2, RehashLeads
<1> QED
  BY <1>2, <1>3 DEF TableIs

\* An entry is appended.
LEMMA PutEntryTable ==
  ASSUME NEW d, NEW chains, NEW n, hash \in [Keys -> Hashes],
         TableIs(d, chains, n, hash, liveCount), NEW k \in Keys,
         \A i \in LiveEntries(d) : d[i] # k, Len(d) < Capacity(n),
         PutEntry(k, d, chains, n), hash' = hash
  PROVE  TableOK'
<1> DEFINE e == Append(d, k)
           ht == [chains EXCEPT ![Bucket(hash[k], n)] = <<Len(d) + 1>> \o @]
<1>1. d \in Seq(Data) /\ k \in Data /\ k # NoKey /\ n \in Nat \ {0} /\ n \in BucketNumbers
  BY TableAssumption, BucketNumbersAre DEF TableIs, Data
<1>2. Bucket(hash[k], n) \in 0..(n - 1)
  BY <1>1, BucketIs
<1>3. ChainsLead(e, ht, n, hash)
  BY <1>1, <1>2, AppendLeads DEF TableIs
<1>4. e \in Seq(Data) /\ Len(e) = Len(d) + 1 /\ e[Len(d) + 1] = k
      /\ \A i \in 1..Len(d) : e[i] = d[i]
  BY <1>1, AppendProperties
<1>5. /\ LiveEntries(e) = LiveEntries(d) \cup {Len(d) + 1} /\ LiveEntries(d) \subseteq 1..Len(d)
      /\ Cardinality(LiveEntries(e)) = Cardinality(LiveEntries(d)) + 1
  BY <1>1, LiveOfAppend, LiveEntriesAre
<1> HIDE DEF e, ht
<1>6. KeysDiffer(e)
  <2> SUFFICES ASSUME NEW i \in LiveEntries(e), NEW j \in LiveEntries(e), e[i] = e[j] PROVE i = j
    BY DEF KeysDiffer
  <2>1. CASE i = Len(d) + 1 \/ j = Len(d) + 1
    BY <1>4, <1>5, <2>1
  <2>2. CASE i # Len(d) + 1 /\ j # Len(d) + 1
    <3>1. i \in LiveEntries(d) /\ j \in LiveEntries(d) /\ d[i] = d[j]
      BY <1>4, <1>5, <2>2
    <3> QED
      BY <3>1 DEF TableIs, KeysDiffer
  <2> QED
    BY <2>1, <2>2
<1>7. Len(e) <= Capacity(n)
  <2>1. Len(d) \in Nat /\ Capacity(n) \in Nat
    BY <1>1, CapacityIs, LiveEntriesAre
  <2> QED
    BY <1>4, <2>1
<1>8. TableIs(e, ht, n, hash, liveCount + 1)
  BY <1>1, <1>3, <1>4, <1>5, <1>6, <1>7 DEF TableIs
<1>9. data' = e /\ hashTable' = ht /\ hashBuckets' = n /\ liveCount' = liveCount + 1
  BY DEF PutEntry, e, ht
<1> QED
  BY <1>8, <1>9 DEF TableOK

-----------------------------------------------------------------------------
(* One lemma for each operation.                                           *)

\* The types that the lemmas above ask for.
LEMMA IInvTypes ==
  ASSUME IInv
  PROVE  /\ data \in Seq(Data) /\ KeysDiffer(data) /\ hash \in [Keys -> Hashes]
         /\ hashBuckets \in BucketNumbers /\ hashBuckets \in Nat \ {0}
         /\ Len(data) \in Nat /\ DOMAIN data = 1..Len(data)
         /\ LiveEntries(data) \subseteq 1..Len(data)
         /\ liveCount = Cardinality(LiveEntries(data)) /\ liveCount \in Nat
         /\ liveCount <= Len(data) /\ Len(data) <= Capacity(hashBuckets)
         /\ Capacity(hashBuckets) \in Nat /\ Capacity(hashBuckets) >= 1
<1>1. /\ data \in Seq(Data) /\ KeysDiffer(data) /\ hash \in [Keys -> Hashes]
      /\ hashBuckets \in BucketNumbers
      /\ liveCount = Cardinality(LiveEntries(data)) /\ Len(data) <= Capacity(hashBuckets)
  BY DEF IInv, TableOK, TableIs, GCOK
<1>2. hashBuckets \in Nat \ {0}
  BY <1>1, BucketNumbersAre
<1>3. Capacity(hashBuckets) \in Nat /\ hashBuckets <= Capacity(hashBuckets)
  BY <1>2, CapacityIs
<1>4. /\ Len(data) \in Nat /\ DOMAIN data = 1..Len(data)
      /\ LiveEntries(data) \subseteq 1..Len(data)
      /\ liveCount \in Nat /\ liveCount <= Len(data)
  BY <1>1, LiveEntriesAre, LiveIs
<1> QED
  BY <1>1, <1>2, <1>3, <1>4

\* The entry of a key.
LEMMA LookupFinds ==
  ASSUME IInv, NEW k \in Keys
  PROVE  /\ lookup(k) # 0 => lookup(k) \in LiveEntries(data) /\ data[lookup(k)] = k
         /\ lookup(k) = 0 => \A i \in LiveEntries(data) : data[i] # k
         /\ \A i \in LiveEntries(data) : data[i] = k => lookup(k) = i
<1>1. ChainsLead(data, hashTable, hashBuckets, hash)
  BY DEF IInv, TableOK, TableIs
<1>2. /\ lookup(k) # 0 => lookup(k) \in LiveEntries(data) /\ data[lookup(k)] = k
      /\ \A i \in 1..Len(data) : data[i] = k => lookup(k) = i
  BY <1>1, IInvTypes, LookupIs
<1>3. \A i \in LiveEntries(data) : i \in 1..Len(data) /\ i # 0
  BY IInvTypes
<1> QED
  BY <1>2, <1>3

\* An empty table is one.
LEMMA EmptyIs ==
  TableIs(<<>>, EmptyTable(initialBuckets), initialBuckets, hash, 0)
<1>1. <<>> \in Seq(Data) /\ LiveEntries(<<>>) = {} /\ Len(<<>>) = 0
  BY DEF LiveEntries
<1>2. initialBuckets \in BucketNumbers /\ initialBuckets \in Nat \ {0}
  BY BucketNumbersAre
<1>3. Len(<<>>) <= Capacity(initialBuckets)
  BY <1>1, <1>2, CapacityIs
<1>4. 0 = Cardinality(LiveEntries(<<>>))
  BY <1>1, FS_EmptySet
<1>5. KeysDiffer(<<>>)
  BY <1>1 DEF KeysDiffer
<1>6. ChainsLead(<<>>, EmptyTable(initialBuckets), initialBuckets, hash)
  BY <1>2, EmptyLeads
<1> QED
  BY <1>1, <1>2, <1>3, <1>4, <1>5, <1>6, Zenon DEF TableIs

LEMMA InitIInv == Init => IInv
<1> SUFFICES ASSUME Init PROVE IInv
  OBVIOUS
<1>1. TableOK
  BY EmptyIs DEF TableOK, Init
<1>2. LiveEntries(<<>>) = {}
  BY DEF LiveEntries
<1>3. GCOK
  BY <1>2 DEF GCOK, Init, Recorded
<1>4. RangesOK
  BY DEF RangesOK, AllStand, Init, NoRange
<1> QED
  BY <1>1, <1>3, <1>4 DEF IInv

\* What a vector of the same keys needs of the collector's part.
LEMMA FewerRecorded ==
  ASSUME NEW d, Recorded(d), NEW e,
         \A i \in LiveEntries(e) : \E j \in LiveEntries(d) : e[i] = d[j]
  PROVE  Recorded(e)
BY DEF Recorded

LEMMA PutIInv == ASSUME IInv, NEW k \in Keys, Put(k) PROVE IInv'
<1> USE IInvTypes
<1>1. /\ hash' = hash /\ young' = young /\ mapYoung' = mapYoung
      /\ hasNurseryMemory' = hasNurseryMemory /\ registered' = registered
      /\ nurseryKeys' = IF ~mapYoung /\ k \in young THEN nurseryKeys \cup {k} ELSE nurseryKeys
  BY DEF Put, memoryVars, WriteBarrierPost
<1>2. /\ young \subseteq ObjectKeys /\ nurseryKeys' \subseteq young /\ nurseryKeys \subseteq nurseryKeys'
      /\ mapYoung \in BOOLEAN /\ (~mapYoung => (k \in young => k \in nurseryKeys'))
      /\ ~mapYoung => Recorded(data)
  BY <1>1 DEF IInv, GCOK
<1>3. ASSUME UNCHANGED <<tableVars, ranges>> PROVE IInv'
  <2>1. TableOK' /\ RangesOK'
    BY <1>1, <1>3 DEF IInv, TableOK, RangesOK, tableVars
  <2>2. GCOK'
    BY <1>1, <1>2, <1>3 DEF GCOK, Recorded, tableVars
  <2> QED
    BY <2>1, <2>2 DEF IInv
<1>4. ASSUME NEW d \in Seq(Data), data' = Append(d, k), ~mapYoung => Recorded(d)
      PROVE  GCOK'
  <2>1. k \in Data /\ k # NoKey
    BY TableAssumption DEF Data
  <2>2. /\ LiveEntries(Append(d, k)) = LiveEntries(d) \cup {Len(d) + 1}
        /\ LiveEntries(d) \subseteq 1..Len(d)
        /\ Append(d, k)[Len(d) + 1] = k /\ \A i \in 1..Len(d) : Append(d, k)[i] = d[i]
    BY <2>1, LiveOfAppend, LiveEntriesAre, AppendProperties
  <2>3. ~mapYoung => Recorded(Append(d, k))'
    <3> HAVE ~mapYoung
    <3>1. Recorded(d)
      BY <1>4
    <3>2. ASSUME NEW i \in LiveEntries(Append(d, k)), Append(d, k)[i] \in young
          PROVE  Append(d, k)[i] \in nurseryKeys'
      BY <1>2, <2>2, <3>1, <3>2 DEF Recorded
    <3> QED
      BY <1>1, <3>2 DEF Recorded
  <2> QED
    BY <1>1, <1>2, <1>4, <2>3 DEF GCOK, Recorded
<1>5. ASSUME lookup(k) = 0, ~NeedsRehash, PutEntry(k, data, hashTable, hashBuckets),
             UNCHANGED ranges
      PROVE  IInv'
  <2>1. Len(data) < Capacity(hashBuckets)
    BY <1>5 DEF NeedsRehash
  <2>2. TableOK'
    <3>1. TableIs(data, hashTable, hashBuckets, hash, liveCount)
      BY DEF IInv, TableOK
    <3> QED
      BY <1>1, <1>5, <2>1, <3>1, LookupFinds, PutEntryTable
  <2>3. data' = Append(data, k)
    BY <1>5 DEF PutEntry
  <2>4. GCOK'
    BY <1>2, <1>4, <2>3
  <2>5. RangesOK'
    <3>1. AllStand(ranges, Append(data, k))
      BY AllAppended DEF IInv, RangesOK
    <3> QED
      BY <1>1, <1>5, <2>3, <3>1 DEF IInv, RangesOK
  <2> QED
    BY <2>2, <2>4, <2>5 DEF IInv
<1>6. ASSUME lookup(k) = 0, NeedsRehash,
             PutEntry(k, Live(data), ChainsOf(Live(data), PutBuckets), PutBuckets),
             ranges' = CompactAll(ranges)
      PROVE  IInv'
  <2> DEFINE d == Live(data)
             n == PutBuckets
  <2>1. n \in BucketNumbers /\ liveCount < Capacity(n)
    <3>1. 2 * hashBuckets \in BucketNumbers /\ 2 * Capacity(hashBuckets) <= Capacity(2 * hashBuckets)
          /\ Capacity(2 * hashBuckets) \in Nat
      BY BucketNumbersAre, CapacityIs
    <3>2. CASE 4 * liveCount >= 3 * Capacity(hashBuckets)
      BY <3>1, <3>2 DEF PutBuckets
    <3>3. CASE ~(4 * liveCount >= 3 * Capacity(hashBuckets))
      BY <3>3 DEF PutBuckets
    <3> QED
      BY <3>2, <3>3
  <2>2. /\ d \in Seq(Data) /\ Len(d) = liveCount /\ LiveEntries(d) = 1..Len(d)
        /\ \A p \in 1..Len(d) : \E i \in LiveEntries(data) : d[p] = data[i]
    BY CompactedIs
  <2> HIDE DEF d, n
  <2>3. TableIs(d, ChainsOf(d, n), n, hash, liveCount)
    <3>1. Cardinality(LiveEntries(data)) <= Capacity(n)
      <4>1. Capacity(n) \in Nat
        BY <2>1, BucketNumbersAre, CapacityIs
      <4> QED
        BY <2>1, <4>1
    <3> QED
      BY <2>1, <3>1, CompactedTable DEF d
  <2>4. TableOK'
    <3>1. \A i \in LiveEntries(d) : d[i] # k
      BY <1>6, <2>2, LookupFinds
    <3>2. PutEntry(k, d, ChainsOf(d, n), n) /\ Len(d) < Capacity(n)
      BY <1>6, <2>1, <2>2 DEF d, n
    <3> QED
      BY <1>1, <2>3, <3>1, <3>2, PutEntryTable
  <2>5. data' = Append(d, k)
    BY <1>6 DEF PutEntry, d
  <2>6. GCOK'
    <3>1. ~mapYoung => Recorded(d)
      BY <1>2, <2>2, FewerRecorded
    <3> QED
      BY <1>4, <2>2, <2>5, <3>1
  <2>7. RangesOK'
    <3>1. AllStand(ranges, data)
      BY DEF IInv, RangesOK
    <3>2. /\ AllStand(CompactAll(ranges), d)
          /\ \A r \in Iterators : CompactAll(ranges)[r].list = ranges[r].list
      BY <3>1, AllCompacted DEF d
    <3>3. AllStand(CompactAll(ranges), Append(d, k))
      BY <2>2, <3>2, AllAppended
    <3> QED
      BY <1>1, <1>6, <2>5, <3>2, <3>3 DEF IInv, RangesOK
  <2> QED
    BY <2>4, <2>6, <2>7 DEF IInv
<1> QED
  BY <1>3, <1>5, <1>6 DEF Put, CompactAll

LEMMA DeleteIInv == ASSUME IInv, NEW k \in Keys, Delete(k) PROVE IInv'
<1> USE IInvTypes
<1> DEFINE j == lookup(k)
           e == [data EXCEPT ![j] = NoKey]
           told == RemoveAll(ranges, e, j)
           half == hashBuckets \div 2
<1>1. /\ hash' = hash /\ young' = young /\ mapYoung' = mapYoung /\ nurseryKeys' = nurseryKeys
      /\ hasNurseryMemory' = hasNurseryMemory /\ registered' = registered
  BY DEF Delete, gcVars, memoryVars
<1>2. ASSUME UNCHANGED <<tableVars, ranges>> PROVE IInv'
  BY <1>1, <1>2 DEF IInv, TableOK, GCOK, Recorded, RangesOK, tableVars
<1>3. ASSUME j # 0
      PROVE  /\ TableIs(e, hashTable, hashBuckets, hash, liveCount - 1)
             /\ e \in Seq(Data) /\ KeysDiffer(e) /\ Len(e) = Len(data)
             /\ liveCount - 1 = Cardinality(LiveEntries(e)) /\ liveCount - 1 \in Nat
             /\ \A i \in LiveEntries(e) : i \in LiveEntries(data) /\ e[i] = data[i]
             /\ AllStand(told, e)
             /\ \A r \in Iterators : told[r].list = ranges[r].list
  <2>1. j \in LiveEntries(data)
    BY <1>3, LookupFinds
  <2>2. TableIs(data, hashTable, hashBuckets, hash, liveCount) /\ AllStand(ranges, data)
    BY DEF IInv, TableOK, RangesOK
  <2> HIDE DEF j
  <2>3. /\ TableIs(e, hashTable, hashBuckets, hash, liveCount - 1)
        /\ e \in Seq(Data) /\ Len(e) = Len(data)
        /\ \A i \in 1..Len(data) : e[i] = IF i = j THEN NoKey ELSE data[i]
    BY <2>1, <2>2, EmptiedTable
  <2> HIDE DEF e
  <2>4. LiveEntries(e) = LiveEntries(data) \ {j}
    BY <2>1, <2>3, LiveWithout
  <2>5. AllStand(told, e) /\ \A r \in Iterators : told[r].list = ranges[r].list
    BY <2>1, <2>2, <2>3, AllRemoved
  <2>6. liveCount - 1 = Cardinality(LiveEntries(e)) /\ KeysDiffer(e)
    BY <2>3 DEF TableIs
  <2>7. Cardinality(LiveEntries(e)) \in Nat
    BY <2>3, LiveIs
  <2>8. \A i \in LiveEntries(e) : i \in LiveEntries(data) /\ e[i] = data[i]
    BY <2>3, <2>4
  <2> QED
    BY <2>3, <2>5, <2>6, <2>7, <2>8
<1> HIDE DEF j, e, told
<1>4. ASSUME j # 0, data' = e, liveCount' = liveCount - 1, ranges' = told,
             UNCHANGED <<hashTable, hashBuckets>>
      PROVE  IInv'
  <2>1. TableOK'
    BY <1>1, <1>3, <1>4 DEF TableOK
  <2>2. GCOK'
    BY <1>1, <1>3, <1>4 DEF IInv, GCOK, Recorded
  <2>3. RangesOK'
    BY <1>1, <1>3, <1>4 DEF IInv, RangesOK
  <2> QED
    BY <2>1, <2>2, <2>3 DEF IInv
<1>5. ASSUME j # 0, NeedsShrink(liveCount - 1), data' = Live(e), hashBuckets' = half,
             hashTable' = ChainsOf(Live(e), half), liveCount' = liveCount - 1,
             ranges' = CompactAll(told)
      PROVE  IInv'
  <2>1. half \in BucketNumbers /\ liveCount - 1 <= Capacity(half)
    <3>1. half \in BucketNumbers /\ hashBuckets = 2 * half
      BY <1>5, BucketNumbersAre DEF NeedsShrink, initialBuckets
    <3>2. half \in Nat
      BY <3>1, BucketNumbersAre
    <3> HIDE DEF half
    <3>3. Capacity(half) \in Nat /\ Capacity(hashBuckets) <= 2 * Capacity(half) + 1
      BY <3>1, <3>2, CapacityIs
    <3>4. 4 * (liveCount - 1) < Len(data) /\ liveCount - 1 \in Nat
      BY <1>3, <1>5 DEF NeedsShrink
    <3> DEFINE live == liveCount - 1
    <3>5. live <= Capacity(half)
      <4>1. live \in Nat /\ 4 * live < Len(data)
        BY <3>4
      <4> HIDE DEF live
      <4> QED
        BY <3>3, <4>1
    <3> QED
      BY <3>1, <3>5
  <2> HIDE DEF half
  <2>2. TableIs(Live(e), ChainsOf(Live(e), half), half, hash, liveCount - 1)
    BY <1>3, <1>5, <2>1, CompactedTable
  <2>3. TableOK'
    BY <1>1, <1>5, <2>2 DEF TableOK
  <2>4. GCOK'
    <3>1. /\ LiveEntries(Live(e)) = 1..Len(Live(e))
          /\ \A p \in 1..Len(Live(e)) : \E i \in LiveEntries(e) : Live(e)[p] = e[i]
      BY <1>3, <1>5, CompactedIs
    <3>2. \A p \in LiveEntries(Live(e)) : \E i \in LiveEntries(data) : Live(e)[p] = data[i]
      <4> TAKE p \in LiveEntries(Live(e))
      <4>1. PICK i \in LiveEntries(e) : Live(e)[p] = e[i]
        BY <3>1
      <4> QED
        BY <1>3, <1>5, <4>1
    <3> QED
      BY <1>1, <1>5, <3>2, FewerRecorded DEF IInv, GCOK, Recorded
  <2>5. RangesOK'
    <3>1. /\ AllStand(CompactAll(told), Live(e))
          /\ \A r \in Iterators : CompactAll(told)[r].list = told[r].list
      BY <1>3, <1>5, AllCompacted
    <3> QED
      BY <1>1, <1>3, <1>5, <3>1 DEF IInv, RangesOK
  <2> QED
    BY <2>3, <2>4, <2>5 DEF IInv
<1> QED
  BY <1>2, <1>4, <1>5 DEF Delete, RemoveAll, CompactAll, j, e, told, half

LEMMA ClearIInv == ASSUME IInv, Clear PROVE IInv'
<1>1. /\ hash' = hash /\ young' = young /\ mapYoung' = mapYoung /\ nurseryKeys' = nurseryKeys
      /\ hasNurseryMemory' = hasNurseryMemory /\ registered' = registered
  BY DEF Clear, gcVars, memoryVars
<1>2. ASSUME UNCHANGED <<tableVars, ranges>> PROVE IInv'
  BY <1>1, <1>2 DEF IInv, TableOK, GCOK, Recorded, RangesOK, tableVars
<1>3. ASSUME data' = <<>>, hashBuckets' = initialBuckets,
             hashTable' = EmptyTable(initialBuckets), liveCount' = 0,
             ranges' = ClearAll(ranges)
      PROVE  IInv'
  <2>1. TableIs(<<>>, EmptyTable(initialBuckets), initialBuckets, hash, 0)
    BY EmptyIs
  <2>2. TableOK'
    BY <1>1, <1>3, <2>1 DEF TableOK
  <2>3. GCOK'
    <3>1. LiveEntries(<<>>) = {}
      BY DEF LiveEntries
    <3> QED
      BY <1>1, <1>3, <3>1 DEF IInv, GCOK, Recorded
  <2>4. RangesOK'
    <3>1. AllStand(ranges, data)
      BY DEF IInv, RangesOK
    <3>2. /\ AllStand(ClearAll(ranges), <<>>)
          /\ \A r \in Iterators : ClearAll(ranges)[r].list = ranges[r].list
      BY <3>1, AllCleared
    <3> QED
      BY <1>1, <1>3, <3>2 DEF IInv, RangesOK
  <2> QED
    BY <2>2, <2>3, <2>4 DEF IInv
<1> QED
  BY <1>2, <1>3 DEF Clear, ClearAll

\* Calls that leave the table and its keys alone.
LEMMA OnlyRanges ==
  ASSUME IInv, UNCHANGED <<tableVars, gcVars>>, RangesOK'
  PROVE  IInv'
BY DEF IInv, TableOK, GCOK, Recorded, tableVars, gcVars

LEMMA IterateIInv ==
  ASSUME IInv, NEW r \in Iterators, NEW l \in Lists, Iterate(r, l)
  PROVE  IInv'
<1>1. /\ ranges[r] = NoRange
      /\ ranges' = [ranges EXCEPT ![r] = [list |-> l, i |-> Seek(data, 1), count |-> 0]]
      /\ registered' = (registered \/ (l = "nursery" /\ ~hasNurseryMemory))
      /\ hasNurseryMemory' = (hasNurseryMemory \/ l = "nursery")
      /\ UNCHANGED <<tableVars, gcVars>> /\ data' = data
  BY DEF Iterate, tableVars
<1>2. Stands([list |-> l, i |-> Seek(data, 1), count |-> 0], data)
  BY IInvTypes, NewStands
<1>3. /\ AllStand(ranges, data) /\ hasNurseryMemory = registered /\ registered \in BOOLEAN
      /\ \A s \in Iterators : ranges[s].list = "nursery" => registered
  BY DEF IInv, RangesOK
<1>4. /\ DOMAIN ranges' = Iterators /\ ranges'[r] = [list |-> l, i |-> Seek(data, 1), count |-> 0]
      /\ \A s \in Iterators : s # r => ranges'[s] = ranges[s]
  BY <1>1, <1>3 DEF AllStand
<1>5. AllStand(ranges', data)
  BY <1>2, <1>3, <1>4 DEF AllStand
<1>6. hasNurseryMemory' = registered' /\ registered' \in BOOLEAN
      /\ (registered => registered') /\ (l = "nursery" => registered')
  BY <1>1, <1>3
<1>7. ranges'[r].list = l
  BY <1>4
<1>8. \A s \in Iterators : ranges'[s].list = "nursery" => registered'
  BY <1>3, <1>4, <1>6, <1>7
<1>9. RangesOK'
  BY <1>1, <1>5, <1>6, <1>8 DEF RangesOK
<1> QED
  BY <1>1, <1>9, OnlyRanges

\* One Range becomes another, or none, where it is.
LEMMA OneRange ==
  ASSUME IInv, NEW r \in Iterators, NEW range,
         ranges' = [ranges EXCEPT ![r] = range],
         range \in {NoRange, DoneRange} \/ Stands(range, data),
         range.list = "nursery" => ranges[r].list = "nursery",
         UNCHANGED <<tableVars, gcVars, memoryVars>>
  PROVE  IInv'
<1>1. /\ AllStand(ranges, data) /\ hasNurseryMemory = registered /\ registered \in BOOLEAN
      /\ \A s \in Iterators : ranges[s].list = "nursery" => registered
  BY DEF IInv, RangesOK
<1>2. /\ DOMAIN ranges' = Iterators /\ ranges'[r] = range
      /\ \A s \in Iterators : s # r => ranges'[s] = ranges[s]
  BY <1>1 DEF AllStand
<1>3. AllStand(ranges', data)
  BY <1>1, <1>2 DEF AllStand
<1>4. \A s \in Iterators : ranges'[s].list = "nursery" => registered
  BY <1>1, <1>2
<1>5. data' = data /\ registered' = registered /\ hasNurseryMemory' = hasNurseryMemory
  BY DEF tableVars, memoryVars
<1>6. RangesOK'
  BY <1>1, <1>3, <1>4, <1>5 DEF RangesOK
<1> QED
  BY <1>6, OnlyRanges

LEMMA NoLists == DoneRange.list = "done" /\ NoRange.list = "none"
BY DEF DoneRange, NoRange

\* A Range on a list stands in the vector.
LEMMA OnListStands ==
  ASSUME IInv, NEW r \in Iterators, OnList(r)
  PROVE  Stands(ranges[r], data) /\ ranges[r].list \in Lists
BY NoLists DEF OnList, Lists, IInv, RangesOK, AllStand

LEMMA IteratorNextIInv ==
  ASSUME IInv, NEW r \in Iterators, IteratorNext(r)
  PROVE  IInv'
<1>1. UNCHANGED <<tableVars, gcVars, memoryVars>>
  BY DEF IteratorNext
<1>2. CASE UNCHANGED ranges
  <2>1. RangesOK'
    BY <1>1, <1>2 DEF IInv, RangesOK, tableVars, memoryVars
  <2> QED
    BY <1>1, <2>1, OnlyRanges
<1>3. CASE ranges' = [ranges EXCEPT ![r] = DoneRange]
  BY <1>1, <1>3, NoLists, OneRange
<1>4. CASE OnList(r) /\ ranges[r].i <= Len(data) /\ ranges' = [ranges EXCEPT ![r] = PopFront(@)]
  <2>1. Stands(PopFront(ranges[r]), data) /\ PopFront(ranges[r]).list = ranges[r].list
    BY <1>4, IInvTypes, OnListStands, PoppedStands
  <2>2. ranges' = [ranges EXCEPT ![r] = PopFront(ranges[r])]
    BY <1>4
  <2> QED
    BY <1>1, <2>1, <2>2, OneRange
<1> QED
  BY <1>2, <1>3, <1>4 DEF IteratorNext

LEMMA FinalizeIInv ==
  ASSUME IInv, NEW r \in Iterators, Finalize(r)
  PROVE  IInv'
<1>1. ranges' = [ranges EXCEPT ![r] = NoRange] /\ UNCHANGED <<tableVars, gcVars, memoryVars>>
  BY DEF Finalize
<1> QED
  BY <1>1, NoLists, OneRange

\* Other hash codes, with the chains that lead by them.
LEMMA OnlyHashes ==
  ASSUME IInv, hash' \in [Keys -> Hashes],
         ChainsLead(data, hashTable', hashBuckets, hash'),
         UNCHANGED <<data, hashBuckets, liveCount>>
  PROVE  TableOK'
BY DEF IInv, TableOK, TableIs

LEMMA NewKeyIInv ==
  ASSUME IInv, NEW k \in ObjectKeys, NEW h \in Hashes, NewKey(k, h)
  PROVE  IInv'
<1> USE IInvTypes
<1>1. /\ lookup(k) = 0 /\ young' = young \cup {k} /\ hash' = [hash EXCEPT ![k] = h]
      /\ UNCHANGED <<data, hashTable, hashBuckets, liveCount, ranges, mapYoung, nurseryKeys,
                     hasNurseryMemory, registered>>
  BY DEF NewKey, tableVars, memoryVars
<1>2. k \in Keys
  BY TableAssumption
<1>3. \A i \in LiveEntries(data) : data[i] # k /\ data[i] \in Keys /\ hash'[data[i]] = hash[data[i]]
  <2> TAKE i \in LiveEntries(data)
  <2>1. data[i] # k
    BY <1>1, <1>2, LookupFinds
  <2>2. data[i] \in Keys
    BY LiveEntriesAre DEF Data
  <2> QED
    BY <1>1, <2>1, <2>2
<1>4. hash' \in [Keys -> Hashes]
  BY <1>1
<1>5. ChainsLead(data, hashTable', hashBuckets, hash')
  <2>1. ChainsLead(data, hashTable, hashBuckets, hash)
    BY DEF IInv, TableOK, TableIs
  <2>2. \A i \in LiveEntries(data) : i \in ToSet(hashTable[Bucket(hash'[data[i]], hashBuckets)])
    BY <1>3, <2>1 DEF ChainsLead
  <2>3. ChainsLead(data, hashTable, hashBuckets, hash')
    BY <2>1, <2>2 DEF ChainsLead
  <2> QED
    BY <1>1, <2>3
<1>6. TableOK'
  BY <1>1, <1>4, <1>5, OnlyHashes
<1>7. GCOK'
  <2>1. mapYoung \in BOOLEAN /\ young \subseteq ObjectKeys /\ nurseryKeys \subseteq young
        /\ (~mapYoung => Recorded(data))
    BY DEF IInv, GCOK
  <2> QED
    BY <1>1, <1>3, <1>4, <2>1 DEF GCOK, Recorded
<1>8. RangesOK'
  BY <1>1 DEF IInv, RangesOK
<1> QED
  BY <1>6, <1>7, <1>8 DEF IInv

\* The keys that a collection moves.
LEMMA RehashedIs ==
  ASSUME hash \in [Keys -> Hashes], NEW K, K \subseteq Keys, NEW h \in [K -> Hashes]
  PROVE  /\ Rehashed(h) \in [Keys -> Hashes]
         /\ \A k \in Keys : k \notin K => Rehashed(h)[k] = hash[k]
BY DEF Rehashed

\* The entries of the keys in K get chains for their new hash codes, if no other
\* key has a new one.
LEMMA RekeyedTable ==
  ASSUME IInv, NEW K, K \subseteq Keys, hash' \in [Keys -> Hashes],
         \A i \in LiveEntries(data) : data[i] \notin K => hash'[data[i]] = hash[data[i]],
         hashTable' = Rekey(EntriesOf(K), hash'),
         UNCHANGED <<data, hashBuckets, liveCount>>
  PROVE  TableOK'
<1> USE IInvTypes
<1> DEFINE moved == EntriesOf(K)
<1>1. moved \subseteq LiveEntries(data)
  BY LookupFinds DEF EntriesOf
<1>2. \A i \in LiveEntries(data) : data[i] \in K => i \in moved
  <2> TAKE i \in LiveEntries(data)
  <2> HAVE data[i] \in K
  <2>1. lookup(data[i]) = i /\ i # 0
    BY LookupFinds
  <2> QED
    BY <2>1 DEF EntriesOf
<1>3. \A i \in LiveEntries(data) : hash'[data[i]] \in Hashes
  <2>1. \A i \in LiveEntries(data) : data[i] \in Keys
    BY LiveEntriesAre DEF Data
  <2> QED
    BY <2>1
<1> HIDE DEF moved
<1>4. ChainsLead(data, hashTable, hashBuckets, hash)
  BY DEF IInv, TableOK, TableIs
<1>5. \A i \in LiveEntries(data) \ moved : hash'[data[i]] = hash[data[i]]
  BY <1>2
<1>6. ChainsLead(data, Rekey(moved, hash'), hashBuckets, hash')
  BY <1>1, <1>3, <1>4, <1>5, RekeyLeads
<1> QED
  BY <1>6, OnlyHashes DEF moved

\* The Ranges after the nursery was emptied.
LEMMA SurvivorsStand ==
  ASSUME IInv, NEW dead \in SUBSET Iterators, \A r \in dead : ranges[r].list = "nursery"
  PROVE  /\ AllStand(RangesAfterMinorGC(dead), data)
         /\ \A r \in Iterators :
              IF r \in dead THEN RangesAfterMinorGC(dead)[r] = NoRange
              ELSE /\ RangesAfterMinorGC(dead)[r].list # "nursery"
                   /\ ranges[r].list \notin Lists => RangesAfterMinorGC(dead)[r] = ranges[r]
                   /\ ranges[r].list \in Lists =>
                        /\ RangesAfterMinorGC(dead)[r].list = "malloc"
                        /\ RangesAfterMinorGC(dead)[r].count = ranges[r].count
<1> DEFINE new == RangesAfterMinorGC(dead)
<1>1. /\ DOMAIN new = Iterators
      /\ \A r \in dead : new[r] = NoRange
      /\ \A r \in Iterators \ dead :
           new[r] = IF ranges[r].list = "nursery" THEN [ranges[r] EXCEPT !.list = "malloc"]
                    ELSE ranges[r]
  BY DEF IInv, RangesOK, RangesAfterMinorGC
<1>2. \A r \in Iterators : ranges[r] \in {NoRange, DoneRange} \/ Stands(ranges[r], data)
  BY DEF IInv, RangesOK, AllStand
<1> HIDE DEF new
<1>3. ASSUME NEW r \in Iterators \ dead, ranges[r].list = "nursery"
      PROVE  Stands(new[r], data) /\ new[r].list = "malloc" /\ new[r].count = ranges[r].count
  <2>1. Stands(ranges[r], data)
    BY <1>2, <1>3, NoLists
  <2>2. ranges[r] \in [list : Lists, i : 1..(Len(data) + 1), count : Nat] /\ "malloc" \in Lists
    BY <2>1 DEF Stands, Lists
  <2>3. new[r] = [ranges[r] EXCEPT !.list = "malloc"]
    BY <1>1, <1>3
  <2>4. new[r] \in [list : Lists, i : 1..(Len(data) + 1), count : Nat]
        /\ new[r].list = "malloc" /\ new[r].i = ranges[r].i /\ new[r].count = ranges[r].count
    BY <2>2, <2>3
  <2> QED
    BY <2>1, <2>4 DEF Stands
<1>4. ASSUME NEW r \in Iterators \ dead, ranges[r].list # "nursery"
      PROVE  /\ new[r] = ranges[r]
             /\ ranges[r].list \in Lists => ranges[r].list = "malloc"
  BY <1>1, <1>4 DEF Lists
<1>5. AllStand(new, data)
  BY <1>1, <1>2, <1>3, <1>4 DEF AllStand
<1>6. "nursery" \in Lists
  BY DEF Lists
<1> QED
  BY <1>1, <1>3, <1>4, <1>5, <1>6, NoLists DEF new

LEMMA MinorGCIInv ==
  ASSUME IInv, NEW dead \in SUBSET Iterators, NEW h \in [young -> Hashes], MinorGC(dead, h)
  PROVE  IInv'
<1> USE IInvTypes
<1> DEFINE K == IF mapYoung THEN young ELSE nurseryKeys
<1>1. /\ \A r \in dead : ranges[r].list = "nursery"
      /\ ranges' = RangesAfterMinorGC(dead) /\ hash' = Rehashed(h)
      /\ hashTable' = Rekey(EntriesOf(K), hash')
      /\ young' = {} /\ mapYoung' = FALSE /\ nurseryKeys' = {}
      /\ hasNurseryMemory' = IF registered THEN FALSE ELSE hasNurseryMemory
      /\ registered' = FALSE /\ UNCHANGED <<data, hashBuckets, liveCount>>
  BY DEF MinorGC, NurseryMemoryAfterSweep
<1>2. /\ young \subseteq Keys /\ nurseryKeys \subseteq young /\ mapYoung \in BOOLEAN
      /\ ~mapYoung => Recorded(data)
  BY TableAssumption DEF IInv, GCOK
<1>3. /\ Rehashed(h) \in [Keys -> Hashes]
      /\ \A k \in Keys : k \notin young => Rehashed(h)[k] = hash[k]
  BY <1>2, RehashedIs
<1>4. \A i \in LiveEntries(data) : data[i] \in Keys
  BY LiveEntriesAre DEF Data
<1>5. K \subseteq Keys /\ \A i \in LiveEntries(data) : data[i] \notin K => data[i] \notin young
  BY <1>2 DEF Recorded
<1> HIDE DEF K
<1>6. TableOK'
  BY <1>1, <1>3, <1>4, <1>5, RekeyedTable
<1>7. GCOK'
  BY <1>1, <1>3 DEF GCOK, Recorded
<1>8. RangesOK'
  <2>1. hasNurseryMemory = registered /\ registered \in BOOLEAN
    BY DEF IInv, RangesOK
  <2>2. \A r \in Iterators : ranges'[r].list # "nursery"
    BY <1>1, SurvivorsStand, NoLists
  <2>3. AllStand(ranges', data)
    BY <1>1, SurvivorsStand
  <2> QED
    BY <1>1, <2>1, <2>2, <2>3 DEF RangesOK
<1> QED
  BY <1>6, <1>7, <1>8 DEF IInv

LEMMA CompactingGCIInv ==
  ASSUME IInv, NEW h \in [ObjectKeys -> Hashes], CompactingGC(h)
  PROVE  IInv'
<1> USE IInvTypes
<1> DEFINE K == {k \in Keys : hash'[k] # hash[k]}
<1>1. /\ hash' = Rehashed(h) /\ hashTable' = Rekey(EntriesOf(K), hash')
      /\ UNCHANGED <<data, hashBuckets, liveCount, ranges, young, mapYoung, nurseryKeys,
                     hasNurseryMemory, registered>>
  BY DEF CompactingGC, memoryVars
<1>2. Rehashed(h) \in [Keys -> Hashes]
  BY TableAssumption, RehashedIs
<1>3. \A i \in LiveEntries(data) : data[i] \in Keys
  BY LiveEntriesAre DEF Data
<1>4. K \subseteq Keys /\ \A i \in LiveEntries(data) : data[i] \notin K => hash'[data[i]] = hash[data[i]]
  BY <1>3
<1> HIDE DEF K
<1>5. TableOK'
  BY <1>1, <1>2, <1>4, RekeyedTable
<1>6. GCOK' /\ RangesOK'
  BY <1>1, <1>2 DEF IInv, GCOK, Recorded, RangesOK
<1> QED
  BY <1>5, <1>6 DEF IInv

LEMMA NextIInv == IInv /\ [Next]_vars => IInv'
<1> SUFFICES ASSUME IInv, [Next]_vars PROVE IInv'
  OBVIOUS
<1>1. ASSUME NEW k \in Keys, Put(k) \/ Delete(k) PROVE IInv'
  BY <1>1, PutIInv, DeleteIInv
<1>2. CASE Clear
  BY <1>2, ClearIInv
<1>3. ASSUME NEW r \in Iterators, IteratorNext(r) \/ Finalize(r) PROVE IInv'
  BY <1>3, IteratorNextIInv, FinalizeIInv
<1>4. ASSUME NEW r \in Iterators, NEW l \in Lists, Iterate(r, l) PROVE IInv'
  BY <1>4, IterateIInv
<1>5. ASSUME NEW k \in ObjectKeys, NEW h \in Hashes, NewKey(k, h) PROVE IInv'
  BY <1>5, NewKeyIInv
<1>6. ASSUME NEW dead \in SUBSET Iterators, NEW h \in [young -> Hashes], MinorGC(dead, h)
      PROVE  IInv'
  BY <1>6, MinorGCIInv
<1>7. ASSUME NEW h \in [ObjectKeys -> Hashes], CompactingGC(h) PROVE IInv'
  BY <1>7, CompactingGCIInv
<1>8. CASE UNCHANGED vars
  <2>1. UNCHANGED <<tableVars, gcVars>> /\ UNCHANGED <<ranges, data, memoryVars>>
    BY <1>8 DEF vars, tableVars
  <2>2. RangesOK'
    BY <2>1 DEF IInv, RangesOK, memoryVars
  <2> QED
    BY <2>1, <2>2, OnlyRanges
<1> QED
  BY <1>1, <1>2, <1>3, <1>4, <1>5, <1>6, <1>7, <1>8 DEF Next

\* The inductive invariant of the table always holds: its chains lead to its
\* entries by the hash codes that their keys have now, its count is exact and it
\* has room, a map outside the nursery has recorded the keys it has there, and
\* the Ranges stand.
THEOREM IInvAlways == Spec => []IInv
<1> QED
  BY InitIInv, NextIInv, PTL DEF Spec

-----------------------------------------------------------------------------
LEMMA IInvChains == IInv => ChainsFindEntries
<1> SUFFICES ASSUME IInv PROVE ChainsFindEntries
  OBVIOUS
<1> USE IInvTypes
<1>1. ChainsLead(data, hashTable, hashBuckets, hash)
  BY DEF IInv, TableOK, TableIs
<1> DEFINE m == Len(data)
           top == hashBuckets - 1
<1>2. /\ DOMAIN hashTable = 0..top
      /\ \A b \in 0..top : hashTable[b] \in Seq(1..m) /\ Descending(hashTable[b])
      /\ \A i \in 1..m : \E b \in 0..top : \A c \in 0..top : i \in ToSet(hashTable[c]) <=> c = b
  BY <1>1 DEF ChainsLead
<1> HIDE DEF top
<1>3. ASSUME NEW i \in 1..m
      PROVE  \E b \in DOMAIN hashTable :
               \A c \in DOMAIN hashTable : Contains(hashTable[c], i) <=> c = b
  <2>1. \A c \in 0..top : Contains(hashTable[c], i) <=> i \in ToSet(hashTable[c])
    BY DEF Contains, ToSet
  <2>2. PICK b \in 0..top : \A c \in 0..top : i \in ToSet(hashTable[c]) <=> c = b
    BY <1>2
  <2>3. \A c \in 0..top : Contains(hashTable[c], i) <=> c = b
    BY <2>1, <2>2
  <2>4. DOMAIN hashTable = 0..top
    BY <1>2
  <2> QED
    BY <2>3, <2>4, Zenon
<1>4. ASSUME NEW i \in 1..m, IsLive(data[i]) PROVE lookup(data[i]) = i
  <2>1. i \in LiveEntries(data)
    BY <1>4 DEF LiveEntries
  <2>2. data[i] \in Keys
    BY <2>1, LiveEntriesAre DEF Data
  <2> QED
    BY <2>1, <2>2, LookupFinds
<1>5. ASSUME NEW b \in DOMAIN hashTable, NEW p \in DOMAIN hashTable[b]
      PROVE  /\ hashTable[b][p] \in 1..m
             /\ p > 1 => hashTable[b][p] < hashTable[b][p - 1]
  <2>1. hashTable[b] \in Seq(1..m) /\ Descending(hashTable[b])
    BY <1>2
  <2>2. /\ Len(hashTable[b]) \in Nat /\ DOMAIN hashTable[b] = 1..Len(hashTable[b])
        /\ hashTable[b][p] \in 1..m
    BY <2>1
  <2>3. p > 1 => p - 1 \in DOMAIN hashTable[b] /\ p - 1 < p
    BY <2>2
  <2> QED
    BY <2>1, <2>2, <2>3 DEF Descending
<1> QED
  BY <1>3, <1>4, <1>5 DEF ChainsFindEntries

\* The chains and the vector agree: every nonempty entry is found, and only
\* once, through all growing, shrinking, compaction and moving of keys.
THEOREM ChainsAlwaysFindEntries == Spec => []ChainsFindEntries
<1> QED
  BY IInvAlways, IInvChains, PTL

LEMMA IInvRanges == IInv => RangesExact
<1> SUFFICES ASSUME IInv, NEW r \in Iterators
             PROVE  /\ ranges[r] # Dangling
                    /\ OnList(r) =>
                         /\ ranges[r].i \in 1..(Len(data) + 1)
                         /\ ranges[r].i \in DOMAIN data => IsLive(data[ranges[r].i])
                         /\ ranges[r].count = Before(LiveEntries(data), ranges[r].i)
  BY DEF RangesExact
<1>1. Dangling.list = "dangling" /\ Dangling.list \notin Lists
  BY DEF Dangling, Lists
<1>2. ranges[r] \in {NoRange, DoneRange} \/ Stands(ranges[r], data)
  BY DEF IInv, RangesOK, AllStand
<1>3. Stands(ranges[r], data) => ranges[r].list \in Lists
  BY DEF Stands
<1>4. ranges[r] # Dangling
  BY <1>1, <1>2, <1>3, NoLists
<1>5. ASSUME OnList(r)
      PROVE  /\ ranges[r].i \in 1..(Len(data) + 1)
             /\ ranges[r].i \in DOMAIN data => IsLive(data[ranges[r].i])
             /\ ranges[r].count = Before(LiveEntries(data), ranges[r].i)
  <2>1. Stands(ranges[r], data)
    BY <1>5, OnListStands
  <2>2. ranges[r].i \in 1..Len(data) => IsLive(data[ranges[r].i])
    BY <2>1 DEF Stands, LiveEntries
  <2> QED
    BY <2>1, <2>2, IInvTypes DEF Stands
<1> QED
  BY <1>4, <1>5

\* Ranges stay exact: each live one stands at a nonempty entry or at the end and
\* counts the nonempty entries before it, and no list leads to freed memory.
THEOREM RangesStayExact == Spec => []RangesExact
<1> QED
  BY IInvAlways, IInvRanges, PTL

-----------------------------------------------------------------------------
(* The table implements the collection.                                    *)

\* The iterators of the collection, for the Ranges of a table.
Iters(rs) == [r \in Iterators |-> IterOf(rs[r])]

LEMMA IterIs ==
  /\ \A range : range.list \in Lists => IterOf(range) = Abstract!At(range.count)
  /\ IterOf(NoRange) = Abstract!Unused /\ IterOf(DoneRange) = Abstract!Done
  /\ \A n : Abstract!At(n).state = "live" /\ Abstract!At(n).passed = n
  /\ Abstract!Unused.state # "live" /\ Abstract!Done.state # "live"
  /\ Abstract!Unused # Abstract!Done
  /\ \A n : Abstract!At(n) # Abstract!Unused
BY DEF IterOf, Abstract!At, Abstract!Unused, Abstract!Done, NoRange, DoneRange, Lists

\* Ranges that stay on their lists with their counts stand for the same iterators.
LEMMA SameIters ==
  ASSUME NEW rs, NEW new,
         \A r \in Iterators : /\ new[r].list = rs[r].list
                              /\ rs[r].list \in Lists => new[r].count = rs[r].count
  PROVE  Iters(new) = Iters(rs)
BY DEF Iters, IterOf

\* Both modules use the same operators on sequences.
LEMMA SameSequences ==
  /\ \A s, k : Abstract!Contains(s, k) <=> Contains(s, k)
  /\ \A s, p : Abstract!RemoveAt(s, p) = RemoveAt(s, p)
BY DEF Abstract!Contains, Contains, Abstract!RemoveAt, RemoveAt

LEMMA PutImplements ==
  ASSUME IInv, NEW k \in Keys, Put(k)
  PROVE  Abstract!APut(k)
<1> USE IInvTypes
<1> DEFINE s == Live(data)
<1>1. k # NoKey /\ k \in Data
  BY TableAssumption DEF Data
<1>2. Contains(s, k) <=> lookup(k) # 0
  <2>1. Contains(s, k) <=> \E i \in DOMAIN data : data[i] = k
    BY <1>1, ContainsLive
  <2>2. \A i \in DOMAIN data : data[i] = k => i \in LiveEntries(data)
    BY <1>1, LiveEntriesAre
  <2> QED
    BY <2>1, <2>2, LookupFinds
<1>3. AllStand(ranges, data)
  BY DEF IInv, RangesOK
<1> HIDE DEF s
<1>4. ASSUME UNCHANGED <<tableVars, ranges>> PROVE Live(data)' = s /\ Iters(ranges') = Iters(ranges)
  BY <1>4 DEF tableVars, s, Live, LiveEntries
<1>5. \/ /\ Contains(s, k) /\ returned' = NoKey
         /\ Live(data)' = s /\ Iters(ranges') = Iters(ranges)
      \/ /\ ~Contains(s, k) /\ returned' = NoKey
         /\ Live(data)' = Append(s, k) /\ Iters(ranges') = Iters(ranges)
      \/ /\ ~Contains(s, k) /\ returned' = OutOfMemory
         /\ Live(data)' = s /\ Iters(ranges') = Iters(ranges)
  <2>1. CASE lookup(k) # 0 /\ returned' = NoKey /\ UNCHANGED <<tableVars, ranges>>
    BY <1>2, <1>4, <2>1
  <2>2. CASE /\ lookup(k) = 0 /\ PutEntry(k, data, hashTable, hashBuckets) /\ UNCHANGED ranges
    <3>1. data' = Append(data, k) /\ returned' = NoKey
      BY <2>2 DEF PutEntry
    <3>2. Live(data') = Append(s, k)
      BY <1>1, <3>1, LiveOfAppend DEF s
    <3> QED
      BY <1>2, <2>2, <3>1, <3>2
  <2>3. CASE /\ lookup(k) = 0
             /\ PutEntry(k, Live(data), ChainsOf(Live(data), PutBuckets), PutBuckets)
             /\ ranges' = CompactAll(ranges)
    <3>1. data' = Append(s, k) /\ returned' = NoKey
      BY <2>3 DEF PutEntry, s
    <3>2. s \in Seq(Data) /\ Live(s) = s
      BY CompactedIs DEF s
    <3>3. Live(data') = Append(s, k)
      BY <1>1, <3>1, <3>2, LiveOfAppend
    <3>4. \A r \in Iterators : /\ CompactAll(ranges)[r].list = ranges[r].list
                               /\ ranges[r].list \in Lists => CompactAll(ranges)[r].count = ranges[r].count
      BY <1>3, AllCompacted
    <3>5. Iters(ranges') = Iters(ranges)
      BY <2>3, <3>4, SameIters
    <3> QED
      BY <1>2, <2>3, <3>1, <3>3, <3>5
  <2>4. CASE lookup(k) = 0 /\ returned' = OutOfMemory /\ UNCHANGED <<tableVars, ranges>>
    BY <1>2, <1>4, <2>4
  <2> QED
    BY <2>1, <2>2, <2>3, <2>4 DEF Put, CompactAll
<1> QED
  BY <1>5, SameSequences DEF Abstract!APut, s, Iters

\* An entry is before the place of a Range if the Range has counted it.
LEMMA CountedIfPassed ==
  ASSUME NEW n \in Nat, NEW S \in IndexSets(n), NEW j \in S, NEW i \in 1..(n + 1)
  PROVE  j < i <=> Before(S, j) + 1 <= Before(S, i)
<1>1. j \in Nat /\ i \in Nat /\ Before(S, j) \in Nat /\ Before(S, i) \in Nat
  BY IndexIs, BeforeType
<1>2. ASSUME j < i PROVE Before(S, j) + 1 <= Before(S, i)
  <2>1. Before(S, j) < Before(S, i)
    BY <1>1, <1>2, BeforeGrows
  <2> QED
    BY <1>1, <2>1
<1>3. ASSUME i <= j PROVE Before(S, i) <= Before(S, j)
  <2>1. {l \in S : l < i} \subseteq {l \in S : l < j} /\ {l \in S : l < j} \subseteq S
    <3>1. \A l \in S : l \in Nat
      BY IndexIs
    <3>2. \A l \in S : l < i => l < j
      BY <1>1, <1>3, <3>1
    <3> QED
      BY <3>2
  <2>2. IsFiniteSet({l \in S : l < j})
    BY <2>1, BeforeType, FS_Subset
  <2> QED
    BY <2>1, <2>2, FS_Subset DEF Before
<1> QED
  BY <1>1, <1>2, <1>3

\* The iterators that have passed the removed key have passed one key less.
LEMMA RemovedIters ==
  ASSUME NEW d \in Seq(Data), NEW e \in Seq(Data), NEW j \in LiveEntries(d),
         Len(e) = Len(d), \A i \in 1..Len(d) : e[i] = IF i = j THEN NoKey ELSE d[i],
         NEW rs, AllStand(rs, d), NEW p, p = Before(LiveEntries(d), j) + 1
  PROVE  Iters(RemoveAll(rs, e, j)) =
           [r \in Iterators |->
              IF Iters(rs)[r].state = "live" /\ p <= Iters(rs)[r].passed
              THEN Abstract!At(Iters(rs)[r].passed - 1) ELSE Iters(rs)[r]]
<1> DEFINE told == RemoveAll(rs, e, j)
           old == Iters(rs)
<1>1. \A r \in Iterators :
        /\ told[r].list = rs[r].list
        /\ rs[r].list \in Lists =>
             told[r].count = IF j < rs[r].i THEN rs[r].count - 1 ELSE rs[r].count
  BY AllRemoved
<1>2. /\ Iters(told) = [r \in Iterators |-> IterOf(told[r])]
      /\ old = [r \in Iterators |-> IterOf(rs[r])]
  BY DEF Iters
<1> HIDE DEF told, old
<1>3. ASSUME NEW r \in Iterators
      PROVE  IterOf(told[r]) = IF old[r].state = "live" /\ p <= old[r].passed
                               THEN Abstract!At(old[r].passed - 1) ELSE old[r]
  <2>1. old[r] = IterOf(rs[r])
    BY <1>2
  <2>2. CASE rs[r].list \in Lists
    <3>1. Stands(rs[r], d)
      BY <2>2, NoLists DEF AllStand, Lists
    <3>2. rs[r].i \in 1..(Len(d) + 1) /\ rs[r].count = Before(LiveEntries(d), rs[r].i)
      BY <3>1 DEF Stands
    <3>3. j < rs[r].i <=> p <= rs[r].count
      BY <3>2, CountedIfPassed, LiveEntriesAre
    <3>4. old[r] = Abstract!At(rs[r].count) /\ old[r].state = "live" /\ old[r].passed = rs[r].count
      BY <2>1, <2>2, IterIs
    <3>5. IterOf(told[r]) = Abstract!At(told[r].count)
      BY <1>1, <2>2, IterIs
    <3> QED
      BY <1>1, <2>2, <3>3, <3>4, <3>5
  <2>3. CASE rs[r].list \notin Lists
    <3>1. rs[r] \in {NoRange, DoneRange}
      BY <2>3 DEF AllStand, Stands
    <3>2. old[r].state # "live"
      BY <2>1, <3>1, IterIs
    <3>3. IterOf(told[r]) = IterOf(rs[r])
      BY <1>1, <2>3 DEF IterOf
    <3> QED
      BY <2>1, <3>2, <3>3
  <2> QED
    BY <2>2, <2>3
<1> QED
  BY <1>2, <1>3 DEF told, old

LEMMA DeleteImplements ==
  ASSUME IInv, NEW k \in Keys, Delete(k)
  PROVE  Abstract!ARemove(k)
<1> USE IInvTypes
<1> DEFINE j == lookup(k)
           e == [data EXCEPT ![j] = NoKey]
           told == RemoveAll(ranges, e, j)
           half == hashBuckets \div 2
           s == Live(data)
           p == Before(LiveEntries(data), j) + 1
           old == Iters(ranges)
           new == [r \in Iterators |-> IF old[r].state = "live" /\ p <= old[r].passed
                                       THEN Abstract!At(old[r].passed - 1) ELSE old[r]]
<1>1. k # NoKey /\ k \in Data
  BY TableAssumption DEF Data
<1>2. ASSUME j = 0, returned' = NoKey, UNCHANGED <<tableVars, ranges>>
      PROVE  Abstract!ARemove(k)
  <2>1. ~Contains(s, k)
    <3>1. Contains(s, k) <=> \E i \in DOMAIN data : data[i] = k
      BY <1>1, ContainsLive
    <3>2. \A i \in DOMAIN data : data[i] = k => i \in LiveEntries(data)
      BY <1>1, LiveEntriesAre
    <3> QED
      BY <1>2, <3>1, <3>2, LookupFinds
  <2>2. Live(data)' = s /\ ranges' = ranges
    BY <1>2 DEF tableVars, Live, LiveEntries
  <2> HIDE DEF s
  <2> QED
    BY <1>2, <2>1, <2>2, SameSequences DEF Abstract!ARemove, s
<1>3. ASSUME j # 0
      PROVE  /\ e \in Seq(Data) /\ KeysDiffer(e) /\ Live(e) = RemoveAt(s, p)
             /\ p \in DOMAIN s /\ s[p] = k
             /\ AllStand(told, e) /\ Iters(told) = new
  <2>1. j \in LiveEntries(data) /\ data[j] = k
    BY <1>3, LookupFinds
  <2>2. TableIs(data, hashTable, hashBuckets, hash, liveCount) /\ AllStand(ranges, data)
    BY DEF IInv, TableOK, RangesOK
  <2>3. p \in DOMAIN s /\ s[p] = k
    BY <2>1, LiveIs
  <2> HIDE DEF j
  <2>4. /\ TableIs(e, hashTable, hashBuckets, hash, liveCount - 1)
        /\ e \in Seq(Data) /\ Len(e) = Len(data)
        /\ \A i \in 1..Len(data) : e[i] = IF i = j THEN NoKey ELSE data[i]
    BY <2>1, <2>2, EmptiedTable
  <2> HIDE DEF e
  <2>5. Live(e) = RemoveAt(s, p)
    BY <2>1, <2>4, LiveWithout
  <2>6. AllStand(told, e)
    BY <2>1, <2>2, <2>4, AllRemoved
  <2>7. KeysDiffer(e)
    BY <2>4 DEF TableIs
  <2>8. Iters(told) = new
    BY <2>1, <2>2, <2>4, RemovedIters
  <2> QED
    BY <2>3, <2>4, <2>5, <2>6, <2>7, <2>8
<1> HIDE DEF j, e, told, s, p, old, new
<1>4. ASSUME j # 0, returned' \in {k, OutOfMemory}, Live(data)' = RemoveAt(s, p),
             Iters(ranges') = new
      PROVE  Abstract!ARemove(k)
  <2>1. p \in DOMAIN s /\ s[p] = k
    BY <1>3, <1>4
  <2> QED
    BY <1>4, <2>1, SameSequences DEF Abstract!ARemove, s, new, old, Iters
<1>5. ASSUME j # 0, data' = e, ranges' = told, returned' \in {k, OutOfMemory}
      PROVE  Abstract!ARemove(k)
  <2>1. Live(data') = RemoveAt(s, p) /\ Iters(ranges') = new
    BY <1>3, <1>5
  <2> QED
    BY <1>4, <1>5, <2>1
<1>6. ASSUME j # 0, data' = Live(e), ranges' = CompactAll(told), returned' = k
      PROVE  Abstract!ARemove(k)
  <2>1. Live(Live(e)) = Live(e) /\ Live(e) = RemoveAt(s, p)
    BY <1>3, <1>6, CompactedIs
  <2>2. Live(data') = RemoveAt(s, p)
    BY <1>6, <2>1
  <2>3. \A r \in Iterators : /\ CompactAll(told)[r].list = told[r].list
                             /\ told[r].list \in Lists => CompactAll(told)[r].count = told[r].count
    BY <1>3, <1>6, AllCompacted
  <2>4. Iters(ranges') = new
    BY <1>3, <1>6, <2>3, SameIters
  <2> QED
    BY <1>4, <1>6, <2>2, <2>4
<1> QED
  BY <1>2, <1>5, <1>6 DEF Delete, RemoveAll, CompactAll, j, e, told, half

LEMMA ClearImplements ==
  ASSUME IInv, Clear
  PROVE  Abstract!AClear
<1> USE IInvTypes
<1> DEFINE s == Live(data)
           old == Iters(ranges)
           new == [r \in Iterators |-> IF old[r].state = "live" THEN Abstract!At(0) ELSE old[r]]
<1>1. LiveEntries(<<>>) = {} /\ Live(<<>>) = <<>> /\ \A i : Before({}, i) = 0
  <2>1. LiveEntries(<<>>) = {}
    BY DEF LiveEntries
  <2>2. <<>> \in Seq(Data) /\ \A i \in DOMAIN <<>> : <<>>[i] # NoKey
    OBVIOUS
  <2>3. Live(<<>>) = <<>>
    BY <2>2, LiveOfLive
  <2>4. ASSUME NEW i PROVE Before({}, i) = 0
    <3>1. {j \in {} : j < i} = {}
      OBVIOUS
    <3> QED
      BY <3>1, FS_EmptySet DEF Before
  <2> QED
    BY <2>1, <2>3, <2>4
<1>2. AllStand(ranges, data)
  BY DEF IInv, RangesOK
<1>3. \A r \in Iterators :
        IF ranges[r].list \in Lists
        THEN old[r] = Abstract!At(ranges[r].count) /\ old[r].state = "live"
        ELSE old[r].state # "live"
  <2> TAKE r \in Iterators
  <2>1. old[r] = IterOf(ranges[r])
    BY DEF Iters
  <2>2. ranges[r].list \notin Lists => ranges[r] \in {NoRange, DoneRange}
    BY <1>2 DEF AllStand, Stands
  <2> QED
    BY <2>1, <2>2, IterIs
<1>4. ASSUME NEW rs, \A r \in Iterators : /\ rs[r].list = ranges[r].list
                                          /\ ranges[r].list \in Lists => rs[r].count = 0
      PROVE  Iters(rs) = new
  <2>1. ASSUME NEW r \in Iterators PROVE IterOf(rs[r]) = new[r]
    <3>1. CASE ranges[r].list \in Lists
      BY <1>3, <1>4, <3>1, IterIs
    <3>2. CASE ranges[r].list \notin Lists
      <4>1. old[r] = IterOf(ranges[r]) /\ new[r] = old[r]
        BY <1>3, <3>2 DEF Iters
      <4> QED
        BY <1>4, <3>2, <4>1 DEF IterOf
    <3> QED
      BY <3>1, <3>2
  <2> HIDE DEF old
  <2> QED
    BY <2>1 DEF Iters
<1> HIDE DEF s, old, new
<1>5. ASSUME data' = <<>>, Iters(ranges') = new, returned' = NoKey PROVE Abstract!AClear
  <2>1. Live(data)' = <<>>
    BY <1>1, <1>5
  <2> QED
    BY <1>5, <2>1 DEF Abstract!AClear, new, old, Iters
<1>6. CASE data' = <<>> /\ ranges' = ClearAll(ranges) /\ returned' = NoKey
  <2>1. \A r \in Iterators : /\ ClearAll(ranges)[r].list = ranges[r].list
                             /\ ranges[r].list \in Lists => ClearAll(ranges)[r].count = 0
    BY <1>2, AllCleared
  <2>2. Iters(ranges') = new
    BY <1>4, <1>6, <2>1
  <2> QED
    BY <1>5, <1>6, <2>2
<1>7. CASE data = <<>> /\ returned' = NoKey /\ UNCHANGED <<tableVars, ranges>>
  <2>1. \A r \in Iterators : ranges[r].list \in Lists => ranges[r].count = 0
    <3> TAKE r \in Iterators
    <3> HAVE ranges[r].list \in Lists
    <3>1. Stands(ranges[r], data)
      BY <1>2, NoLists DEF AllStand, Lists
    <3> QED
      BY <1>1, <1>7, <3>1 DEF Stands
  <2>2. Iters(ranges) = new
    BY <1>4, <2>1
  <2>3. data' = <<>> /\ ranges' = ranges
    BY <1>7 DEF tableVars
  <2> QED
    BY <1>5, <1>7, <2>2, <2>3
<1>8. CASE returned' = OutOfMemory /\ UNCHANGED <<tableVars, ranges>>
  <2>1. Live(data)' = Live(data) /\ Iters(ranges)' = Iters(ranges)
    BY <1>8 DEF tableVars
  <2> QED
    BY <1>8, <2>1 DEF Abstract!AClear, Iters
<1> QED
  BY <1>6, <1>7, <1>8 DEF Clear, ClearAll

\* One Range becomes another where it is.
LEMMA OneIter ==
  ASSUME DOMAIN ranges = Iterators, NEW r \in Iterators, NEW range,
         ranges' = [ranges EXCEPT ![r] = range]
  PROVE  Iters(ranges') = [Iters(ranges) EXCEPT ![r] = IterOf(range)]
BY DEF Iters

\* What an iterator is to the program.
LEMMA IterStateIs ==
  ASSUME IInv, NEW r \in Iterators
  PROVE  /\ DOMAIN ranges = Iterators
         /\ Iters(ranges)[r] = IterOf(ranges[r])
         /\ ranges[r] = NoRange => Iters(ranges)[r] = Abstract!Unused
         /\ ranges[r] = DoneRange => Iters(ranges)[r] = Abstract!Done
         /\ OnList(r) => Iters(ranges)[r] = Abstract!At(ranges[r].count)
<1>1. DOMAIN ranges = Iterators
  BY DEF IInv, RangesOK, AllStand
<1>2. Iters(ranges)[r] = IterOf(ranges[r])
  BY DEF Iters
<1> QED
  BY <1>1, <1>2, IterIs DEF OnList

LEMMA IterateImplements ==
  ASSUME IInv, NEW r \in Iterators, NEW l \in Lists, Iterate(r, l)
  PROVE  Abstract!AIterate(r)
<1> DEFINE range == [list |-> l, i |-> Seek(data, 1), count |-> 0]
<1>1. /\ ranges[r] = NoRange /\ ranges' = [ranges EXCEPT ![r] = range]
      /\ data' = data /\ returned' = returned
  BY DEF Iterate, tableVars
<1>2. range.list \in Lists /\ range.count = 0
  OBVIOUS
<1> HIDE DEF range
<1>3. IterOf(range) = Abstract!At(0)
  BY <1>2, IterIs
<1>4. Iters(ranges') = [Iters(ranges) EXCEPT ![r] = Abstract!At(0)]
  <2>1. DOMAIN ranges = Iterators
    BY IterStateIs
  <2>2. Iters(ranges') = [Iters(ranges) EXCEPT ![r] = IterOf(range)]
    BY <1>1, <2>1, OneIter
  <2> QED
    BY <1>3, <2>2
<1>5. Iters(ranges)[r] = Abstract!Unused
  BY <1>1, IterStateIs
<1>6. Live(data)' = Live(data)
  BY <1>1
<1> QED
  BY <1>1, <1>4, <1>5, <1>6 DEF Abstract!AIterate, Iters

LEMMA IteratorNextImplements ==
  ASSUME IInv, NEW r \in Iterators, IteratorNext(r)
  PROVE  Abstract!ANext(r)
<1> USE IInvTypes
<1> DEFINE old == Iters(ranges)
           s == Live(data)
           n == Len(data)
           L == LiveEntries(data)
<1>1. data' = data /\ Live(data)' = s
  BY DEF IteratorNext, tableVars
<1>2. Len(s) = Cardinality(L) /\ Len(s) \in Nat
  BY LiveIs
<1> HIDE DEF s, old
<1>3. ASSUME OnList(r), returned' = s[ranges[r].count + 1], ranges[r].count < Len(s),
             Iters(ranges') = [old EXCEPT ![r] = Abstract!At(ranges[r].count + 1)]
      PROVE  Abstract!ANext(r)
  <2>1. old[r] = Abstract!At(ranges[r].count)
    BY <1>3, IterStateIs DEF old
  <2>2. old[r].state = "live" /\ old[r].passed = ranges[r].count /\ old[r] # Abstract!Unused
    BY <2>1, IterIs
  <2>3. Iters(ranges') = [old EXCEPT ![r] = Abstract!At(@.passed + 1)]
    BY <1>3, <2>2
  <2> QED
    BY <1>1, <1>3, <2>2, <2>3 DEF Abstract!ANext, old, s, Iters
<1>4. ASSUME old[r] # Abstract!Unused, old[r].state = "live" => ~(old[r].passed < Len(s)),
             returned' = NoKey, Iters(ranges') = [old EXCEPT ![r] = Abstract!Done]
      PROVE  Abstract!ANext(r)
  BY <1>1, <1>4 DEF Abstract!ANext, old, s, Iters
<1>5. CASE ranges[r] = DoneRange /\ returned' = NoKey /\ UNCHANGED ranges
  <2>1. old[r] = Abstract!Done
    BY <1>5, IterStateIs DEF old
  <2>2. Iters(ranges') = [old EXCEPT ![r] = Abstract!Done]
    BY <1>5, <2>1 DEF old, Iters
  <2> QED
    BY <1>4, <1>5, <2>1, <2>2, IterIs
<1>6. CASE /\ OnList(r) /\ ranges[r].i > n
           /\ ranges' = [ranges EXCEPT ![r] = DoneRange] /\ returned' = NoKey
  <2>1. Stands(ranges[r], data)
    BY <1>6, OnListStands
  <2>2. ranges[r].i = n + 1 /\ ranges[r].count = Before(L, ranges[r].i)
    BY <1>6, <2>1 DEF Stands
  <2>3. ranges[r].count = Len(s)
    BY <1>2, <2>2, LiveEntriesAre, BeforeEnds
  <2>4. old[r] = Abstract!At(Len(s))
    BY <1>6, <2>3, IterStateIs DEF old
  <2>5. Iters(ranges') = [old EXCEPT ![r] = Abstract!Done]
    BY <1>6, IterIs, IterStateIs, OneIter DEF old
  <2>6. old[r] # Abstract!Unused /\ old[r].passed = Len(s)
    BY <2>4, IterIs
  <2> QED
    BY <1>2, <1>4, <1>6, <2>5, <2>6
<1>7. CASE /\ OnList(r) /\ ranges[r].i <= n /\ returned' = data[ranges[r].i]
           /\ ranges' = [ranges EXCEPT ![r] = PopFront(@)]
  <2>1. Stands(ranges[r], data)
    BY <1>7, OnListStands
  <2>2. ranges[r].i \in L /\ ranges[r].count = Before(L, ranges[r].i)
    BY <1>7, <2>1 DEF Stands
  <2>3. Before(L, ranges[r].i) + 1 \in 1..Cardinality(L) /\ s[Before(L, ranges[r].i) + 1] = data[ranges[r].i]
    BY <2>2, LiveIs DEF s
  <2>4. ranges[r].count \in Nat /\ ranges[r].count < Len(s)
    BY <1>2, <2>1, <2>2, <2>3 DEF Stands
  <2>5. PopFront(ranges[r]).list \in Lists /\ PopFront(ranges[r]).count = ranges[r].count + 1
    BY <1>7, <2>1, OnListStands, PoppedStands
  <2>6. ranges' = [ranges EXCEPT ![r] = PopFront(ranges[r])]
    BY <1>7
  <2>7. Iters(ranges') = [old EXCEPT ![r] = Abstract!At(ranges[r].count + 1)]
    <3>1. DOMAIN ranges = Iterators
      BY IterStateIs
    <3>2. Iters(ranges') = [old EXCEPT ![r] = IterOf(PopFront(ranges[r]))]
      BY <2>6, <3>1, OneIter DEF old
    <3>3. IterOf(PopFront(ranges[r])) = Abstract!At(ranges[r].count + 1)
      BY <2>5, IterIs
    <3> QED
      BY <3>2, <3>3
  <2> QED
    BY <1>3, <1>7, <2>2, <2>3, <2>4, <2>7
<1> QED
  BY <1>5, <1>6, <1>7 DEF IteratorNext

\* The iterators in R are dropped.
LEMMA DroppedIters ==
  ASSUME IInv, NEW R \in SUBSET Iterators, NEW rs, \A r \in R : rs[r] = NoRange,
         \A r \in Iterators \ R : IterOf(rs[r]) = IterOf(ranges[r]),
         ranges' = rs, UNCHANGED <<data, returned>>
  PROVE  Abstract!ADrop(R)
<1>1. \A r \in Iterators : Iters(rs)[r] = IF r \in R THEN Abstract!Unused ELSE Iters(ranges)[r]
  BY IterIs DEF Iters
<1>2. Iters(ranges') = [r \in Iterators |-> IF r \in R THEN Abstract!Unused ELSE Iters(ranges)[r]]
  BY <1>1 DEF Iters
<1>3. Live(data)' = Live(data)
  OBVIOUS
<1> QED
  BY <1>2, <1>3 DEF Abstract!ADrop, Iters

LEMMA FinalizeImplements ==
  ASSUME IInv, NEW r \in Iterators, Finalize(r)
  PROVE  Abstract!ADrop({r})
<1> DEFINE rs == [ranges EXCEPT ![r] = NoRange]
<1>1. ranges' = rs /\ UNCHANGED <<data, returned>> /\ DOMAIN ranges = Iterators
  BY IterStateIs DEF Finalize, tableVars
<1>2. /\ \A s \in {r} : rs[s] = NoRange
      /\ \A s \in Iterators \ {r} : IterOf(rs[s]) = IterOf(ranges[s])
  BY <1>1
<1> HIDE DEF rs
<1> QED
  BY <1>1, <1>2, DroppedIters

LEMMA MinorGCImplements ==
  ASSUME IInv, NEW dead \in SUBSET Iterators, NEW h \in [young -> Hashes], MinorGC(dead, h)
  PROVE  Abstract!ADrop(dead)
<1> DEFINE rs == RangesAfterMinorGC(dead)
<1>1. /\ \A r \in dead : ranges[r].list = "nursery"
      /\ ranges' = rs /\ UNCHANGED <<data, returned>>
  BY DEF MinorGC
<1>2. \A r \in Iterators :
        IF r \in dead THEN rs[r] = NoRange
        ELSE /\ rs[r].list # "nursery"
             /\ ranges[r].list \notin Lists => rs[r] = ranges[r]
             /\ ranges[r].list \in Lists => rs[r].list = "malloc" /\ rs[r].count = ranges[r].count
  BY <1>1, SurvivorsStand
<1> HIDE DEF rs
<1>3. \A r \in Iterators \ dead : IterOf(rs[r]) = IterOf(ranges[r])
  <2> TAKE r \in Iterators \ dead
  <2>1. CASE ranges[r].list \in Lists
    <3>1. rs[r].list \in Lists /\ rs[r].count = ranges[r].count
      BY <1>2, <2>1 DEF Lists
    <3> QED
      BY <2>1, <3>1, IterIs
  <2>2. CASE ranges[r].list \notin Lists
    BY <1>2, <2>2
  <2> QED
    BY <2>1, <2>2
<1>4. \A r \in dead : rs[r] = NoRange
  BY <1>2
<1> QED
  BY <1>1, <1>3, <1>4, DroppedIters

\* Steps that the program does not see.
LEMMA Unseen ==
  ASSUME UNCHANGED <<data, ranges, returned>>
  PROVE  UNCHANGED Abstract!abstractVars
<1>1. Live(data)' = Live(data)
  OBVIOUS
<1> QED
  BY <1>1 DEF Abstract!abstractVars

\* Each step of the table is one of the collection, or the program does not see
\* it.
LEMMA StepImplements == IInv /\ [Next]_vars => [Abstract!ANextState]_(Abstract!abstractVars)
<1> SUFFICES ASSUME IInv, [Next]_vars
             PROVE  Abstract!ANextState \/ UNCHANGED Abstract!abstractVars
  OBVIOUS
<1>1. ASSUME NEW k \in Keys, Put(k) \/ Delete(k) PROVE Abstract!ANextState
  BY <1>1, PutImplements, DeleteImplements DEF Abstract!ANextState
<1>2. CASE Clear
  BY <1>2, ClearImplements DEF Abstract!ANextState
<1>3. ASSUME NEW r \in Iterators, IteratorNext(r) PROVE Abstract!ANextState
  BY <1>3, IteratorNextImplements DEF Abstract!ANextState
<1>4. ASSUME NEW r \in Iterators, Finalize(r) PROVE Abstract!ANextState
  <2>1. {r} \in SUBSET Iterators /\ Abstract!ADrop({r})
    BY <1>4, FinalizeImplements
  <2> QED
    BY <2>1 DEF Abstract!ANextState
<1>5. ASSUME NEW r \in Iterators, NEW l \in Lists, Iterate(r, l) PROVE Abstract!ANextState
  BY <1>5, IterateImplements DEF Abstract!ANextState
<1>6. ASSUME NEW dead \in SUBSET Iterators, NEW h \in [young -> Hashes], MinorGC(dead, h)
      PROVE  Abstract!ANextState
  BY <1>6, MinorGCImplements DEF Abstract!ANextState
<1>7. ASSUME NEW k \in ObjectKeys, NEW h \in Hashes, NewKey(k, h)
      PROVE  UNCHANGED Abstract!abstractVars
  <2>1. UNCHANGED <<data, ranges, returned>>
    BY <1>7 DEF NewKey, tableVars
  <2> QED
    BY <2>1, Unseen
<1>8. ASSUME NEW h \in [ObjectKeys -> Hashes], CompactingGC(h)
      PROVE  UNCHANGED Abstract!abstractVars
  <2>1. UNCHANGED <<data, ranges, returned>>
    BY <1>8 DEF CompactingGC
  <2> QED
    BY <2>1, Unseen
<1>9. CASE UNCHANGED vars
  <2>1. UNCHANGED <<data, ranges, returned>>
    BY <1>9 DEF vars, tableVars
  <2> QED
    BY <2>1, Unseen
<1> QED
  BY <1>1, <1>2, <1>3, <1>4, <1>5, <1>6, <1>7, <1>8, <1>9 DEF Next

LEMMA InitImplements == Init => Abstract!AInit
<1> SUFFICES ASSUME Init PROVE Abstract!AInit
  OBVIOUS
<1>1. data = <<>> /\ ranges = [r \in Iterators |-> NoRange] /\ returned = NoKey
  BY DEF Init
<1>2. Live(<<>>) = <<>>
  <2>1. <<>> \in Seq(Data) /\ \A i \in DOMAIN <<>> : <<>>[i] # NoKey
    OBVIOUS
  <2> QED
    BY <2>1, LiveOfLive
<1>3. \A r \in Iterators : IterOf(ranges[r]) = Abstract!Unused
  BY <1>1, IterIs
<1> QED
  BY <1>1, <1>2, <1>3 DEF Abstract!AInit

\* Whatever the program adds, removes or clears between two calls of next(), and
\* wherever the table grows, shrinks, is compacted or its keys are moved, an
\* iterator returns every entry that is there when it comes to it, in the order
\* of insertion and none twice, and ends once: the table implements the
\* collection.
THEOREM TableImplementsCollection == Spec => ImplementsCollection
<1> QED
  BY IInvAlways, InitImplements, StepImplements, PTL DEF Spec, ImplementsCollection, Abstract!ASpec

=============================================================================
