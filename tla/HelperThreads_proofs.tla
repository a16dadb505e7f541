------------------------ MODULE HelperThreads_proofs ------------------------
(* Safety of the helper thread pool, for any number of threads and tasks:  *)
(* batches and masters first, then shutdown and wakeups.                   *)
EXTENDS HelperThreads, FiniteSetTheorems, SequenceTheorems, TLAPS

-----------------------------------------------------------------------------
(* The batches in a worklist.                                              *)

Places(s, o) == {i \in DOMAIN s : s[i] = o}
Occurrences(s, o) == Cardinality(Places(s, o))

LEMMA OccurrencesNat ==
  ASSUME NEW S, NEW s \in Seq(S), NEW o
  PROVE  /\ IsFiniteSet(Places(s, o)) /\ Occurrences(s, o) \in Nat
         /\ Occurrences(s, o) = 0 <=> \A i \in DOMAIN s : s[i] # o
<1>1. DOMAIN s = 1..Len(s) /\ Len(s) \in Nat
  OBVIOUS
<1>2. IsFiniteSet(1..Len(s)) /\ Places(s, o) \subseteq 1..Len(s)
  BY <1>1, FS_Interval DEF Places
<1>3. IsFiniteSet(Places(s, o))
  BY <1>2, FS_Subset
<1>4. Occurrences(s, o) = 0 <=> Places(s, o) = {}
  BY <1>3, FS_EmptySet DEF Occurrences
<1> QED
  BY <1>3, <1>4, FS_CardinalityType DEF Occurrences, Places

\* One set is as large as another that a function maps to it, one to one.
LEMMA SameSize ==
  ASSUME NEW A, NEW B, IsFiniteSet(A), NEW f \in [A -> B],
         \A x, y \in A : f[x] = f[y] => x = y,
         \A z \in B : \E x \in A : f[x] = z
  PROVE  IsFiniteSet(B) /\ Cardinality(B) = Cardinality(A)
<1>1. f \in Bijection(A, B)
  BY DEF Bijection, Injection, Surjection, IsInjective
<1>2. ExistsBijection(A, B)
  BY <1>1 DEF ExistsBijection
<1> QED
  BY <1>2, FS_Bijection

\* Appending adds one occurrence of what is appended.
LEMMA OccurrencesAppend ==
  ASSUME NEW S, NEW s \in Seq(S), NEW x \in S, NEW o
  PROVE  Occurrences(Append(s, x), o) = Occurrences(s, o) + (IF x = o THEN 1 ELSE 0)
<1>1. /\ DOMAIN s = 1..Len(s) /\ Len(s) \in Nat
      /\ DOMAIN Append(s, x) = 1..(Len(s) + 1)
      /\ \A i \in 1..Len(s) : Append(s, x)[i] = s[i]
      /\ Append(s, x)[Len(s) + 1] = x
  OBVIOUS
<1>2. IsFiniteSet(Places(s, o)) /\ Occurrences(s, o) \in Nat
  BY OccurrencesNat
<1>3. CASE x = o
  <2>1. Places(Append(s, x), o) = Places(s, o) \cup {Len(s) + 1}
    BY <1>1, <1>3 DEF Places
  <2>2. Len(s) + 1 \notin Places(s, o)
    BY <1>1 DEF Places
  <2> QED
    BY <1>2, <1>3, <2>1, <2>2, FS_AddElement DEF Occurrences
<1>4. CASE x # o
  <2>1. Places(Append(s, x), o) = Places(s, o)
    BY <1>1, <1>4 DEF Places
  <2> QED
    BY <1>2, <1>4, <2>1 DEF Occurrences
<1> QED
  BY <1>3, <1>4

\* Taking the first removes one occurrence of it.
LEMMA OccurrencesWithoutFirst ==
  ASSUME NEW S, NEW s \in Seq(S), s # <<>>, NEW o
  PROVE  /\ Without(s, 1) \in Seq(S) /\ s[1] \in S /\ 1 \in DOMAIN s
         /\ \A i \in DOMAIN Without(s, 1) : \E j \in DOMAIN s : Without(s, 1)[i] = s[j]
         /\ Occurrences(s, o) = Occurrences(Without(s, 1), o) + (IF s[1] = o THEN 1 ELSE 0)
<1> DEFINE n == Len(s)
           w == Without(s, 1)
<1>1. n \in Nat /\ n >= 1 /\ DOMAIN s = 1..n /\ s[1] \in S
  BY EmptySeq, ElementOfSeq
<1>2. SubSeq(s, 1, 0) = <<>> /\ SubSeq(s, 2, n) \in Seq(S) /\ Len(SubSeq(s, 2, n)) = n - 1
      /\ \A i \in 1..(n - 1) : SubSeq(s, 2, n)[i] = s[i + 1]
  BY <1>1
<1>3. w = SubSeq(s, 2, n)
  BY <1>2, ConcatEmptySeq DEF Without
<1> HIDE DEF n, w
<1>4. w \in Seq(S) /\ DOMAIN w = 1..(n - 1) /\ \A i \in 1..(n - 1) : w[i] = s[i + 1]
  <2>1. w \in Seq(S) /\ Len(w) = n - 1 /\ \A i \in 1..(n - 1) : w[i] = s[i + 1]
    BY <1>2, <1>3
  <2> QED
    BY <2>1, LenProperties
<1>5. \A i \in DOMAIN w : \E j \in DOMAIN s : w[i] = s[j]
  <2> TAKE i \in DOMAIN w
  <2>1. i + 1 \in 1..n /\ w[i] = s[i + 1]
    BY <1>1, <1>4
  <2> QED
    BY <1>1, <2>1
<1>6. IsFiniteSet(Places(w, o)) /\ Cardinality(Places(w, o)) \in Nat
  BY <1>4, OccurrencesNat, FS_CardinalityType
<1> DEFINE rest == Places(s, o) \ {1}
           f == [i \in Places(w, o) |-> i + 1]
<1>7. f \in [Places(w, o) -> rest]
  <2> SUFFICES ASSUME NEW i \in Places(w, o) PROVE i + 1 \in rest
    OBVIOUS
  <2>1. i \in 1..(n - 1) /\ w[i] = o
    BY <1>4 DEF Places
  <2> QED
    BY <1>1, <1>4, <2>1 DEF Places
<1>8. \A x, y \in Places(w, o) : f[x] = f[y] => x = y
  BY <1>1, <1>4 DEF Places
<1>9. \A z \in rest : \E x \in Places(w, o) : f[x] = z
  <2> TAKE z \in rest
  <2>1. z \in 1..n /\ z # 1 /\ s[z] = o
    BY <1>1 DEF Places
  <2>2. z - 1 \in 1..(n - 1) /\ (z - 1) + 1 = z
    BY <1>1, <2>1
  <2>3. z - 1 \in Places(w, o)
    BY <1>4, <2>1, <2>2 DEF Places
  <2> QED
    BY <2>2, <2>3
<1> HIDE DEF f
<1>10. IsFiniteSet(rest) /\ Cardinality(rest) = Cardinality(Places(w, o))
  BY <1>6, <1>7, <1>8, <1>9, SameSize
<1>11. s[1] = o => Occurrences(s, o) = Occurrences(w, o) + 1
  <2> HAVE s[1] = o
  <2>1. Places(s, o) = rest \cup {1} /\ 1 \notin rest
    BY <1>1 DEF Places
  <2> HIDE DEF rest
  <2> QED
    BY <1>6, <1>10, <2>1, FS_AddElement DEF Occurrences
<1>12. s[1] # o => Occurrences(s, o) = Occurrences(w, o)
  <2> HAVE s[1] # o
  <2>1. Places(s, o) = rest
    BY <1>1 DEF Places
  <2> QED
    BY <1>10, <2>1 DEF Occurrences
<1>13. Occurrences(w, o) \in Nat
  BY <1>6 DEF Occurrences
<1>14. Occurrences(s, o) = Occurrences(w, o) + (IF s[1] = o THEN 1 ELSE 0)
  BY <1>11, <1>12, <1>13
<1> QED
  BY <1>1, <1>4, <1>5, <1>14 DEF w

\* Taking back leaves everybody else's batches, each once.
LEMMA OccurrencesTakeBack ==
  ASSUME NEW S, NEW s \in Seq(S), NEW h, NEW o
  PROVE  /\ TakeBack(s, h) \in Seq(S)
         /\ \A n \in DOMAIN TakeBack(s, h) : \E j \in DOMAIN s : TakeBack(s, h)[n] = s[j]
         /\ Occurrences(TakeBack(s, h), o) = IF o = h THEN 0 ELSE Occurrences(s, o)
<1> DEFINE kept == {i \in DOMAIN s : s[i] # h}
           size == Cardinality(kept)
           upto(i) == {j \in kept : j <= i}
           rank == [i \in kept |-> Cardinality(upto(i))]
           at(n) == CHOOSE i \in kept : Cardinality(upto(i)) = n
           t == TakeBack(s, h)
<1>1. DOMAIN s = 1..Len(s) /\ Len(s) \in Nat /\ \A i \in DOMAIN s : s[i] \in S
  BY ElementOfSeq
<1>2. IsFiniteSet(kept) /\ size \in Nat
  <2>1. IsFiniteSet(1..Len(s)) /\ kept \subseteq 1..Len(s)
    BY <1>1, FS_Interval
  <2> QED
    BY <2>1, FS_Subset, FS_CardinalityType
<1>3. t = [n \in 1..size |-> s[at(n)]]
  BY DEF TakeBack
<1>4. \A i \in kept : i \in Nat
  BY <1>1
<1> HIDE DEF size, t
<1>5. rank \in [kept -> 1..size]
  <2> SUFFICES ASSUME NEW i \in kept PROVE Cardinality(upto(i)) \in 1..size
    OBVIOUS
  <2>1. upto(i) \subseteq kept /\ i \in upto(i)
    BY <1>4
  <2>2. /\ IsFiniteSet(upto(i)) /\ Cardinality(upto(i)) <= size
        /\ Cardinality(upto(i)) \in Nat
    BY <1>2, <2>1, FS_Subset, FS_CardinalityType DEF size
  <2>3. Cardinality(upto(i)) # 0
    BY <2>1, <2>2, FS_EmptySet
  <2> QED
    BY <1>2, <2>2, <2>3
<1>6. \A i, j \in kept : i < j => rank[i] < rank[j]
  <2> TAKE i, j \in kept
  <2> HAVE i < j
  <2>1. upto(i) \subseteq upto(j) /\ j \in upto(j) /\ j \notin upto(i) /\ upto(j) \subseteq kept
    BY <1>4
  <2>2. IsFiniteSet(upto(j))
    BY <1>2, <2>1, FS_Subset
  <2>3. /\ Cardinality(upto(i)) <= Cardinality(upto(j))
        /\ Cardinality(upto(i)) = Cardinality(upto(j)) => upto(i) = upto(j)
        /\ Cardinality(upto(i)) \in Nat /\ Cardinality(upto(j)) \in Nat
    BY <2>1, <2>2, FS_Subset, FS_CardinalityType
  <2> HIDE DEF upto
  <2> QED
    BY <2>1, <2>3
<1>a. \A i \in kept : rank[i] = Cardinality(upto(i))
  OBVIOUS
<1> HIDE DEF rank
<1>7. \A i, j \in kept : rank[i] = rank[j] => i = j
  <2> TAKE i, j \in kept
  <2> HAVE rank[i] = rank[j]
  <2>1. ~(i < j) /\ ~(j < i)
    BY <1>2, <1>5, <1>6
  <2> QED
    BY <1>4, <2>1
<1>8. \A n \in 1..size : \E i \in kept : rank[i] = n
  <2>1. rank \in Injection(kept, 1..size)
    BY <1>5, <1>7 DEF Injection, IsInjective
  <2>2. IsFiniteSet(1..size) /\ Cardinality(1..size) = size
    BY <1>2, FS_Interval
  <2>3. Cardinality(kept) = Cardinality(1..size)
    BY <2>2 DEF size
  <2> HIDE DEF kept
  <2>4. rank \in Surjection(kept, 1..size)
    BY <2>1, <2>2, <2>3, FS_Injection
  <2> QED
    BY <2>4 DEF Surjection
<1>9. \A n \in 1..size : at(n) \in kept /\ rank[at(n)] = n
  <2> TAKE n \in 1..size
  <2>1. \E i \in kept : Cardinality(upto(i)) = n
    BY <1>8, <1>a
  <2>2. at(n) \in kept /\ Cardinality(upto(at(n))) = n
    BY <2>1
  <2> QED
    BY <1>a, <2>2
<1>10. \A i \in kept : rank[i] \in 1..size /\ at(rank[i]) = i
  BY <1>5, <1>7, <1>9
<1> HIDE DEF at
<1>11. DOMAIN t = 1..size /\ \A n \in 1..size : t[n] = s[at(n)]
  BY <1>3
<1>12. t \in Seq(S)
  <2>1. \A n \in 1..size : s[at(n)] \in S
    BY <1>1, <1>9
  <2>2. t \in [1..size -> S]
    BY <1>3, <2>1
  <2> QED
    BY <1>2, <2>2, IsASeq, SeqDef
<1>13. \A n \in DOMAIN t : \E j \in DOMAIN s : t[n] = s[j]
  BY <1>9, <1>11
<1>14. CASE o = h
  <2>1. \A n \in DOMAIN t : t[n] # o
    BY <1>9, <1>11, <1>14
  <2> QED
    BY <1>12, <1>13, <1>14, <2>1, OccurrencesNat DEF t
<1>15. CASE o # h
  <2> DEFINE f == [i \in Places(s, o) |-> rank[i]]
  <2>1. Places(s, o) \subseteq kept
    BY <1>15 DEF Places
  <2>2. f \in [Places(s, o) -> Places(t, o)]
    <3> SUFFICES ASSUME NEW i \in Places(s, o) PROVE rank[i] \in Places(t, o)
      OBVIOUS
    <3>1. i \in kept /\ s[i] = o
      BY <2>1 DEF Places
    <3> QED
      BY <1>10, <1>11, <3>1 DEF Places
  <2>3. \A x, y \in Places(s, o) : f[x] = f[y] => x = y
    BY <1>7, <2>1
  <2>4. \A z \in Places(t, o) : \E x \in Places(s, o) : f[x] = z
    <3> TAKE z \in Places(t, o)
    <3>1. z \in 1..size /\ s[at(z)] = o
      BY <1>11 DEF Places
    <3>2. at(z) \in Places(s, o) /\ rank[at(z)] = z
      BY <1>9, <3>1 DEF Places
    <3> QED
      BY <3>2
  <2>5. IsFiniteSet(Places(s, o))
    BY OccurrencesNat
  <2> HIDE DEF f
  <2>6. Cardinality(Places(t, o)) = Cardinality(Places(s, o))
    BY <2>2, <2>3, <2>4, <2>5, SameSize
  <2> QED
    BY <1>12, <1>13, <1>15, <2>6 DEF Occurrences, t
<1> QED
  BY <1>14, <1>15

-----------------------------------------------------------------------------
(* Batches and the masters that wait for them.                             *)

WorkTypes ==
  /\ worklist \in [Kinds -> Seq(Items)]
  /\ cur \in [Threads -> {Idle} \cup {<<c>> : c \in Current}]
  /\ tpc \in [Threads -> ThreadStates]
  /\ mg \in [Threads -> Modules]

\* A master of the module that is compiled by tasks of kind k.
Owns(o, k) == o \in Threads /\ IsMaster(o) /\ Mode(o) = k

QueuedOwned ==
  \A k \in CompileKinds : \A i \in DOMAIN worklist[k] : Owns(worklist[k][i], k)

CompilingOwned ==
  \A g \in Threads :
    IsKind(g, CompileKinds) /\ tpc[g] = "run" => Owns(cur[g][1].item, cur[g][1].kind)

\* Only a master that has not finished its module waits for batches.
Stages ==
  \A h \in Threads :
    /\ tpc[h] \notin {"run", "abort", "drain", "ran"} => cur[h] = Idle
    /\ tpc[h] \in {"abort", "drain"} => IsMaster(h)
    /\ ~IsMaster(h) \/ tpc[h] = "ran" => mg[h].out = 0

CompilingFor(h) ==
  {g \in Threads : IsKind(g, {Mode(h)}) /\ tpc[g] = "run" /\ cur[g][1].item = h}

CountedFor(h) ==
  mg[h].out = Occurrences(worklist[Mode(h)], h) + Cardinality(CompilingFor(h))
                + mg[h].fin + mg[h].fail

\* Only source compressions are put off.
PendingOK == pending \subseteq CompressTasks

\* The inductive invariant of OutstandingExact.
BatchInv ==
  /\ WorkTypes /\ QueuedOwned /\ CompilingOwned /\ Stages
  /\ \A h \in Threads : CountedFor(h)

LEMMA CountsNat ==
  ASSUME WorkTypes, NEW h \in Threads
  PROVE  /\ Mode(h) \in CompileKinds /\ worklist[Mode(h)] \in Seq(Items)
         /\ Occurrences(worklist[Mode(h)], h) \in Nat
         /\ IsFiniteSet(CompilingFor(h)) /\ Cardinality(CompilingFor(h)) \in Nat
         /\ mg[h] \in Modules
<1>1. Mode(h) \in CompileKinds /\ CompileKinds \subseteq Kinds
  BY DEF Mode, CompileKinds, Kinds
<1>2. worklist[Mode(h)] \in Seq(Items)
  BY <1>1 DEF WorkTypes
<1>3. IsFiniteSet(CompilingFor(h))
  BY ThreadsAssumption, FS_Subset DEF CompilingFor
<1> QED
  BY <1>1, <1>2, <1>3, OccurrencesNat, FS_CardinalityType DEF WorkTypes

\* What a thread without outstanding batches is not: the owner of any.
LEMMA Unowned ==
  ASSUME BatchInv, NEW h \in Threads, mg[h].out = 0
  PROVE  /\ \A k \in CompileKinds : \A i \in DOMAIN worklist[k] : worklist[k][i] # h
         /\ \A g \in Threads :
              IsKind(g, CompileKinds) /\ tpc[g] = "run" => cur[g][1].item # h
         /\ mg[h].fin = 0 /\ mg[h].fail = 0
<1>1. /\ Occurrences(worklist[Mode(h)], h) = 0 /\ Cardinality(CompilingFor(h)) = 0
      /\ mg[h].fin = 0 /\ mg[h].fail = 0
  BY CountsNat DEF BatchInv, CountedFor, Modules
<1>2. \A i \in DOMAIN worklist[Mode(h)] : worklist[Mode(h)][i] # h
  BY <1>1, CountsNat, OccurrencesNat DEF BatchInv
<1>3. CompilingFor(h) = {}
  BY <1>1, CountsNat, FS_EmptySet DEF BatchInv
<1>4. \A k \in CompileKinds : \A i \in DOMAIN worklist[k] : worklist[k][i] # h
  BY <1>2 DEF BatchInv, QueuedOwned, Owns
<1>5. \A g \in Threads : IsKind(g, CompileKinds) /\ tpc[g] = "run" => cur[g][1].item # h
  <2> SUFFICES ASSUME NEW g \in Threads, IsKind(g, CompileKinds), tpc[g] = "run",
                      cur[g][1].item = h
               PROVE  FALSE
    OBVIOUS
  <2>1. Mode(h) = cur[g][1].kind
    BY DEF BatchInv, CompilingOwned, Owns
  <2> QED
    BY <1>3, <2>1 DEF CompilingFor, IsKind
<1> QED
  BY <1>1, <1>4, <1>5

\* Steps that neither move a batch nor start or end a task.
LEMMA BatchesUnchanged ==
  ASSUME BatchInv, WorkTypes', Stages', cur' = cur,
         \A k \in CompileKinds : worklist'[k] = worklist[k],
         \A g \in Threads : IsKind(g, CompileKinds) => (tpc'[g] = "run" <=> tpc[g] = "run"),
         \A h \in Threads : mg'[h].out - mg'[h].fin - mg'[h].fail
                              = mg[h].out - mg[h].fin - mg[h].fail
  PROVE  BatchInv'
<1>1. \A h, ks : IsKind(h, ks)' = IsKind(h, ks)
  BY DEF IsKind
<1>2. \A h : IsMaster(h)' = IsMaster(h) /\ Mode(h)' = Mode(h)
  BY <1>1 DEF IsMaster, Mode
<1>3. \A o, k : Owns(o, k)' = Owns(o, k)
  BY <1>2 DEF Owns
<1>4. QueuedOwned'
  BY <1>3 DEF BatchInv, QueuedOwned
<1>5. CompilingOwned'
  BY <1>1, <1>3 DEF BatchInv, CompilingOwned
<1>6. ASSUME NEW h \in Threads PROVE CountedFor(h)'
  <2>1. Mode(h) \in CompileKinds
    BY CountsNat DEF BatchInv
  <2>2. CompilingFor(h)' = CompilingFor(h)
    <3>1. \A g : IsKind(g, {Mode(h)}) => IsKind(g, CompileKinds)
      BY <2>1 DEF IsKind
    <3> QED
      BY <1>1, <1>2, <3>1 DEF CompilingFor
  <2>3. (worklist[Mode(h)])' = worklist[Mode(h)]
    BY <1>2, <2>1
  <2>4. mg[h] \in Modules /\ mg'[h] \in Modules
    BY DEF BatchInv, WorkTypes
  <2>5. CountedFor(h)
    BY DEF BatchInv
  <2>6. Occurrences(worklist[Mode(h)], h)' = Occurrences(worklist[Mode(h)], h)
    BY <2>3 DEF Occurrences, Places
  <2>7. Occurrences(worklist[Mode(h)], h) \in Nat /\ Cardinality(CompilingFor(h)) \in Nat
    BY CountsNat DEF BatchInv
  <2> QED
    BY <2>2, <2>4, <2>5, <2>6, <2>7 DEF CountedFor, Modules
<1> QED
  BY <1>4, <1>5, <1>6 DEF BatchInv

\* A notification only wakes waiting threads.
LEMMA NotifyWakes ==
  ASSUME WorkTypes, tpc' \in NotifyOne
  PROVE  /\ tpc' \in [Threads -> ThreadStates]
         /\ \A g \in Threads : tpc'[g] = tpc[g] \/ (tpc[g] = "wait" /\ tpc'[g] = "awake")
BY DEF WorkTypes, NotifyOne, Waiting, ThreadStates

\* While the slots stay, a thread compiles for somebody as long as it runs.
LEMMA SameCompiling ==
  ASSUME WorkTypes, cur' = cur, NEW o \in Threads,
         \A g \in Threads : tpc'[g] = "run" <=> tpc[g] = "run"
  PROVE  /\ CompilingFor(o)' = CompilingFor(o) /\ Mode(o)' = Mode(o)
         /\ \A k : Owns(o, k)' = Owns(o, k)
<1>1. \A g, ks : IsKind(g, ks)' = IsKind(g, ks)
  BY DEF IsKind
<1>2. IsMaster(o)' = IsMaster(o) /\ Mode(o)' = Mode(o)
  BY <1>1 DEF IsMaster, Mode
<1>3. CompilingFor(o)' = CompilingFor(o)
  BY <1>1, <1>2 DEF CompilingFor
<1> QED
  BY <1>2, <1>3 DEF Owns

\* Steps that change the queued batches of one kind, and count what they change.
LEMMA OneListChanges ==
  ASSUME BatchInv, WorkTypes', Stages', cur' = cur,
         \A g \in Threads : tpc'[g] = "run" <=> tpc[g] = "run",
         NEW k \in CompileKinds,
         \A j \in CompileKinds : j # k => worklist'[j] = worklist[j],
         \A i \in DOMAIN worklist'[k] : Owns(worklist'[k][i], k),
         \A o \in Threads :
           /\ mg'[o].fin = mg[o].fin /\ mg'[o].fail = mg[o].fail
           /\ mg'[o].out = IF Mode(o) = k
                THEN mg[o].out - Occurrences(worklist[k], o) + Occurrences(worklist'[k], o)
                ELSE mg[o].out
  PROVE  BatchInv'
<1>1. \A o \in Threads : /\ CompilingFor(o)' = CompilingFor(o) /\ Mode(o)' = Mode(o)
                         /\ \A j : Owns(o, j)' = Owns(o, j)
  BY SameCompiling DEF BatchInv
<1>2. QueuedOwned'
  <2>1. ASSUME NEW j \in CompileKinds, NEW i \in DOMAIN worklist'[j]
        PROVE  \E o \in Threads : o = worklist'[j][i] /\ Owns(o, j)
    BY <2>1 DEF BatchInv, QueuedOwned, Owns
  <2> QED
    BY <1>1, <2>1 DEF QueuedOwned
<1>3. CompilingOwned'
  BY <1>1 DEF BatchInv, CompilingOwned, IsKind, Owns
<1>4. ASSUME NEW o \in Threads PROVE CountedFor(o)'
  <2>1. CountedFor(o) /\ Mode(o) \in CompileKinds /\ mg[o] \in Modules
    BY CountsNat DEF BatchInv
  <2>2. Occurrences(worklist[Mode(o)], o) \in Nat /\ Cardinality(CompilingFor(o)) \in Nat
    BY CountsNat DEF BatchInv
  <2>3. Occurrences(worklist'[Mode(o)], o) \in Nat
    <3>1. worklist'[Mode(o)] \in Seq(Items)
      BY <2>1 DEF WorkTypes, CompileKinds, Kinds
    <3> QED
      BY <3>1, OccurrencesNat
  <2>4. /\ Occurrences(worklist[Mode(o)], o)' = Occurrences(worklist'[Mode(o)], o)
        /\ Cardinality(CompilingFor(o))' = Cardinality(CompilingFor(o))
    BY <1>1 DEF Occurrences, Places
  <2>5. mg'[o].out = mg[o].out - Occurrences(worklist[Mode(o)], o)
                       + Occurrences(worklist'[Mode(o)], o)
    BY <2>1, <2>2, <2>3 DEF Modules
  <2> QED
    BY <2>1, <2>2, <2>3, <2>4, <2>5 DEF CountedFor, Modules
<1> QED
  BY <1>2, <1>3, <1>4 DEF BatchInv

\* launchBatchCompile() queues one batch and counts it.
LEMMA LaunchKeepsBatches ==
  ASSUME BatchInv, NEW h \in Threads, LaunchBatchCompile(h) PROVE BatchInv'
<1> DEFINE k == Mode(h)
<1>1. /\ IsMaster(h) /\ tpc[h] = "run" /\ cur' = cur /\ mg[h].left > 0
      /\ k \in CompileKinds /\ k \in Kinds /\ worklist[k] \in Seq(Items) /\ h \in Items
  BY CountsNat DEF LaunchBatchCompile, BatchInv, CompileKinds, Kinds, Items
<1>2. /\ tpc' \in [Threads -> ThreadStates]
      /\ \A g \in Threads : tpc'[g] = tpc[g] \/ (tpc[g] = "wait" /\ tpc'[g] = "awake")
  BY NotifyWakes DEF BatchInv, LaunchBatchCompile
<1>3. /\ worklist' = [worklist EXCEPT ![k] = Append(@, h)]
      /\ worklist'[k] = Append(worklist[k], h)
      /\ \A j \in Kinds : j # k => worklist'[j] = worklist[j]
  BY <1>1 DEF LaunchBatchCompile, BatchInv, WorkTypes
<1>4. /\ mg' \in [Threads -> Modules]
      /\ mg'[h].out = mg[h].out + 1 /\ mg'[h].fin = mg[h].fin /\ mg'[h].fail = mg[h].fail
      /\ \A g \in Threads : g # h => mg'[g] = mg[g]
  <2>1. mg \in [Threads -> Modules] /\ mg[h] \in Modules
    BY DEF BatchInv, WorkTypes
  <2>2. mg' = [mg EXCEPT ![h] = [mg[h] EXCEPT !.left = @ - 1, !.out = @ + 1]]
    BY <2>1 DEF LaunchBatchCompile
  <2>3. mg[h].left - 1 \in Nat /\ mg[h].out + 1 \in Nat
    BY <1>1, <2>1 DEF Modules
  <2> DEFINE one == [mg[h] EXCEPT !.left = @ - 1]
             two == [one EXCEPT !.out = mg[h].out + 1]
  <2>4. /\ one \in Modules /\ one.out = mg[h].out /\ one.fin = mg[h].fin
        /\ one.fail = mg[h].fail
    BY <2>1, <2>3 DEF Modules
  <2> HIDE DEF one
  <2>5. /\ two \in Modules /\ two.out = mg[h].out + 1 /\ two.fin = mg[h].fin
        /\ two.fail = mg[h].fail
    BY <2>3, <2>4 DEF Modules
  <2>6. mg' = [mg EXCEPT ![h] = two]
    BY <2>2 DEF one
  <2> QED
    BY <2>1, <2>5, <2>6
<1>5. WorkTypes'
  <2>1. Append(worklist[k], h) \in Seq(Items)
    BY <1>1
  <2>2. worklist' \in [Kinds -> Seq(Items)]
    BY <1>3, <2>1 DEF BatchInv, WorkTypes
  <2> QED
    BY <1>1, <1>2, <1>4, <2>2 DEF BatchInv, WorkTypes
<1>6. Stages'
  BY <1>1, <1>2, <1>4 DEF BatchInv, Stages, IsMaster, IsKind
<1>7. \A i \in DOMAIN worklist'[k] : Owns(worklist'[k][i], k)
  <2>1. ASSUME NEW i \in DOMAIN worklist'[k]
        PROVE  worklist'[k][i] = h \/ (i \in DOMAIN worklist[k] /\ worklist'[k][i] = worklist[k][i])
    BY <1>1, <1>3
  <2> QED
    BY <1>1, <2>1 DEF BatchInv, QueuedOwned, Owns
<1>8. ASSUME NEW o \in Threads
      PROVE  /\ mg'[o].fin = mg[o].fin /\ mg'[o].fail = mg[o].fail
             /\ mg'[o].out = IF Mode(o) = k
                  THEN mg[o].out - Occurrences(worklist[k], o) + Occurrences(worklist'[k], o)
                  ELSE mg[o].out
  <2>1. /\ Occurrences(worklist'[k], o)
             = Occurrences(worklist[k], o) + (IF h = o THEN 1 ELSE 0)
        /\ Occurrences(worklist[k], o) \in Nat /\ mg[o].out \in Nat
    BY <1>1, <1>3, OccurrencesAppend, OccurrencesNat DEF BatchInv, WorkTypes, Modules
  <2> QED
    BY <1>4, <2>1
<1>9. \A g \in Threads : tpc'[g] = "run" <=> tpc[g] = "run"
  BY <1>2
<1>10. \A j \in CompileKinds : j # k => worklist'[j] = worklist[j]
  BY <1>3 DEF CompileKinds, Kinds
<1> HIDE DEF k
<1> QED
  BY <1>1, <1>5, <1>6, <1>7, <1>8, <1>9, <1>10, OneListChanges

\* ~ModuleGenerator() takes back what is queued and no longer counts it.
LEMMA AbortKeepsBatches ==
  ASSUME BatchInv, NEW h \in Threads, Abort(h) PROVE BatchInv'
<1> DEFINE k == Mode(h)
           n == Occurrences(worklist[k], h)
<1>1. /\ IsMaster(h) /\ tpc[h] = "abort" /\ cur' = cur
      /\ k \in CompileKinds /\ k \in Kinds /\ worklist[k] \in Seq(Items)
  BY CountsNat DEF Abort, BatchInv, Stages, CompileKinds, Kinds
<1>2. tpc' = [tpc EXCEPT ![h] = "drain"] /\ tpc \in [Threads -> ThreadStates]
  BY DEF Abort, BatchInv, WorkTypes
<1>3. /\ worklist' = [worklist EXCEPT ![k] = TakeBack(@, h)]
      /\ worklist'[k] = TakeBack(worklist[k], h)
      /\ \A j \in Kinds : j # k => worklist'[j] = worklist[j]
  BY <1>1 DEF Abort, BatchInv, WorkTypes
<1>4. /\ mg' \in [Threads -> Modules]
      /\ mg'[h].out = mg[h].out - n /\ mg'[h].fin = mg[h].fin /\ mg'[h].fail = mg[h].fail
      /\ \A g \in Threads : g # h => mg'[g] = mg[g]
  <2>1. mg \in [Threads -> Modules] /\ mg[h] \in Modules
    BY DEF BatchInv, WorkTypes
  <2>2. mg' = [mg EXCEPT ![h] = [mg[h] EXCEPT !.out = mg[h].out - n]]
    BY <2>1 DEF Abort, Occurrences, Places
  <2>3. mg[h].out - n \in Nat
    BY <2>1, CountsNat DEF BatchInv, CountedFor, Modules
  <2> HIDE DEF n
  <2> DEFINE new == [mg[h] EXCEPT !.out = mg[h].out - n]
  <2>4. /\ new \in Modules /\ new.out = mg[h].out - n /\ new.fin = mg[h].fin
        /\ new.fail = mg[h].fail
    BY <2>1, <2>3 DEF Modules
  <2> QED
    BY <2>1, <2>2, <2>4
<1>5. WorkTypes'
  <2>1. TakeBack(worklist[k], h) \in Seq(Items)
    BY <1>1, OccurrencesTakeBack
  <2>2. worklist' \in [Kinds -> Seq(Items)]
    BY <1>3, <2>1 DEF BatchInv, WorkTypes
  <2> QED
    BY <1>1, <1>2, <1>4, <2>2 DEF BatchInv, WorkTypes, ThreadStates
<1>6. Stages'
  BY <1>1, <1>2, <1>4 DEF BatchInv, Stages, IsMaster, IsKind
<1>7. \A i \in DOMAIN worklist'[k] : Owns(worklist'[k][i], k)
  <2>1. \A i \in DOMAIN worklist'[k] : \E j \in DOMAIN worklist[k] :
          worklist'[k][i] = worklist[k][j]
    <3> DEFINE w == worklist[k]
    <3>1. w \in Seq(Items) /\ worklist'[k] = TakeBack(w, h)
      BY <1>1, <1>3
    <3> HIDE DEF k, w
    <3>2. \A i \in DOMAIN TakeBack(w, h) : \E j \in DOMAIN w : TakeBack(w, h)[i] = w[j]
      BY <3>1, OccurrencesTakeBack
    <3> QED
      BY <3>1, <3>2 DEF w
  <2> QED
    BY <1>1, <2>1 DEF BatchInv, QueuedOwned
<1>8. ASSUME NEW o \in Threads
      PROVE  /\ mg'[o].fin = mg[o].fin /\ mg'[o].fail = mg[o].fail
             /\ mg'[o].out = IF Mode(o) = k
                  THEN mg[o].out - Occurrences(worklist[k], o) + Occurrences(worklist'[k], o)
                  ELSE mg[o].out
  <2>1. /\ Occurrences(worklist'[k], o) = IF o = h THEN 0 ELSE Occurrences(worklist[k], o)
        /\ Occurrences(worklist[k], o) \in Nat /\ mg[o].out \in Nat
    BY <1>1, <1>3, OccurrencesTakeBack, OccurrencesNat DEF BatchInv, WorkTypes, Modules
  <2> QED
    BY <1>4, <2>1
<1>9. \A g \in Threads : tpc'[g] = "run" <=> tpc[g] = "run"
  BY <1>1, <1>2
<1>10. \A j \in CompileKinds : j # k => worklist'[j] = worklist[j]
  BY <1>3 DEF CompileKinds, Kinds
<1> HIDE DEF k
<1> QED
  BY <1>1, <1>5, <1>6, <1>7, <1>8, <1>9, <1>10, OneListChanges

\* ExecuteCompileTaskFromHelperThread(): what was being compiled is reported.
LEMMA ReportKeepsBatches ==
  ASSUME BatchInv, NEW h \in Threads, ReportCompiled(h) PROVE BatchInv'
<1> DEFINE owner == cur[h][1].item
           k == cur[h][1].kind
<1>1. /\ IsKind(h, CompileKinds) /\ tpc[h] = "run" /\ cur' = cur /\ worklist' = worklist
      /\ tpc' = [tpc EXCEPT ![h] = "ran"] /\ k \in CompileKinds
      /\ ~IsMaster(h)
  BY DEF ReportCompiled, IsKind, IsMaster, CompileKinds, MasterKinds
<1>2. owner \in Threads /\ IsMaster(owner) /\ Mode(owner) = k /\ owner # h
  BY <1>1 DEF BatchInv, CompilingOwned, Owns
<1>3. mg \in [Threads -> Modules] /\ mg[owner] \in Modules /\ tpc \in [Threads -> ThreadStates]
  BY <1>2 DEF BatchInv, WorkTypes
<1>4. /\ mg' \in [Threads -> Modules]
      /\ mg'[owner].out = mg[owner].out
      /\ mg'[owner].fin + mg'[owner].fail = mg[owner].fin + mg[owner].fail + 1
      /\ \A g \in Threads : g # owner => mg'[g] = mg[g]
  <2>1. mg[owner].fin + 1 \in Nat /\ mg[owner].fail + 1 \in Nat
    BY <1>3 DEF Modules
  <2>2. \/ mg' = [mg EXCEPT ![owner] = [mg[owner] EXCEPT !.fin = mg[owner].fin + 1]]
        \/ mg' = [mg EXCEPT ![owner] = [mg[owner] EXCEPT !.fail = mg[owner].fail + 1]]
    BY DEF ReportCompiled
  <2>3. PICK new : /\ mg' = [mg EXCEPT ![owner] = new]
                   /\ \/ new = [mg[owner] EXCEPT !.fin = mg[owner].fin + 1]
                      \/ new = [mg[owner] EXCEPT !.fail = mg[owner].fail + 1]
    BY <2>2
  <2> HIDE DEF owner
  <2>4. /\ new \in Modules /\ new.out = mg[owner].out
        /\ \/ new.fin = mg[owner].fin + 1 /\ new.fail = mg[owner].fail
           \/ new.fail = mg[owner].fail + 1 /\ new.fin = mg[owner].fin
    <3> DEFINE m == mg[owner]
    <3>1. m \in Modules /\ m.fin + 1 \in Nat /\ m.fail + 1 \in Nat
      BY <1>3, <2>1
    <3> HIDE DEF m
    <3>2. new = [m EXCEPT !.fin = m.fin + 1] =>
            new \in Modules /\ new.out = m.out /\ new.fin = m.fin + 1 /\ new.fail = m.fail
      BY <3>1 DEF Modules
    <3>3. new = [m EXCEPT !.fail = m.fail + 1] =>
            new \in Modules /\ new.out = m.out /\ new.fail = m.fail + 1 /\ new.fin = m.fin
      BY <3>1 DEF Modules
    <3> QED
      BY <2>3, <3>2, <3>3 DEF m
  <2>5. new.fin + new.fail = mg[owner].fin + mg[owner].fail + 1
    BY <1>3, <2>4 DEF Modules
  <2> QED
    BY <1>2, <1>3, <2>3, <2>4, <2>5
<1>5. WorkTypes'
  BY <1>1, <1>3, <1>4 DEF BatchInv, WorkTypes, ThreadStates
<1>6. \A g, ks : IsKind(g, ks)' = IsKind(g, ks)
  BY <1>1 DEF IsKind
<1>7. \A o : IsMaster(o)' = IsMaster(o) /\ Mode(o)' = Mode(o)
  BY <1>6 DEF IsMaster, Mode
<1>8. \A o, j : Owns(o, j)' = Owns(o, j)
  BY <1>7 DEF Owns
<1>9. QueuedOwned'
  BY <1>1, <1>8 DEF BatchInv, QueuedOwned
<1>10. CompilingOwned'
  BY <1>1, <1>3, <1>6, <1>8 DEF BatchInv, CompilingOwned
<1>11. Stages'
  BY <1>1, <1>2, <1>3, <1>4, <1>7 DEF BatchInv, Stages
<1>12. ASSUME NEW o \in Threads PROVE CountedFor(o)'
  <2>1. CountedFor(o) /\ mg[o] \in Modules /\ mg'[o] \in Modules
    BY <1>4, CountsNat DEF BatchInv
  <2>2. /\ Occurrences(worklist[Mode(o)], o) \in Nat /\ IsFiniteSet(CompilingFor(o))
        /\ Cardinality(CompilingFor(o)) \in Nat
    BY CountsNat DEF BatchInv
  <2>3. Occurrences(worklist[Mode(o)], o)' = Occurrences(worklist[Mode(o)], o)
    BY <1>1, <1>7 DEF Occurrences, Places
  <2>4. CompilingFor(o)' = CompilingFor(o) \ {h}
    BY <1>1, <1>3, <1>6, <1>7 DEF CompilingFor
  <2>5. h \in CompilingFor(o) <=> o = owner
    BY <1>1, <1>2 DEF CompilingFor, IsKind
  <2>6. CASE o = owner
    <3>1. Cardinality(CompilingFor(o))' = Cardinality(CompilingFor(o)) - 1
      BY <2>2, <2>4, <2>5, <2>6, FS_RemoveElement
    <3> HIDE DEF owner
    <3> QED
      BY <1>4, <2>1, <2>2, <2>3, <2>6, <3>1 DEF CountedFor, Modules
  <2>7. CASE o # owner
    <3>1. CompilingFor(o)' = CompilingFor(o)
      BY <2>4, <2>5, <2>7
    <3> QED
      BY <1>4, <2>1, <2>3, <2>7, <3>1 DEF CountedFor
  <2> QED
    BY <2>6, <2>7
<1> QED
  BY <1>5, <1>9, <1>10, <1>11, <1>12 DEF BatchInv

\* Steps that start or end a task other than a compile task.
LEMMA SlotChanges ==
  ASSUME BatchInv, WorkTypes', NEW h \in Threads, mg[h].out = 0,
         \A k \in CompileKinds : worklist'[k] = worklist[k],
         \A g \in Threads : g # h =>
           cur'[g] = cur[g] /\ tpc'[g] = tpc[g] /\ mg'[g] = mg[g],
         mg'[h].out = 0 /\ mg'[h].fin = 0 /\ mg'[h].fail = 0,
         ~(IsKind(h, CompileKinds) /\ tpc[h] = "run"),
         ~(IsKind(h, CompileKinds)' /\ tpc'[h] = "run"),
         tpc'[h] \notin {"abort", "drain"},
         tpc'[h] # "run" => cur'[h] = Idle
  PROVE  BatchInv'
<1>1. \A g \in Threads : g # h => \A ks : IsKind(g, ks)' = IsKind(g, ks)
  BY DEF IsKind
<1>2. \A o \in Threads : o # h =>
        /\ IsMaster(o)' = IsMaster(o) /\ Mode(o)' = Mode(o)
        /\ \A k : Owns(o, k)' = Owns(o, k)
  BY <1>1 DEF IsMaster, Mode, Owns
<1>3. /\ \A k \in CompileKinds : \A i \in DOMAIN worklist[k] : worklist[k][i] # h
      /\ \A g \in Threads :
           IsKind(g, CompileKinds) /\ tpc[g] = "run" => cur[g][1].item # h
  BY Unowned
<1>4. QueuedOwned'
  <2>1. ASSUME NEW k \in CompileKinds, NEW i \in DOMAIN worklist'[k]
        PROVE  \E o \in Threads : o = worklist'[k][i] /\ o # h /\ Owns(o, k)
    BY <1>3, <2>1 DEF BatchInv, QueuedOwned, Owns
  <2> QED
    BY <1>2, <2>1 DEF QueuedOwned
<1>5. CompilingOwned'
  <2>1. ASSUME NEW g \in Threads, IsKind(g, CompileKinds)', tpc'[g] = "run"
        PROVE  /\ g # h /\ cur'[g] = cur[g] /\ cur[g][1].item # h
               /\ Owns(cur[g][1].item, cur[g][1].kind)
    BY <1>1, <1>3, <2>1 DEF BatchInv, CompilingOwned
  <2> QED
    BY <1>2, <2>1 DEF CompilingOwned, Owns
<1>6. Stages'
  <2>1. ASSUME NEW g \in Threads, g # h
        PROVE  /\ tpc'[g] \notin {"run", "abort", "drain", "ran"} => cur'[g] = Idle
               /\ tpc'[g] \in {"abort", "drain"} => IsMaster(g)'
               /\ ~IsMaster(g)' \/ tpc'[g] = "ran" => mg'[g].out = 0
    BY <1>2, <2>1 DEF BatchInv, Stages
  <2> QED
    BY <2>1 DEF Stages
<1>7. ASSUME NEW o \in Threads PROVE CountedFor(o)'
  <2>1. \A g \in Threads : IsKind(g, {Mode(o)}) => IsKind(g, CompileKinds)
    BY CountsNat DEF BatchInv, IsKind
  <2>2. CASE o # h
    <3>1. CompilingFor(o)' = CompilingFor(o)
      <4>1. Mode(o)' = Mode(o)
        BY <1>2, <2>2
      <4>2. h \notin CompilingFor(o)
        BY <2>1 DEF CompilingFor
      <4>3. IsKind(h, {Mode(o)})' => IsKind(h, CompileKinds)'
        BY <4>1, CountsNat DEF BatchInv, IsKind
      <4>4. h \notin CompilingFor(o)'
        BY <4>3 DEF CompilingFor
      <4>5. \A g \in Threads : g # h => (g \in CompilingFor(o)' <=> g \in CompilingFor(o))
        BY <1>1, <4>1 DEF CompilingFor
      <4>6. CompilingFor(o) \subseteq Threads /\ CompilingFor(o)' \subseteq Threads
        BY DEF CompilingFor
      <4> QED
        BY <4>2, <4>4, <4>5, <4>6
    <3>2. Occurrences(worklist[Mode(o)], o)' = Occurrences(worklist[Mode(o)], o)
      <4>1. Mode(o)' = Mode(o) /\ worklist'[Mode(o)] = worklist[Mode(o)]
        BY <1>2, <2>2, CountsNat DEF BatchInv
      <4> QED
        BY <4>1 DEF Occurrences, Places
    <3> QED
      BY <2>2, <3>1, <3>2 DEF BatchInv, CountedFor
  <2>3. CASE o = h
    <3>1. Mode(h)' \in CompileKinds
      BY DEF Mode, CompileKinds
    <3>2. CompilingFor(h)' = {}
      <4> SUFFICES ASSUME NEW g \in CompilingFor(h)' PROVE FALSE
        OBVIOUS
      <4>1. g \in Threads /\ IsKind(g, CompileKinds)' /\ tpc'[g] = "run" /\ cur'[g][1].item = h
        BY <3>1 DEF CompilingFor, IsKind
      <4> QED
        BY <1>1, <1>3, <4>1
    <3>3. Places(worklist[Mode(h)], h)' = {}
      BY <1>3, <3>1 DEF Places
    <3>4. Occurrences(worklist[Mode(h)], h)' = 0 /\ Cardinality(CompilingFor(h))' = 0
      BY <3>2, <3>3, FS_EmptySet DEF Occurrences
    <3> QED
      BY <2>3, <3>4 DEF CountedFor
  <2> QED
    BY <2>2, <2>3
<1> QED
  BY <1>4, <1>5, <1>6, <1>7 DEF BatchInv

\* A handler returns: nobody has outstanding batches of that thread.
LEMMA FinishKeepsBatches ==
  ASSUME BatchInv, NEW h \in Threads, FinishTask(h) PROVE BatchInv'
<1>1. /\ cur' = [cur EXCEPT ![h] = Idle] /\ mg' = [mg EXCEPT ![h] = NoModule]
      /\ tpc' = [tpc EXCEPT ![h] = "locked"] /\ worklist' = worklist
      /\ tpc[h] = "ran" \/ IsKind(h, {"gc", "ion", "compress"})
  BY DEF FinishTask
<1>2. WorkTypes'
  BY <1>1 DEF BatchInv, WorkTypes, ThreadStates, NoModule, Modules
<1>3. mg[h].out = 0
  BY <1>1 DEF BatchInv, Stages, IsMaster, IsKind, MasterKinds
<1>4. ~(IsKind(h, CompileKinds) /\ tpc[h] = "run")
  BY <1>1 DEF IsKind, CompileKinds
<1>5. /\ cur'[h] = Idle /\ tpc'[h] = "locked" /\ mg'[h] = NoModule
      /\ \A g \in Threads : g # h => cur'[g] = cur[g] /\ tpc'[g] = tpc[g] /\ mg'[g] = mg[g]
  BY <1>1 DEF BatchInv, WorkTypes
<1>6. mg'[h].out = 0 /\ mg'[h].fin = 0 /\ mg'[h].fail = 0
  BY <1>5 DEF NoModule
<1> QED
  BY <1>1, <1>2, <1>3, <1>4, <1>5, <1>6, SlotChanges

LEMMA WithoutSeq ==
  ASSUME NEW S, NEW s \in Seq(S), NEW i \in 1..Len(s)
  PROVE  Without(s, i) \in Seq(S) /\ s[i] \in S
<1>1. Len(s) \in Nat /\ \A j \in 1..Len(s) : s[j] \in S
  BY ElementOfSeq
<1>2. SubSeq(s, 1, i - 1) \in Seq(S) /\ SubSeq(s, i + 1, Len(s)) \in Seq(S)
  BY <1>1
<1> QED
  BY <1>1, <1>2 DEF Without

\* findHighestPriorityTask() returns only a kind whose canStart predicate holds.
LEMMA OnlyStartable == ASSUME NEW k, HighestPriority(k) PROVE CanStart(k)
BY DEF HighestPriority, Startable

\* A batch that starts leaves the queue and is being compiled.
LEMMA StartKeepsBatches ==
  ASSUME BatchInv, NEW h \in Threads, NEW k \in Kinds, StartTask(h, k) PROVE BatchInv'
<1>1. /\ tpc[h] \in {"locked", "awake"} /\ cur[h] = Idle /\ mg[h].out = 0
      /\ worklist[k] \in Seq(Items) /\ worklist[k] # <<>>
      /\ \A ks : ~IsKind(h, ks)
  <2>1. tpc[h] \in {"locked", "awake"} /\ worklist[k] # <<>>
    BY OnlyStartable DEF StartTask, HasLock, CanStart
  <2>2. cur[h] = Idle
    BY <2>1 DEF BatchInv, Stages
  <2> QED
    BY <2>1, <2>2 DEF BatchInv, Stages, WorkTypes, IsMaster, IsKind
<1>2. PICK i \in Poppable(k), n \in Batches(k) :
        /\ worklist' = [worklist EXCEPT ![k] = Without(@, i)]
        /\ cur' = IF k = "ionFree" THEN cur
                  ELSE [cur EXCEPT ![h] = <<[kind |-> k, item |-> worklist[k][i]]>>]
        /\ mg' = [mg EXCEPT ![h] = [NoModule EXCEPT !.left = n]]
  BY DEF StartTask
<1>3. tpc' = [tpc EXCEPT ![h] = IF k = "ionFree" THEN "free" ELSE "run"]
  BY DEF StartTask
<1>4. i \in 1..Len(worklist[k]) /\ n \in Nat
  <2>1. Len(worklist[k]) \in Nat /\ Len(worklist[k]) # 0
    BY <1>1, EmptySeq
  <2> QED
    BY <2>1, BoundsAssumption DEF Poppable, Batches
<1>5. Without(worklist[k], i) \in Seq(Items) /\ worklist[k][i] \in Items
  BY <1>1, <1>4, WithoutSeq
<1>6. /\ mg' \in [Threads -> Modules]
      /\ mg'[h].out = 0 /\ mg'[h].fin = 0 /\ mg'[h].fail = 0
      /\ \A g \in Threads : g # h => mg'[g] = mg[g]
  <2> DEFINE new == [NoModule EXCEPT !.left = n]
  <2>1. new \in Modules /\ new.out = 0 /\ new.fin = 0 /\ new.fail = 0
    BY <1>4 DEF NoModule, Modules
  <2> QED
    BY <1>2, <2>1 DEF BatchInv, WorkTypes
<1>7. /\ WorkTypes'
      /\ \A g \in Threads : g # h => cur'[g] = cur[g] /\ tpc'[g] = tpc[g]
      /\ tpc'[h] = IF k = "ionFree" THEN "free" ELSE "run"
      /\ cur'[h] = IF k = "ionFree" THEN Idle ELSE <<[kind |-> k, item |-> worklist[k][i]]>>
  <2>1. [kind |-> k, item |-> worklist[k][i]] \in Current
    BY <1>5 DEF Current
  <2>2. worklist' \in [Kinds -> Seq(Items)]
    BY <1>2, <1>5 DEF BatchInv, WorkTypes
  <2> QED
    BY <1>1, <1>2, <1>3, <1>6, <2>1, <2>2 DEF BatchInv, WorkTypes, ThreadStates
<1>8. \A j \in Kinds : j # k => worklist'[j] = worklist[j]
  BY <1>2 DEF BatchInv, WorkTypes
<1>9. CASE k \notin CompileKinds
  <2>1. \A j \in CompileKinds : worklist'[j] = worklist[j]
    BY <1>8, <1>9 DEF CompileKinds, Kinds
  <2>2. ~(IsKind(h, CompileKinds)' /\ tpc'[h] = "run")
    BY <1>7, <1>9 DEF IsKind
  <2> QED
    BY <1>1, <1>6, <1>7, <2>1, <2>2, SlotChanges
<1>10. CASE k \in CompileKinds
  <2> DEFINE owner == worklist[k][1]
  <2>1. i = 1 /\ k # "ionFree"
    BY <1>10 DEF Poppable, CompileKinds
  <2>2. owner \in Threads /\ IsMaster(owner) /\ Mode(owner) = k /\ owner # h /\ Owns(owner, k)
    BY <1>1, <1>4, <1>10, <2>1 DEF BatchInv, QueuedOwned, Owns, IsMaster
  <2>3. /\ tpc'[h] = "run" /\ cur'[h] = <<[kind |-> k, item |-> owner]>>
        /\ worklist'[k] = Without(worklist[k], 1)
    BY <1>2, <1>7, <2>1 DEF BatchInv, WorkTypes
  <2>4. cur'[h] # Idle /\ cur'[h][1].kind = k /\ cur'[h][1].item = owner
    BY <2>3 DEF Idle
  <2> HIDE DEF owner
  <2>5. \A g \in Threads : g # h => \A ks : IsKind(g, ks)' = IsKind(g, ks)
    BY <1>7 DEF IsKind
  <2>6. ~IsMaster(h)' /\ ~IsMaster(h) /\ Mode(h) = "tier1" /\ Mode(h)' = "tier1"
    BY <1>1, <1>10, <2>4 DEF IsMaster, Mode, IsKind, MasterKinds, CompileKinds
  <2>7. \A o \in Threads : /\ IsMaster(o)' = IsMaster(o) /\ Mode(o)' = Mode(o)
                           /\ \A j : Owns(o, j)' = Owns(o, j)
    <3>1. \A o \in Threads : o # h => IsMaster(o)' = IsMaster(o) /\ Mode(o)' = Mode(o)
      BY <2>5 DEF IsMaster, Mode
    <3>2. \A o \in Threads : IsMaster(o)' = IsMaster(o) /\ Mode(o)' = Mode(o)
      <4>1. IsMaster(h)' = IsMaster(h)
        BY <1>1, <2>6 DEF IsMaster, IsKind
      <4> QED
        BY <2>6, <3>1, <4>1
    <3> QED
      BY <3>2 DEF Owns
  <2>8. \A o : /\ Occurrences(worklist[k], o)
                    = Occurrences(worklist'[k], o) + (IF owner = o THEN 1 ELSE 0)
               /\ Occurrences(worklist'[k], o) \in Nat
    <3>1. worklist'[k] \in Seq(Items)
      BY <1>7 DEF WorkTypes
    <3> QED
      BY <1>1, <2>3, <3>1, OccurrencesWithoutFirst, OccurrencesNat DEF owner
  <2>9. QueuedOwned'
    <3>1. \A j \in DOMAIN worklist'[k] : \E m \in DOMAIN worklist[k] :
            worklist'[k][j] = worklist[k][m]
      <4> DEFINE w == worklist[k]
      <4>1. w \in Seq(Items) /\ w # <<>> /\ worklist'[k] = Without(w, 1)
        BY <1>1, <2>3
      <4> HIDE DEF w
      <4>2. \A j \in DOMAIN Without(w, 1) : \E m \in DOMAIN w : Without(w, 1)[j] = w[m]
        BY <4>1, OccurrencesWithoutFirst
      <4> QED
        BY <4>1, <4>2 DEF w
    <3>2. ASSUME NEW j \in CompileKinds, NEW m \in DOMAIN worklist'[j]
          PROVE  \E o \in Threads : o = worklist'[j][m] /\ Owns(o, j)
      <4>1. \E x \in DOMAIN worklist[j] : worklist'[j][m] = worklist[j][x]
        BY <1>8, <3>1, <3>2 DEF CompileKinds, Kinds
      <4> QED
        BY <3>2, <4>1 DEF BatchInv, QueuedOwned, Owns
    <3> QED
      BY <2>7, <3>2 DEF QueuedOwned
  <2>10. CompilingOwned'
    <3>1. ASSUME NEW g \in Threads, IsKind(g, CompileKinds)', tpc'[g] = "run"
          PROVE  Owns(cur'[g][1].item, cur'[g][1].kind)
      BY <1>7, <2>2, <2>4, <2>5, <3>1 DEF BatchInv, CompilingOwned
    <3> QED
      BY <2>7, <3>1 DEF CompilingOwned, Owns
  <2>11. Stages'
    <3>1. ASSUME NEW g \in Threads, g # h
          PROVE  /\ tpc'[g] \notin {"run", "abort", "drain", "ran"} => cur'[g] = Idle
                 /\ tpc'[g] \in {"abort", "drain"} => IsMaster(g)'
                 /\ ~IsMaster(g)' \/ tpc'[g] = "ran" => mg'[g].out = 0
      BY <1>6, <1>7, <2>7, <3>1 DEF BatchInv, Stages
    <3> QED
      BY <1>6, <2>3, <3>1 DEF Stages
  <2>12. ASSUME NEW o \in Threads PROVE CountedFor(o)'
    <3>1. /\ CountedFor(o) /\ Mode(o) \in CompileKinds /\ mg[o] \in Modules
          /\ Occurrences(worklist[Mode(o)], o) \in Nat /\ IsFiniteSet(CompilingFor(o))
          /\ Cardinality(CompilingFor(o)) \in Nat
      BY CountsNat DEF BatchInv
    <3>2. Occurrences(worklist[Mode(o)], o)' = Occurrences(worklist'[Mode(o)], o)
      BY <2>7 DEF Occurrences, Places
    <3>3. h \notin CompilingFor(o)
      BY <1>1 DEF CompilingFor
    <3>4. CompilingFor(o)' = CompilingFor(o) \cup (IF o = owner THEN {h} ELSE {})
      <4>1. \A g \in Threads : g # h => (g \in CompilingFor(o)' <=> g \in CompilingFor(o))
        BY <1>7, <2>5, <2>7 DEF CompilingFor
      <4>2. h \in CompilingFor(o)' <=> o = owner
        BY <2>2, <2>3, <2>4, <2>7 DEF CompilingFor, IsKind
      <4>3. CompilingFor(o) \subseteq Threads /\ CompilingFor(o)' \subseteq Threads
        BY DEF CompilingFor
      <4> QED
        BY <3>3, <4>1, <4>2, <4>3
    <3>5. mg'[o].out = mg[o].out /\ mg'[o].fin = mg[o].fin /\ mg'[o].fail = mg[o].fail
      BY <1>1, <1>6, Unowned
    <3>6. CASE o = owner
      <4>1. Cardinality(CompilingFor(o))' = Cardinality(CompilingFor(o)) + 1
        BY <3>1, <3>3, <3>4, <3>6, FS_AddElement
      <4>2. Occurrences(worklist[Mode(o)], o) = Occurrences(worklist'[Mode(o)], o) + 1
            /\ Occurrences(worklist'[Mode(o)], o) \in Nat
        BY <2>2, <2>8, <3>6
      <4> QED
        BY <3>1, <3>2, <3>5, <4>1, <4>2 DEF CountedFor, Modules
    <3>7. CASE o # owner
      <4>1. CompilingFor(o)' = CompilingFor(o)
        BY <3>4, <3>7
      <4>2. Occurrences(worklist'[Mode(o)], o) = Occurrences(worklist[Mode(o)], o)
        <5>1. CASE Mode(o) = k
          BY <2>8, <3>7, <5>1
        <5>2. CASE Mode(o) # k
          BY <1>8, <3>1, <5>2 DEF CompileKinds, Kinds
        <5> QED
          BY <5>1, <5>2
      <4> QED
        BY <3>1, <3>2, <3>5, <4>1, <4>2 DEF CountedFor
    <3> QED
      BY <3>6, <3>7
  <2> QED
    BY <1>7, <2>9, <2>10, <2>11, <2>12 DEF BatchInv
<1> QED
  BY <1>9, <1>10

\* Steps of threads without a task, and of the main thread.
LEMMA IdleStep ==
  ASSUME BatchInv, cur' = cur, mg' = mg,
         worklist' \in [Kinds -> Seq(Items)], tpc' \in [Threads -> ThreadStates],
         \A k \in CompileKinds : worklist'[k] = worklist[k],
         \A g \in Threads : tpc'[g] # tpc[g] =>
           /\ tpc[g] \notin {"run", "abort", "drain", "ran"}
           /\ tpc'[g] \notin {"run", "abort", "drain", "ran"}
  PROVE  BatchInv'
<1>1. WorkTypes'
  BY DEF BatchInv, WorkTypes
<1>2. \A g \in Threads : IsMaster(g)' = IsMaster(g)
  BY DEF IsMaster, IsKind
<1>3. Stages'
  BY <1>2 DEF BatchInv, Stages
<1>4. \A h \in Threads : mg'[h].out - mg'[h].fin - mg'[h].fail
                           = mg[h].out - mg[h].fin - mg[h].fail
  OBVIOUS
<1>5. \A g \in Threads : tpc'[g] = "run" <=> tpc[g] = "run"
  OBVIOUS
<1> QED
  BY <1>1, <1>3, <1>4, <1>5, BatchesUnchanged

\* Handing a task to the pool queues no batch.
LEMMA EnqueueKeeps ==
  ASSUME BatchInv, NEW k \in Kinds \ CompileKinds, NEW l \in Seq(Items),
         worklist' = [worklist EXCEPT ![k] = l], cur' = cur, mg' = mg,
         tpc' \in NotifyOne \/ tpc' = tpc
  PROVE  BatchInv'
<1>1. /\ worklist \in [Kinds -> Seq(Items)] /\ tpc \in [Threads -> ThreadStates]
      /\ WorkTypes
  BY DEF BatchInv, WorkTypes
<1>2. worklist' \in [Kinds -> Seq(Items)] /\ \A j \in CompileKinds : worklist'[j] = worklist[j]
  BY <1>1 DEF Kinds, CompileKinds
<1>3. /\ tpc' \in [Threads -> ThreadStates]
      /\ \A g \in Threads : tpc'[g] # tpc[g] => tpc[g] = "wait" /\ tpc'[g] = "awake"
  BY <1>1, NotifyWakes
<1> QED
  BY <1>2, <1>3, IdleStep

\* The same for compressions, however many of the pending ones become ready.
LEMMA CompressionsKeep ==
  ASSUME BatchInv, NEW ready, ready \subseteq CompressTasks,
         StartHandlingCompressionTasks(ready)
  PROVE  BatchInv'
<1>1. PICK s \in Orders(ready) :
        worklist' = [worklist EXCEPT !["compress"] = worklist["compress"] \o s]
  BY DEF StartHandlingCompressionTasks
<1>2. s \in Seq(Items)
  <2>1. Cardinality(ready) \in Nat
    BY BoundsAssumption, FS_Subset, FS_CardinalityType
  <2>2. ready \subseteq Items /\ s \in [1..Cardinality(ready) -> ready]
    BY DEF Orders, Items, Tasks
  <2>3. s \in [1..Cardinality(ready) -> Items]
    BY <2>2
  <2> QED
    BY <2>1, <2>3, IsASeq, SeqDef
<1>3. "compress" \in Kinds \ CompileKinds
  BY DEF Kinds, CompileKinds
<1>4. worklist["compress"] \o s \in Seq(Items)
  <2>1. worklist["compress"] \in Seq(Items)
    BY <1>3 DEF BatchInv, WorkTypes
  <2> QED
    BY <1>2, <2>1
<1>5. cur' = cur /\ mg' = mg /\ (tpc' \in NotifyOne \/ tpc' = tpc)
  BY DEF StartHandlingCompressionTasks, NotifyNobody
<1> QED
  BY <1>1, <1>3, <1>4, <1>5, EnqueueKeeps

\* Whatever the main thread hands to the pool, it queues no batch.
LEMMA StartKeeps ==
  ASSUME BatchInv, PendingOK, Start PROVE BatchInv'
<1>1. CASE \E k \in Kinds \ CompileKinds, t \in Tasks : Enqueue(k, t)
  <2>1. PICK k \in Kinds \ CompileKinds, t \in Tasks : Enqueue(k, t)
    BY <1>1
  <2>2. worklist[k] \in Seq(Items) /\ t \in Items
    BY DEF BatchInv, WorkTypes, Items
  <2>3. Append(worklist[k], t) \in Seq(Items)
    BY <2>2
  <2> QED
    BY <2>1, <2>3, EnqueueKeeps DEF Enqueue
<1>2. CASE SweepCompressionTasks \/ \E t \in CompressTasks : EnqueueOffThreadCompression(t)
  <2>1. cur' = cur /\ mg' = mg /\ worklist' = worklist /\ tpc' = tpc
    BY <1>2 DEF SweepCompressionTasks, EnqueueOffThreadCompression, poolVars
  <2>2. worklist \in [Kinds -> Seq(Items)] /\ tpc \in [Threads -> ThreadStates]
    BY DEF BatchInv, WorkTypes
  <2> QED
    BY <2>1, <2>2, IdleStep
<1>3. CASE ScheduleByGC
  BY <1>3, CompressionsKeep DEF ScheduleByGC, PendingOK
<1>4. {"gc", "ion", "ionFree", "promise", "parse"} \subseteq Kinds \ CompileKinds
  BY DEF Kinds, CompileKinds
<1> QED
  BY <1>1, <1>2, <1>3, <1>4
  DEF Start, StartGCParallelTask, StartOffThreadIonCompile, StartOffThreadIonFree,
      StartOffThreadPromiseHelperTask, QueueOffThreadParseTask, Tasks

\* What a master does between its batches.
LEMMA MasterKeeps ==
  ASSUME BatchInv, NEW h \in Threads, MasterStep(h) PROVE BatchInv'
<1>1. CASE LaunchBatchCompile(h)
  BY <1>1, LaunchKeepsBatches
<1>2. CASE Abort(h)
  BY <1>2, AbortKeepsBatches
<1>3. /\ tpc \in [Threads -> ThreadStates] /\ mg \in [Threads -> Modules] /\ mg[h] \in Modules
      /\ worklist \in [Kinds -> Seq(Items)] /\ WorkTypes
      /\ \A g \in Threads : IsMaster(g) => ~IsKind(g, CompileKinds)
  BY DEF BatchInv, WorkTypes, IsMaster, IsKind, MasterKinds, CompileKinds
<1>4. cur' = cur => \A g \in Threads : IsMaster(g)' = IsMaster(g)
  BY DEF IsMaster, IsKind
<1>5. CASE LaunchFails(h)
  <2>1. /\ IsMaster(h) /\ tpc[h] = "run" /\ tpc' = [tpc EXCEPT ![h] = "abort"]
        /\ cur' = cur /\ mg' = mg /\ worklist' = worklist
    BY <1>5 DEF LaunchFails
  <2>2. WorkTypes'
    BY <1>3, <2>1 DEF WorkTypes, ThreadStates
  <2>3. Stages'
    BY <1>3, <1>4, <2>1 DEF BatchInv, Stages
  <2>4. \A g \in Threads : IsKind(g, CompileKinds) => (tpc'[g] = "run" <=> tpc[g] = "run")
    BY <1>3, <2>1
  <2> QED
    BY <2>1, <2>2, <2>3, <2>4, BatchesUnchanged
<1>6. CASE FinishOutstandingTask(h)
  <2>0. /\ IsMaster(h) /\ tpc[h] = "run" /\ mg[h].out > 0 /\ cur' = cur /\ worklist' = worklist
    BY <1>6 DEF FinishOutstandingTask, MustFinishOutstanding
  <2>1. CASE tpc' = [tpc EXCEPT ![h] = "abort"] /\ mg' = mg
    <3>1. WorkTypes'
      BY <1>3, <2>0, <2>1 DEF WorkTypes, ThreadStates
    <3>2. Stages'
      BY <1>3, <1>4, <2>0, <2>1 DEF BatchInv, Stages
    <3>3. \A g \in Threads : IsKind(g, CompileKinds) => (tpc'[g] = "run" <=> tpc[g] = "run")
      BY <1>3, <2>0, <2>1
    <3> QED
      BY <2>0, <2>1, <3>1, <3>2, <3>3, BatchesUnchanged
  <2>2. CASE mg[h].fin > 0 /\ tpc' = tpc
             /\ mg' = [mg EXCEPT ![h].out = @ - 1, ![h].fin = @ - 1]
    <3> DEFINE one == [mg[h] EXCEPT !.out = mg[h].out - 1]
               two == [one EXCEPT !.fin = mg[h].fin - 1]
    <3>1. mg[h].out - 1 \in Nat /\ mg[h].fin - 1 \in Nat
      BY <1>3, <2>0, <2>2 DEF Modules
    <3>2. /\ one \in Modules /\ one.out = mg[h].out - 1 /\ one.fin = mg[h].fin
          /\ one.fail = mg[h].fail
      BY <1>3, <3>1 DEF Modules
    <3> HIDE DEF one
    <3>3. /\ two \in Modules /\ two.out = mg[h].out - 1 /\ two.fin = mg[h].fin - 1
          /\ two.fail = mg[h].fail
      BY <3>1, <3>2 DEF Modules
    <3>4. mg' = [mg EXCEPT ![h] = two]
      BY <1>3, <2>2, <3>2 DEF one
    <3> HIDE DEF two
    <3>5. /\ mg' \in [Threads -> Modules] /\ mg'[h] = two
          /\ \A g \in Threads : g # h => mg'[g] = mg[g]
      BY <1>3, <3>3, <3>4
    <3>6. WorkTypes'
      BY <1>3, <2>0, <2>2, <3>5 DEF WorkTypes
    <3>7. Stages'
      BY <1>4, <2>0, <2>2, <3>5 DEF BatchInv, Stages
    <3>8. mg'[h].out - mg'[h].fin - mg'[h].fail = mg[h].out - mg[h].fin - mg[h].fail
      BY <1>3, <3>3, <3>5 DEF Modules
    <3>9. \A o \in Threads : mg'[o].out - mg'[o].fin - mg'[o].fail
                               = mg[o].out - mg[o].fin - mg[o].fail
      BY <3>5, <3>8
    <3>10. \A g \in Threads : tpc'[g] = "run" <=> tpc[g] = "run"
      BY <2>2
    <3> QED
      BY <2>0, <3>6, <3>7, <3>9, <3>10, BatchesUnchanged
  <2> QED
    BY <1>6, <2>1, <2>2 DEF FinishOutstandingTask
<1>7. CASE AbortDrained(h)
  <2>1. /\ tpc[h] = "drain" /\ tpc' = [tpc EXCEPT ![h] = "ran"] /\ IsMaster(h)
        /\ cur' = cur /\ worklist' = worklist /\ mg' = [mg EXCEPT ![h] = NoModule]
        /\ mg[h].out = mg[h].fin + mg[h].fail
    BY <1>7 DEF AbortDrained, BatchInv, Stages
  <2>2. NoModule \in Modules /\ NoModule.out = 0 /\ NoModule.fin = 0 /\ NoModule.fail = 0
    BY DEF NoModule, Modules
  <2>3. mg' \in [Threads -> Modules] /\ mg'[h] = NoModule
        /\ \A g \in Threads : g # h => mg'[g] = mg[g]
    BY <1>3, <2>1, <2>2
  <2>4. WorkTypes'
    BY <1>3, <2>1, <2>3 DEF WorkTypes, ThreadStates
  <2>5. Stages'
    BY <1>3, <1>4, <2>1, <2>2, <2>3 DEF BatchInv, Stages
  <2>6. mg'[h].out - mg'[h].fin - mg'[h].fail = mg[h].out - mg[h].fin - mg[h].fail
    BY <1>3, <2>1, <2>2, <2>3 DEF Modules
  <2>7. \A o \in Threads : mg'[o].out - mg'[o].fin - mg'[o].fail
                             = mg[o].out - mg[o].fin - mg[o].fail
    BY <2>3, <2>6
  <2>8. \A g \in Threads : tpc'[g] = "run" <=> tpc[g] = "run"
    BY <1>3, <2>1
  <2> QED
    BY <2>1, <2>4, <2>5, <2>7, <2>8, BatchesUnchanged
<1>8. CASE StartOffThreadWasmTier2Generator(h) \/ FinishModule(h)
  <2>1. IsMaster(h) /\ tpc[h] = "run" /\ mg[h].out = 0 /\ cur' = cur /\ mg' = mg
    BY <1>8 DEF StartOffThreadWasmTier2Generator, FinishModule, ModuleDone
  <2>2. /\ tpc' \in [Threads -> ThreadStates] /\ tpc'[h] = "ran"
        /\ \A g \in Threads : g # h =>
             tpc'[g] = tpc[g] \/ (tpc[g] = "wait" /\ tpc'[g] = "awake")
    <3>1. CASE FinishModule(h)
      BY <1>3, <3>1 DEF FinishModule, ThreadStates
    <3>2. CASE StartOffThreadWasmTier2Generator(h)
      <4>1. PICK pc \in NotifyOne : tpc' = [pc EXCEPT ![h] = "ran"]
        BY <3>2 DEF StartOffThreadWasmTier2Generator
      <4>2. /\ pc \in [Threads -> ThreadStates]
            /\ \A g \in Threads : pc[g] = tpc[g] \/ (tpc[g] = "wait" /\ pc[g] = "awake")
        BY <1>3, <4>1 DEF NotifyOne, Waiting, ThreadStates
      <4> QED
        BY <4>1, <4>2 DEF ThreadStates
    <3> QED
      BY <1>8, <3>1, <3>2
  <2>3. /\ worklist' \in [Kinds -> Seq(Items)]
        /\ \A k \in CompileKinds : worklist'[k] = worklist[k]
    <3>1. CASE FinishModule(h)
      BY <1>3, <3>1 DEF FinishModule
    <3>2. CASE StartOffThreadWasmTier2Generator(h)
      <4>1. cur[h][1].item \in Items /\ "generator" \in Kinds \ CompileKinds
        BY <2>1 DEF BatchInv, WorkTypes, IsMaster, IsKind, Current, Kinds, CompileKinds
      <4>2. worklist["generator"] \in Seq(Items)
        BY <1>3, <4>1
      <4>3. Append(worklist["generator"], cur[h][1].item) \in Seq(Items)
        BY <4>1, <4>2
      <4> QED
        BY <1>3, <3>2, <4>1, <4>3 DEF StartOffThreadWasmTier2Generator, CompileKinds, Kinds
    <3> QED
      BY <1>8, <3>1, <3>2
  <2>4. WorkTypes'
    BY <1>3, <2>1, <2>2, <2>3 DEF WorkTypes
  <2>5. Stages'
    BY <1>4, <2>1, <2>2 DEF BatchInv, Stages
  <2>6. \A g \in Threads : IsKind(g, CompileKinds) => (tpc'[g] = "run" <=> tpc[g] = "run")
    BY <1>3, <2>1, <2>2
  <2> QED
    BY <2>1, <2>3, <2>4, <2>5, <2>6, BatchesUnchanged
<1> QED
  BY <1>1, <1>2, <1>5, <1>6, <1>7, <1>8 DEF MasterStep

\* No batch exists at first.
LEMMA InitBatches == Init => BatchInv
<1> SUFFICES ASSUME Init PROVE BatchInv
  OBVIOUS
<1>1. /\ worklist = [k \in Kinds |-> <<>>] /\ cur = [h \in Threads |-> Idle]
      /\ tpc = [h \in Threads |-> "awake"] /\ mg = [h \in Threads |-> NoModule]
  BY DEF Init
<1>2. <<>> \in Seq(Items) /\ "awake" \in ThreadStates /\ NoModule \in Modules
  BY DEF ThreadStates, NoModule, Modules
<1>3. WorkTypes
  BY <1>1, <1>2 DEF WorkTypes
<1>4. QueuedOwned
  BY <1>1 DEF QueuedOwned, CompileKinds, Kinds
<1>5. CompilingOwned
  BY <1>1 DEF CompilingOwned
<1>6. NoModule.out = 0 /\ NoModule.fin = 0 /\ NoModule.fail = 0
  BY DEF NoModule
<1>7. Stages
  BY <1>1, <1>6 DEF Stages
<1>8. ASSUME NEW h \in Threads PROVE CountedFor(h)
  <2>1. Mode(h) \in CompileKinds /\ CompileKinds \subseteq Kinds
    BY DEF Mode, CompileKinds, Kinds
  <2>2. Places(worklist[Mode(h)], h) = {}
    BY <1>1, <2>1 DEF Places
  <2>3. CompilingFor(h) = {}
    BY <1>1 DEF CompilingFor
  <2>4. Occurrences(worklist[Mode(h)], h) = 0 /\ Cardinality(CompilingFor(h)) = 0
    BY <2>2, <2>3, FS_EmptySet DEF Occurrences
  <2> QED
    BY <1>1, <1>6, <2>4 DEF CountedFor
<1> QED
  BY <1>3, <1>4, <1>5, <1>7, <1>8 DEF BatchInv

\* Every step of the pool and of the main thread keeps the counts.
LEMMA NextBatches ==
  BatchInv /\ PendingOK /\ [Next]_vars => BatchInv'
<1> SUFFICES ASSUME BatchInv, PendingOK, [Next]_vars PROVE BatchInv'
  OBVIOUS
<1>0. /\ tpc \in [Threads -> ThreadStates] /\ worklist \in [Kinds -> Seq(Items)]
      /\ <<>> \in Seq(Items)
  BY DEF BatchInv, WorkTypes
<1>1. CASE Start
  BY <1>1, StartKeeps
<1>2. ASSUME NEW h \in Threads, LoopStep(h) PROVE BatchInv'
  <2>1. CASE Wait(h) \/ Exit(h)
    <3>1. /\ cur' = cur /\ mg' = mg /\ worklist' = worklist /\ tpc[h] \in {"locked", "awake"}
          /\ tpc' = [tpc EXCEPT ![h] = "wait"] \/ tpc' = [tpc EXCEPT ![h] = "exited"]
      BY <2>1 DEF Wait, Exit, HasLock
    <3> QED
      BY <1>0, <3>1, IdleStep DEF ThreadStates
  <2>2. CASE \E k \in Kinds : StartTask(h, k)
    BY <2>2, StartKeepsBatches
  <2> QED
    BY <1>2, <2>1, <2>2 DEF LoopStep
<1>3. ASSUME NEW h \in Threads, MasterStep(h) PROVE BatchInv'
  BY <1>3, MasterKeeps
<1>4. ASSUME NEW h \in Threads, FinishIonFree(h) \/ SpuriousWakeup(h) PROVE BatchInv'
  <2>1. /\ cur' = cur /\ mg' = mg /\ worklist' = worklist /\ tpc[h] \in {"free", "wait"}
        /\ tpc' = [tpc EXCEPT ![h] = "locked"] \/ tpc' = [tpc EXCEPT ![h] = "awake"]
    BY <1>4 DEF FinishIonFree, SpuriousWakeup
  <2> QED
    BY <1>0, <2>1, IdleStep DEF ThreadStates
<1>5. ASSUME NEW h \in Threads, ReportCompiled(h) PROVE BatchInv'
  BY <1>5, ReportKeepsBatches
<1>6. ASSUME NEW h \in Threads, FinishTask(h) PROVE BatchInv'
  BY <1>6, FinishKeepsBatches
<1>7. CASE WaitForAllThreads \/ Finish
  <2>1. /\ cur' = cur /\ mg' = mg /\ tpc' = tpc
        /\ worklist' = [worklist EXCEPT !["generator"] = <<>>]
    BY <1>7 DEF WaitForAllThreads, Finish, CancelOffThreadWasmTier2Generator
  <2> QED
    BY <1>0, <2>1, IdleStep DEF Kinds, CompileKinds
<1>8. CASE MainWait \/ ConsumerSpuriousWakeup \/ CancelOffThreadCompressions
  <2>1. /\ cur' = cur /\ mg' = mg /\ tpc' = tpc
        /\ \/ worklist' = worklist
           \/ \E k \in Kinds \ CompileKinds : worklist' = [worklist EXCEPT ![k] = <<>>]
    <3>1. "generator" \in Kinds \ CompileKinds /\ "compress" \in Kinds \ CompileKinds
      BY DEF Kinds, CompileKinds
    <3> QED
      BY <1>8, <3>1
      DEF MainWait, GeneratorRecheck, HasActiveThreads, CompressionsStarted, CompressionsJoined,
          CancelOffThreadWasmTier2Generator, ConsumerSpuriousWakeup,
          CancelOffThreadCompressions, poolVars
  <2>2. /\ worklist' \in [Kinds -> Seq(Items)]
        /\ \A k \in CompileKinds : worklist'[k] = worklist[k]
    BY <1>0, <2>1 DEF Kinds, CompileKinds
  <2> QED
    BY <1>0, <2>1, <2>2, IdleStep
<1>9. CASE FinishThreads
  <2>1. CASE \E h \in Threads : DestroyThread(h)
    <3>1. /\ cur' = cur /\ mg' = mg /\ worklist' = worklist
          /\ tpc' = [g \in Threads |-> IF tpc[g] = "wait" THEN "awake" ELSE tpc[g]]
      BY <2>1 DEF DestroyThread
    <3> QED
      BY <1>0, <3>1, IdleStep DEF ThreadStates
  <2>2. CASE FinishThreadsDone
    <3>1. /\ cur' = cur /\ mg' = mg /\ tpc' = tpc
          /\ worklist' = [worklist EXCEPT !["ionFree"] = <<>>]
      BY <2>2 DEF FinishThreadsDone
    <3> QED
      BY <1>0, <3>1, IdleStep DEF Kinds, CompileKinds
  <2> QED
    BY <1>9, <2>1, <2>2 DEF FinishThreads
<1>10. CASE Ended \/ UNCHANGED vars
  <2>1. cur' = cur /\ mg' = mg /\ tpc' = tpc /\ worklist' = worklist
    BY <1>10 DEF Ended, vars, poolVars
  <2> QED
    BY <1>0, <2>1, IdleStep
<1>11. CASE RunPendingSourceCompressions
  BY <1>11, CompressionsKeep DEF RunPendingSourceCompressions, PendingOK
<1> QED
  BY <1>1, <1>2, <1>3, <1>4, <1>5, <1>6, <1>7, <1>8, <1>9, <1>10, <1>11
  DEF Next, ThreadStep

\* Only compressions are ever put off.
LEMMA OnlyCompressionsPend == Spec => []PendingOK
<1>1. Init => PendingOK
  BY DEF Init, PendingOK
<1>2. PendingOK /\ [Next]_vars => PendingOK'
  <2> SUFFICES ASSUME pending \subseteq CompressTasks, [Next]_vars
               PROVE  pending' \subseteq CompressTasks
    BY DEF PendingOK
  <2>1. CASE Start
    BY <2>1
    DEF Start, StartGCParallelTask, StartOffThreadIonCompile, StartOffThreadIonFree,
        StartOffThreadPromiseHelperTask, QueueOffThreadParseTask, Enqueue,
        EnqueueOffThreadCompression, ScheduleByGC, StartHandlingCompressionTasks,
        SweepCompressionTasks, mainVars
  <2>2. ASSUME NEW h \in Threads, ThreadStep(h) \/ SpuriousWakeup(h)
        PROVE  pending' = pending
    BY <2>2
    DEF ThreadStep, LoopStep, StartTask, Wait, Exit, MasterStep, LaunchBatchCompile,
        LaunchFails, FinishOutstandingTask, Abort, AbortDrained,
        StartOffThreadWasmTier2Generator, FinishModule, ReportCompiled, FinishTask,
        FinishIonFree, SpuriousWakeup, mainVars
  <2>3. CASE RunPendingSourceCompressions \/ CancelOffThreadCompressions
    BY <2>3 DEF RunPendingSourceCompressions, StartHandlingCompressionTasks,
                CancelOffThreadCompressions
  <2>4. CASE WaitForAllThreads \/ MainWait \/ ConsumerSpuriousWakeup \/ Finish
    BY <2>4 DEF WaitForAllThreads, MainWait, GeneratorRecheck, HasActiveThreads,
                CompressionsStarted, CompressionsJoined, ConsumerSpuriousWakeup, Finish,
                CancelOffThreadWasmTier2Generator
  <2>5. CASE FinishThreads \/ Ended \/ UNCHANGED vars
    BY <2>5 DEF FinishThreads, DestroyThread, FinishThreadsDone, Ended, mainVars, vars
  <2> QED
    BY <2>1, <2>2, <2>3, <2>4, <2>5 DEF Next
<1> QED
  BY <1>1, <1>2, PTL DEF Spec

\* BatchInv holds in every reachable state.
LEMMA AlwaysBatchInv == Spec => []BatchInv
BY InitBatches, NextBatches, OnlyCompressionsPend, PTL DEF Spec

\* launchBatchCompile(), finishOutstandingTask(), ~ModuleGenerator() and the
\* compile threads keep outstanding_ exact: no batch is lost, none is counted
\* twice, and none is reported to a ModuleGenerator that is gone.
THEOREM BatchesAreCounted == Spec => []OutstandingExact
<1>1. BatchInv => OutstandingExact
  BY DEF BatchInv, CountedFor, OutstandingExact, Occurrences, Places, Queued, Compiling,
         CompilingFor, CompilingOwned, Owns
<1> QED
  BY <1>1, AlwaysBatchInv, PTL

-----------------------------------------------------------------------------
(* The limits on tasks, and the main thread's waits.                       *)

\* Every thread has a currentTask slot; what fills it does not matter here.
SlotsOK == cur = [h \in Threads |-> cur[h]]

\* Where a cancelled wait leads to.
AfterOK == after \in {"all", "join"}

\* The inductive invariant: the three limits, and that the main thread's wait
\* agrees with what it waits for.
IInv ==
  /\ SlotsOK /\ AfterOK
  /\ MastersLeaveOneThread /\ AtMostOneGenerator /\ NoLostConsumerWakeup

\* ThreadCountForCPUCount() gives at least two threads.
LEMMA TwoThreads == \E g, h \in Threads : g # h
<1>1. Cardinality(Threads) \in Nat /\ Cardinality(Threads) >= 2
  BY ThreadsAssumption DEF ThreadCountForCPUCount
<1>2. Threads # {}
  BY <1>1, FS_EmptySet
<1>3. PICK h \in Threads : TRUE
  BY <1>2
<1>4. Threads # {h}
  BY <1>1, FS_Singleton
<1> QED
  BY <1>3, <1>4

\* Of more than one thread, some thread is not h.
LEMMA AnotherThread ==
  ASSUME NEW S, S \subseteq Threads, Cardinality(S) > 1, NEW h
  PROVE  \E g \in S : g # h
<1>1. IsFiniteSet(S)
  BY ThreadsAssumption, FS_Subset
<1>2. S # {} /\ S # {h}
  BY <1>1, FS_EmptySet, FS_Singleton
<1> QED
  BY <1>2

\* A master starts only while a second thread is idle, and it is never a kind
\* without a limit.
LEMMA MasterStarts ==
  ASSUME NEW k \in MasterKinds, CanStart(k)
  PROVE  Cardinality(IdleThreads) > 1
BY DEF CanStart, CheckTaskThreadLimit, CanStartWasmTier2Generator, MasterKinds,
       CompileKinds

\* A generator starts only while none runs.
LEMMA GeneratorStarts ==
  ASSUME CanStart("generator")
  PROVE  Running({"generator"}) = {}
<1>1. Cardinality(Running({"generator"})) < 1
  BY DEF CanStart, CheckTaskThreadLimit, CanStartWasmTier2Generator, CompileKinds,
         MaxTier2GeneratorTasks
<1>2. IsFiniteSet(Running({"generator"}))
  BY ThreadsAssumption, FS_Subset DEF Running
<1>3. Cardinality(Running({"generator"})) = 0
  BY <1>1, <1>2, FS_CardinalityType
<1> QED
  BY <1>2, <1>3, FS_EmptySet

\* No thread runs a task at first.
LEMMA InitIInv == Init => IInv
<1> SUFFICES ASSUME Init PROVE IInv
  OBVIOUS
<1>1. \A kinds : Running(kinds) = {}
  BY DEF Init, Running, IsKind
<1>2. Running(MasterKinds) # Threads
  BY <1>1, TwoThreads
<1>3. Cardinality(Running({"generator"})) <= 1
  BY <1>1, FS_EmptySet
<1> QED
  BY <1>2, <1>3 DEF Init, IInv, SlotsOK, AfterOK, MastersLeaveOneThread,
                    AtMostOneGenerator, NoLostConsumerWakeup

\* Steps that start and end no task, and leave the main thread's wait alone.
LEMMA PoolUnchanged ==
  ASSUME IInv, UNCHANGED <<cur, genFinished, mpc, after, oldFinished>>,
         UNCHANGED worklist["compress"]
  PROVE  IInv'
BY DEF IInv, SlotsOK, AfterOK, MastersLeaveOneThread, AtMostOneGenerator,
       NoLostConsumerWakeup, Running, IsKind, IdleThreads

\* Steps of the main thread alone.
LEMMA CurUnchanged ==
  ASSUME IInv, UNCHANGED cur, AfterOK', NoLostConsumerWakeup' PROVE IInv'
BY DEF IInv, SlotsOK, MastersLeaveOneThread, AtMostOneGenerator, Running, IsKind

\* AtMostOneGenerator bounds the size of every part of the running generators.
LEMMA FewerGenerators ==
  ASSUME AtMostOneGenerator, Running({"generator"})' \subseteq Running({"generator"})
  PROVE  AtMostOneGenerator'
<1>1. IsFiniteSet(Running({"generator"}))
  BY ThreadsAssumption, FS_Subset DEF Running
<1>2. /\ Cardinality(Running({"generator"})') <= Cardinality(Running({"generator"}))
      /\ Cardinality(Running({"generator"})') \in Nat
      /\ Cardinality(Running({"generator"})) \in Nat
  BY <1>1, FS_Subset, FS_CardinalityType
<1> QED
  BY <1>2 DEF AtMostOneGenerator

\* A task starts on thread h.
LEMMA StartIInv ==
  ASSUME IInv, BatchInv, NEW h \in Threads, NEW k \in Kinds, StartTask(h, k)
  PROVE  IInv'
<1> USE DEF IInv
<1>1. CASE k = "ionFree"
  <2>1. UNCHANGED <<cur, genFinished, mpc, after, oldFinished>>
    BY <1>1 DEF StartTask, mainVars
  <2>2. UNCHANGED worklist["compress"]
    BY <1>1 DEF StartTask, BatchInv, WorkTypes, Kinds
  <2> QED
    BY <2>1, <2>2, PoolUnchanged
<1>2. CASE k # "ionFree"
  <2>1. PICK c : cur' = [cur EXCEPT ![h] = <<[kind |-> k, item |-> c]>>]
    BY <1>2 DEF StartTask
  <2>2. cur'[h] # Idle /\ cur'[h][1].kind = k
    BY <2>1 DEF SlotsOK, Idle
  <2>3. \A g \in Threads : g # h => cur'[g] = cur[g]
    BY <2>1 DEF SlotsOK
  <2>4. CanStart(k)
    BY OnlyStartable DEF StartTask
  <2>5. SlotsOK'
    BY <2>1 DEF SlotsOK
  <2>6. MastersLeaveOneThread'
    <3>1. CASE k \in MasterKinds
      <4>a. IdleThreads \subseteq Threads
        BY DEF IdleThreads
      <4>b. Cardinality(IdleThreads) > 1
        BY <2>4, <3>1, MasterStarts
      <4>1. PICK g \in IdleThreads : g # h
        BY <4>a, <4>b, AnotherThread
      <4>2. g \in Threads /\ cur'[g] = Idle
        BY <4>1, <2>3 DEF IdleThreads
      <4> QED
        BY <4>2 DEF MastersLeaveOneThread, Running, IsKind
    <3>2. CASE k \notin MasterKinds
      BY <2>2, <3>2 DEF MastersLeaveOneThread, Running, IsKind
    <3> QED
      BY <3>1, <3>2
  <2>7. AtMostOneGenerator'
    <3>1. CASE k = "generator"
      <4>1. Running({"generator"}) = {}
        BY <2>4, <3>1, GeneratorStarts
      <4>2. Running({"generator"})' = {h}
        BY <4>1, <2>2, <2>3, <3>1 DEF Running, IsKind
      <4>3. Cardinality({h}) = 1
        BY FS_Singleton
      <4> QED
        BY <4>2, <4>3 DEF AtMostOneGenerator
    <3>2. CASE k # "generator"
      <4>1. Running({"generator"})' \subseteq Running({"generator"})
        BY <2>2, <2>3, <3>2 DEF Running, IsKind
      <4> QED
        BY <4>1, FewerGenerators
    <3> QED
      BY <3>1, <3>2
  <2>8. k # "compress" => UNCHANGED worklist["compress"]
    BY DEF StartTask, BatchInv, WorkTypes, Kinds
  <2>9. Running({"compress"}) \subseteq Running({"compress"})'
    <3>1. cur[h] = Idle
      BY DEF StartTask, HasLock, BatchInv, Stages
    <3> QED
      BY <2>3, <3>1 DEF Running, IsKind
  <2>10. k = "compress" => h \in Running({"compress"})'
    BY <2>2 DEF Running, IsKind
  <2>11. NoLostConsumerWakeup'
    BY <2>2, <2>8, <2>9, <2>10 DEF NoLostConsumerWakeup, StartTask, mainVars, IdleThreads
  <2> QED
    BY <2>5, <2>6, <2>7, <2>8, <2>11 DEF StartTask, mainVars, AfterOK
<1> QED
  BY <1>1, <1>2

\* A handler returns on thread h: its slot empties and the consumer is woken.
LEMMA FinishIInv ==
  ASSUME IInv, NEW h \in Threads, FinishTask(h) PROVE IInv'
<1> USE DEF IInv
<1>1. cur' = [cur EXCEPT ![h] = Idle]
  BY DEF FinishTask
<1>2. cur'[h] = Idle /\ \A g \in Threads : g # h => cur'[g] = cur[g]
  BY <1>1 DEF SlotsOK
<1>3. SlotsOK'
  BY <1>1 DEF SlotsOK
<1>4. MastersLeaveOneThread'
  BY <1>2 DEF MastersLeaveOneThread, Running, IsKind
<1>5. AtMostOneGenerator'
  <2>1. Running({"generator"})' \subseteq Running({"generator"})
    BY <1>2 DEF Running, IsKind
  <2> QED
    BY <2>1, FewerGenerators
<1>6. NoLostConsumerWakeup'
  <2>1. mpc' \notin ConsumerWaits
    BY DEF FinishTask, NotifyConsumer, ConsumerWaits
  <2> QED
    BY <2>1 DEF NoLostConsumerWakeup, ConsumerWaits
<1> QED
  BY <1>3, <1>4, <1>5, <1>6 DEF FinishTask, AfterOK

\* The main thread begins to wait for a generator, or goes on without one.
LEMMA CancelIInv ==
  ASSUME IInv, NEW next, next \in {"all", "join"},
         CancelOffThreadWasmTier2Generator(next)
  PROVE  IInv'
<1>1. UNCHANGED cur /\ UNCHANGED genFinished
  BY DEF CancelOffThreadWasmTier2Generator
<1>2. \/ mpc' = next
      \/ mpc' = "genWait" /\ oldFinished' = genFinished
  BY DEF CancelOffThreadWasmTier2Generator
<1>3. NoLostConsumerWakeup'
  BY <1>1, <1>2 DEF NoLostConsumerWakeup
<1>4. AfterOK'
  BY DEF CancelOffThreadWasmTier2Generator, IInv, AfterOK
<1> QED
  BY <1>1, <1>3, <1>4, CurUnchanged

\* Handing tasks to the pool: only a main thread that does not wait does so.
LEMMA StartsIInv == ASSUME IInv, Start PROVE IInv'
<1>1. mpc = "script" /\ UNCHANGED <<cur, mpc, after>>
  BY DEF Start, StartGCParallelTask, StartOffThreadIonCompile, StartOffThreadIonFree,
         StartOffThreadPromiseHelperTask, QueueOffThreadParseTask, Enqueue,
         EnqueueOffThreadCompression, ScheduleByGC, StartHandlingCompressionTasks,
         SweepCompressionTasks, poolVars, mainVars
<1>2. AfterOK' /\ NoLostConsumerWakeup'
  BY <1>1 DEF IInv, AfterOK, NoLostConsumerWakeup
<1> QED
  BY <1>1, <1>2, CurUnchanged

\* A master's steps leave every worklist but those of its batches and of the
\* generators alone.
LEMMA MasterIInv == ASSUME IInv, BatchInv, NEW h \in Threads, MasterStep(h) PROVE IInv'
<1>1. UNCHANGED <<cur, genFinished, mpc, after, oldFinished>>
  BY DEF MasterStep, LaunchBatchCompile, LaunchFails, FinishOutstandingTask, Abort,
         AbortDrained, StartOffThreadWasmTier2Generator, FinishModule, DispatchResolve,
         taskVars, mainVars
<1>2. \/ worklist' = worklist
      \/ \E k \in Kinds \ {"compress"} : \E l : worklist' = [worklist EXCEPT ![k] = l]
  <2>1. Mode(h) \in Kinds \ {"compress"} /\ "generator" \in Kinds \ {"compress"}
    BY DEF Mode, Kinds
  <2> QED
    BY <2>1 DEF MasterStep, LaunchBatchCompile, LaunchFails, FinishOutstandingTask, Abort,
                AbortDrained, StartOffThreadWasmTier2Generator, FinishModule
<1>3. UNCHANGED worklist["compress"]
  BY <1>2 DEF BatchInv, WorkTypes, Kinds
<1> QED
  BY <1>1, <1>3, PoolUnchanged

\* The main thread waits for compressions to start, then for every thread.
LEMMA CompressionsStartedIInv == ASSUME IInv, CompressionsStarted PROVE IInv'
<1>1. CASE CancelOffThreadWasmTier2Generator("all")
  BY <1>1, CancelIInv
<1>2. CASE /\ worklist["compress"] # <<>> /\ mpc' = "compressWait"
           /\ UNCHANGED <<poolVars, taskVars, after, oldFinished, pending>>
  <2>1. UNCHANGED <<cur, worklist, after>>
    BY <1>2 DEF poolVars
  <2>2. NoLostConsumerWakeup' /\ AfterOK'
    BY <1>2, <2>1 DEF NoLostConsumerWakeup, IInv, AfterOK
  <2> QED
    BY <2>1, <2>2, CurUnchanged
<1> QED
  BY <1>1, <1>2 DEF CompressionsStarted

\* Every step of the pool and of the main thread keeps the invariant.
LEMMA NextIInv == IInv /\ BatchInv /\ [Next]_vars => IInv'
<1> SUFFICES ASSUME IInv, BatchInv, [Next]_vars PROVE IInv'
  OBVIOUS
<1>1. CASE Start
  BY <1>1, StartsIInv
<1>2. ASSUME NEW h \in Threads, LoopStep(h) PROVE IInv'
  <2>1. CASE Wait(h) \/ Exit(h)
    BY <2>1, PoolUnchanged DEF Wait, Exit, taskVars, mainVars
  <2>2. CASE \E k \in Kinds : StartTask(h, k)
    BY <2>2, StartIInv
  <2> QED
    BY <1>2, <2>1, <2>2 DEF LoopStep
<1>3. ASSUME NEW h \in Threads, MasterStep(h) PROVE IInv'
  BY <1>3, MasterIInv
<1>4. ASSUME NEW h \in Threads,
             ReportCompiled(h) \/ FinishIonFree(h) \/ SpuriousWakeup(h)
      PROVE IInv'
  BY <1>4, PoolUnchanged DEF ReportCompiled, FinishIonFree, SpuriousWakeup, taskVars, mainVars
<1>5. ASSUME NEW h \in Threads, FinishTask(h) PROVE IInv'
  BY <1>5, FinishIInv
<1>6. CASE WaitForAllThreads \/ Finish
  BY <1>6, CancelIInv DEF WaitForAllThreads, Finish
<1>7. CASE GeneratorRecheck
  <2>1. UNCHANGED <<cur, genFinished, after, oldFinished>>
    BY <1>7 DEF GeneratorRecheck, poolVars, taskVars
  <2>2. (mpc' = "genWait" /\ genFinished = oldFinished) \/ mpc' \in {"all", "join"}
    BY <1>7 DEF GeneratorRecheck, IInv, AfterOK
  <2>3. NoLostConsumerWakeup' /\ AfterOK'
    BY <2>1, <2>2 DEF NoLostConsumerWakeup, IInv, AfterOK
  <2> QED
    BY <2>1, <2>3, CurUnchanged
<1>8. CASE HasActiveThreads
  <2>1. NoLostConsumerWakeup'
    BY <1>8 DEF HasActiveThreads, NoLostConsumerWakeup, poolVars, IdleThreads
  <2> QED
    BY <1>8, <2>1, CurUnchanged DEF IInv, AfterOK, HasActiveThreads, poolVars
<1>9. CASE CompressionsStarted
  BY <1>9, CompressionsStartedIInv
<1>10. CASE CompressionsJoined
  <2>1. NoLostConsumerWakeup'
    BY <1>10 DEF CompressionsJoined, NoLostConsumerWakeup, poolVars, Running, IsKind
  <2> QED
    BY <1>10, <2>1, CurUnchanged DEF IInv, AfterOK, CompressionsJoined, poolVars
<1>11. CASE RunPendingSourceCompressions \/ CancelOffThreadCompressions \/ ConsumerSpuriousWakeup
  <2>1. UNCHANGED <<cur, after>> /\ mpc' \notin ConsumerWaits
    BY <1>11 DEF RunPendingSourceCompressions, StartHandlingCompressionTasks,
                 CancelOffThreadCompressions, ConsumerSpuriousWakeup, NotifyConsumer,
                 ConsumerWaits, poolVars
  <2>2. NoLostConsumerWakeup' /\ AfterOK'
    BY <2>1 DEF NoLostConsumerWakeup, ConsumerWaits, IInv, AfterOK
  <2> QED
    BY <2>1, <2>2, CurUnchanged
<1>12. CASE FinishThreads
  <2>1. /\ UNCHANGED <<cur, after>>
        /\ \/ UNCHANGED <<mpc, genFinished, oldFinished, worklist>>
           \/ mpc' = "end"
    BY <1>12 DEF FinishThreads, DestroyThread, FinishThreadsDone, mainVars
  <2>2. NoLostConsumerWakeup'
    BY <2>1 DEF IInv, NoLostConsumerWakeup, IdleThreads, Running, IsKind
  <2> QED
    BY <2>1, <2>2, CurUnchanged DEF IInv, AfterOK
<1>13. CASE Ended \/ UNCHANGED vars
  BY <1>13, PoolUnchanged DEF Ended, vars, poolVars, taskVars, mainVars
<1> QED
  BY <1>1, <1>2, <1>3, <1>4, <1>5, <1>6, <1>7, <1>8, <1>9, <1>10, <1>11, <1>12, <1>13
  DEF Next, ThreadStep, MainWait

\* IInv holds in every reachable state.
LEMMA AlwaysIInv == Spec => []IInv
BY InitIInv, NextIInv, AlwaysBatchInv, PTL DEF Spec

\* checkTaskThreadLimit(): master tasks never hold every thread of the pool.
THEOREM OneThreadForWork == Spec => []MastersLeaveOneThread
<1>1. IInv => MastersLeaveOneThread
  BY DEF IInv
<1> QED
  BY <1>1, AlwaysIInv, PTL

\* canStartWasmTier2Generator() admits one generator at a time, which is what
\* CancelOffThreadWasmTier2GeneratorLocked() relies on.
THEOREM OneGenerator == Spec => []AtMostOneGenerator
<1>1. IInv => AtMostOneGenerator
  BY DEF IInv
<1> QED
  BY <1>1, AlwaysIInv, PTL

\* Whatever interleaving of handlers and waits, the main thread is notified.
THEOREM ConsumerIsWoken == Spec => []NoLostConsumerWakeup
<1>1. IInv => NoLostConsumerWakeup
  BY DEF IInv
<1> QED
  BY <1>1, AlwaysIInv, PTL


-----------------------------------------------------------------------------
(* The pool's types, the life of a task in it, the order of shutdown, and  *)
(* the wakeups.                                                            *)

\* Everything but the compilations, which belong to threads.
PoolKinds == Kinds \ CompileKinds

\* Masters whose task a runtime waits for before it goes away.
WaitKinds == {"promise", "parse"}

\* The part of TypeOK that is not about the threads and their work.
Scalars ==
  /\ started \subseteq Tasks /\ completed \subseteq started
  /\ cancelled \subseteq Tasks
  /\ genFinished \in Nat /\ oldFinished \in Nat
  /\ terminating \subseteq Threads
  /\ mpc \in {"script", "genWait", "genWoken", "all", "allWait", "allWoken", "compress",
              "compressWait", "compressWoken", "cancel", "cancelWait", "cancelWoken",
              "join", "end"}
  /\ after \in {"all", "join"}

\* What is queued or performed has been started and is of its kind.
Sorted ==
  /\ \A k \in PoolKinds : \A i \in DOMAIN worklist[k] :
       worklist[k][i] \in TasksOf(k) \cap started
  /\ \A h \in Threads :
       cur[h] # Idle =>
         /\ cur[h][1].kind \in CompileKinds => cur[h][1].item \in Threads
         /\ cur[h][1].kind \in PoolKinds =>
              cur[h][1].item \in TasksOf(cur[h][1].kind) \cap started

\* A promise or parse task is in one place until it completes, and when it has
\* completed its handler has nothing left to do.
QueuedOnce ==
  \A k \in WaitKinds :
    /\ \A i \in DOMAIN worklist[k] : worklist[k][i] \notin completed
    /\ \A i, j \in DOMAIN worklist[k] : worklist[k][i] = worklist[k][j] => i = j

RunOnce ==
  \A h \in Threads : IsKind(h, WaitKinds) =>
    /\ cur[h][1].item \in completed => tpc[h] = "ran"
    /\ \A i \in DOMAIN worklist[cur[h][1].kind] :
         worklist[cur[h][1].kind][i] # cur[h][1].item
    /\ \A g \in Threads : IsKind(g, WaitKinds) /\ cur[g][1].item = cur[h][1].item => g = h

\* finish() is past its guard.
Finishing == mpc \in {"join", "end"} \/ (mpc \in {"genWait", "genWoken"} /\ after = "join")

\* No master is queued or has anything left to do; the last generator may still
\* run, but then the main thread waits for it.
Shutdown ==
  /\ Finishing =>
       /\ \A k \in MasterKinds : worklist[k] = <<>>
       /\ \A h \in Threads : IsKind(h, WaitKinds) => tpc[h] = "ran"
       /\ Running({"generator"}) = {} \/ (genFinished = oldFinished /\ mpc \notin {"join", "end"})
  /\ terminating # {} => mpc \in {"join", "end"}

\* The inductive invariant.
LifeInv == Scalars /\ Sorted /\ QueuedOnce /\ RunOnce /\ Shutdown

\* A thread inside a handler that sets currentTask has one.
BusyOK ==
  \A h \in Threads : tpc[h] \in {"run", "abort", "drain", "ran"} => cur[h] # Idle

\* What the steps rely on and is proved without LifeInv.
Known == BatchInv /\ PendingOK /\ AtMostOneGenerator /\ BusyOK

-----------------------------------------------------------------------------
\* TasksOf() kind by kind.
LEMMA TasksByKind ==
  /\ TasksOf("gc") = GcTasks /\ TasksOf("ion") = IonTasks
  /\ TasksOf("ionFree") = IonFreeTasks /\ TasksOf("parse") = ParseTasks
  /\ TasksOf("promise") = PromiseTasks /\ TasksOf("generator") = PromiseTasks
  /\ TasksOf("compress") = CompressTasks
  /\ TasksOf("tier1") = Threads /\ TasksOf("tier2") = Threads
BY DEF TasksOf, CompileKinds

\* The kinds of task that are no compilations share no task, except that a
\* generator is called after its promise task.
LEMMA KindsDisjoint ==
  ASSUME NEW k \in WaitKinds, NEW l \in Kinds, l # k, l # "generator", NEW t \in TasksOf(k)
  PROVE  t \notin TasksOf(l) /\ t \in Tasks /\ t \notin Threads
<1>1. k \in Kinds \ {"generator", "tier2"} /\ t \in Tasks
  <2>1. k = "promise" \/ k = "parse"
    BY DEF WaitKinds
  <2> QED
    BY <2>1, TasksByKind DEF Kinds, Tasks
<1>2. t \notin Threads
  <2>1. TasksOf("tier1") = Threads /\ "tier1" \in Kinds \ {"generator", "tier2"} /\ k # "tier1"
    BY TasksByKind DEF WaitKinds, Kinds
  <2> QED
    BY <1>1, <2>1, KindsAssumption
<1>3. CASE l = "tier2"
  BY <1>1, <1>2, <1>3, TasksByKind
<1>4. CASE l # "tier2"
  BY <1>1, <1>2, <1>4, KindsAssumption
<1> QED
  BY <1>1, <1>2, <1>3, <1>4

\* Popping leaves the elements at the other indices, in their order.
LEMMA WithoutElements ==
  ASSUME NEW S, NEW s \in Seq(S), NEW i \in 1..Len(s)
  PROVE  /\ Len(Without(s, i)) = Len(s) - 1
         /\ \A j \in DOMAIN Without(s, i) :
              Without(s, i)[j] = s[IF j < i THEN j ELSE j + 1]
         /\ \A j \in DOMAIN Without(s, i) :
              (IF j < i THEN j ELSE j + 1) \in DOMAIN s \ {i}
<1> DEFINE a == SubSeq(s, 1, i - 1)
           b == SubSeq(s, i + 1, Len(s))
<1>1. /\ a \in Seq(S) /\ Len(a) = i - 1 /\ \A j \in 1..(i - 1) : a[j] = s[j]
      /\ b \in Seq(S) /\ Len(b) = Len(s) - i /\ \A j \in 1..(Len(s) - i) : b[j] = s[i + j]
  OBVIOUS
<1> HIDE DEF a, b
<1>2. DOMAIN s = 1..Len(s) /\ Len(s) \in Nat /\ i \in Nat /\ i >= 1 /\ i <= Len(s)
  OBVIOUS
<1> DEFINE w == a \o b
<1>3. w \in Seq(S) /\ Len(w) = Len(s) - 1
      /\ \A j \in 1..(Len(s) - 1) : w[j] = IF j <= i - 1 THEN a[j] ELSE b[j - (i - 1)]
  <2>1. /\ w \in Seq(S) /\ Len(w) = Len(a) + Len(b)
        /\ \A j \in 1..(Len(a) + Len(b)) :
             w[j] = IF j <= Len(a) THEN a[j] ELSE b[j - Len(a)]
    BY <1>1, ConcatProperties
  <2>2. Len(a) + Len(b) = Len(s) - 1
    BY <1>1, <1>2
  <2> HIDE DEF w
  <2> QED
    BY <1>1, <2>1, <2>2
<1> HIDE DEF w
<1>4. DOMAIN w = 1..(Len(s) - 1)
  BY <1>3, LenProperties
<1>5. \A j \in 1..(Len(s) - 1) : w[j] = s[IF j < i THEN j ELSE j + 1]
  <2> TAKE j \in 1..(Len(s) - 1)
  <2>1. CASE j < i
    BY <1>1, <1>2, <1>3, <2>1
  <2>2. CASE ~(j < i)
    <3>1. j - (i - 1) \in 1..(Len(s) - i) /\ i + (j - (i - 1)) = j + 1
      BY <1>2, <2>2
    <3> QED
      BY <1>1, <1>2, <1>3, <2>2, <3>1
  <2> QED
    BY <2>1, <2>2
<1>6. \A j \in 1..(Len(s) - 1) : (IF j < i THEN j ELSE j + 1) \in 1..Len(s) \ {i}
  BY <1>2
<1>7. w = Without(s, i)
  BY DEF w, a, b, Without
<1>8. /\ Len(w) = Len(s) - 1
      /\ \A j \in DOMAIN w : w[j] = s[IF j < i THEN j ELSE j + 1]
      /\ \A j \in DOMAIN w : (IF j < i THEN j ELSE j + 1) \in DOMAIN s \ {i}
  BY <1>2, <1>3, <1>4, <1>5, <1>6
<1> QED
  BY <1>7, <1>8

-----------------------------------------------------------------------------
(* Parts of the invariant that many steps keep for the same reason.        *)

\* One worklist changes; what it holds afterwards is of its kind and started.
LEMMA SortedKeeps ==
  ASSUME Sorted, WorkTypes, cur' = cur, started \subseteq started',
         NEW k \in PoolKinds, NEW l, worklist' = [worklist EXCEPT ![k] = l],
         \A i \in DOMAIN l : l[i] \in TasksOf(k) \cap started'
  PROVE  Sorted'
<1>1. k \in Kinds /\ PoolKinds \subseteq Kinds /\ worklist'[k] = l
      /\ \A j \in PoolKinds : j # k => worklist'[j] = worklist[j]
  BY DEF WorkTypes, PoolKinds
<1>2. ASSUME NEW j \in PoolKinds, NEW i \in DOMAIN worklist'[j]
      PROVE  worklist'[j][i] \in TasksOf(j) \cap started'
  BY <1>1, <1>2 DEF Sorted
<1> QED
  BY <1>2 DEF Sorted

\* Tasks complete that no runtime waits for, or whose handler is at its end.
LEMMA OnceKeeps ==
  ASSUME QueuedOnce, RunOnce, cur' = cur,
         \A k \in WaitKinds : worklist'[k] = worklist[k],
         \A h \in Threads : IsKind(h, WaitKinds) /\ tpc[h] = "ran" => tpc'[h] = "ran",
         NEW D, completed' = completed \cup D,
         \A k \in WaitKinds : \A i \in DOMAIN worklist[k] : worklist[k][i] \notin D,
         \A h \in Threads : IsKind(h, WaitKinds) /\ cur[h][1].item \in D => tpc'[h] = "ran"
  PROVE  QueuedOnce' /\ RunOnce'
<1>1. QueuedOnce'
  BY DEF QueuedOnce
<1>2. \A h, ks : IsKind(h, ks)' = IsKind(h, ks)
  BY DEF IsKind
<1>3. \A h \in Threads : IsKind(h, WaitKinds) => cur[h][1].kind \in WaitKinds
  BY DEF IsKind
<1>4. RunOnce'
  BY <1>2, <1>3 DEF RunOnce
<1> QED
  BY <1>1, <1>4

\* Nothing completes.
LEMMA OnceUnchanged ==
  ASSUME QueuedOnce, RunOnce, cur' = cur, completed' = completed,
         \A k \in WaitKinds : worklist'[k] = worklist[k],
         \A h \in Threads : IsKind(h, WaitKinds) /\ tpc[h] = "ran" => tpc'[h] = "ran"
  PROVE  QueuedOnce' /\ RunOnce'
<1> DEFINE D == {}
<1>1. completed' = completed \cup D /\ \A t : t \notin D
  OBVIOUS
<1> HIDE DEF D
<1> QED
  BY <1>1, OnceKeeps

\* No task of another kind is one that a runtime waits for.
LEMMA OtherTask ==
  ASSUME Sorted, NEW l \in Kinds \ WaitKinds, l # "generator", NEW t \in TasksOf(l)
  PROVE  /\ \A k \in WaitKinds : \A i \in DOMAIN worklist[k] : worklist[k][i] # t
         /\ \A h \in Threads : IsKind(h, WaitKinds) => cur[h][1].item # t
<1>1. \A k \in WaitKinds : t \notin TasksOf(k)
  BY KindsDisjoint
<1>2. WaitKinds \subseteq PoolKinds
  BY DEF WaitKinds, PoolKinds, Kinds, CompileKinds
<1>3. \A k \in WaitKinds : \A i \in DOMAIN worklist[k] : worklist[k][i] # t
  BY <1>1, <1>2 DEF Sorted
<1>4. \A h \in Threads : IsKind(h, WaitKinds) => cur[h][1].item # t
  BY <1>1, <1>2 DEF Sorted, IsKind
<1> QED
  BY <1>3, <1>4

\* Steps of a thread that is not at a task's end, and that leave every list but
\* the compilations alone.
LEMMA QuietKeeps ==
  ASSUME LifeInv,
         UNCHANGED <<cur, started, completed, cancelled, genFinished, terminating>>,
         UNCHANGED <<mpc, after, oldFinished>>,
         \A k \in PoolKinds : worklist'[k] = worklist[k],
         \A h \in Threads : tpc[h] = "ran" => tpc'[h] = "ran"
  PROVE  LifeInv'
<1>1. WaitKinds \subseteq PoolKinds /\ MasterKinds \subseteq PoolKinds
  BY DEF WaitKinds, MasterKinds, PoolKinds, Kinds, CompileKinds
<1>2. Scalars' /\ Sorted'
  BY DEF LifeInv, Scalars, Sorted
<1>3. QueuedOnce' /\ RunOnce'
  BY <1>1, OnceUnchanged DEF LifeInv
<1>4. Shutdown'
  <2>1. Running({"generator"})' = Running({"generator"}) /\ Finishing' = Finishing
        /\ \A h : IsKind(h, WaitKinds)' = IsKind(h, WaitKinds)
    BY DEF Running, IsKind, Finishing
  <2> QED
    BY <1>1, <2>1 DEF LifeInv, Shutdown
<1> QED
  BY <1>2, <1>3, <1>4 DEF LifeInv

\* Steps of the main thread that only change where it is.
LEMMA MainKeeps ==
  ASSUME LifeInv, UNCHANGED <<poolVars, taskVars>>, Scalars', Shutdown'
  PROVE  LifeInv'
<1>1. UNCHANGED <<cur, worklist, started, completed, tpc>>
  BY DEF poolVars, taskVars
<1>2. Sorted'
  BY <1>1 DEF LifeInv, Sorted
<1>3. QueuedOnce' /\ RunOnce'
  BY <1>1, OnceUnchanged DEF LifeInv
<1> QED
  BY <1>2, <1>3 DEF LifeInv

-----------------------------------------------------------------------------
(* The steps.                                                              *)

\* A task is handed to the pool for the first time.
LEMMA EnqueueLife ==
  ASSUME LifeInv, BatchInv, NEW k \in {"gc", "ion", "ionFree", "promise", "parse"},
         NEW t \in TasksOf(k), Enqueue(k, t)
  PROVE  LifeInv'
<1>1. /\ k \in PoolKinds /\ k \in Kinds /\ k # "generator" /\ WaitKinds \subseteq Kinds
      /\ t \in Tasks
  <2>1. k \in PoolKinds /\ k \in Kinds /\ k # "generator" /\ WaitKinds \subseteq Kinds
    BY DEF PoolKinds, Kinds, CompileKinds, WaitKinds
  <2>2. t \in Tasks
    BY TasksByKind DEF Tasks
  <2> QED
    BY <2>1, <2>2
<1>2. /\ mpc = "script" /\ t \notin started /\ started' = started \cup {t}
      /\ worklist' = [worklist EXCEPT ![k] = Append(worklist[k], t)]
      /\ tpc' \in NotifyOne
      /\ UNCHANGED <<cur, completed, cancelled, genFinished, terminating>>
      /\ UNCHANGED <<mpc, after, oldFinished>>
  BY DEF Enqueue, mainVars
<1>3. Scalars'
  BY <1>1, <1>2 DEF LifeInv, Scalars
<1>4. worklist[k] \in Seq(Items) /\ t \in Items
  BY <1>1 DEF BatchInv, WorkTypes, Items
<1> DEFINE l == Append(worklist[k], t)
<1>5. /\ Len(worklist[k]) \in Nat /\ DOMAIN worklist[k] = 1..Len(worklist[k])
      /\ DOMAIN l = 1..(Len(worklist[k]) + 1)
      /\ \A i \in DOMAIN worklist[k] : l[i] = worklist[k][i]
      /\ l[Len(worklist[k]) + 1] = t
  BY <1>4
<1> HIDE DEF l
<1>6. \A i \in DOMAIN l : i \in DOMAIN worklist[k] \/ l[i] = t
  BY <1>5
<1>7. Sorted'
  <2>1. \A i \in DOMAIN l : l[i] \in TasksOf(k) \cap started'
    BY <1>1, <1>2, <1>5, <1>6 DEF LifeInv, Sorted
  <2> QED
    BY <1>1, <1>2, <2>1, SortedKeeps DEF LifeInv, BatchInv, l
<1>8. /\ worklist'[k] = l /\ \A j \in WaitKinds : j # k => worklist'[j] = worklist[j]
  BY <1>1, <1>2 DEF BatchInv, WorkTypes, l
<1>9. QueuedOnce'
  <2>1. t \notin completed
    BY <1>2 DEF LifeInv, Scalars
  <2>2. \A i \in DOMAIN worklist[k] : worklist[k][i] # t
    BY <1>1, <1>2 DEF LifeInv, Sorted
  <2>3. k \in WaitKinds => /\ \A i \in DOMAIN l : l[i] \notin completed
                           /\ \A i, j \in DOMAIN l : l[i] = l[j] => i = j
    BY <1>5, <1>6, <2>1, <2>2 DEF LifeInv, QueuedOnce
  <2> QED
    BY <1>2, <1>8, <2>3 DEF LifeInv, QueuedOnce
<1>10. \A h \in Threads : tpc[h] = "ran" => tpc'[h] = "ran"
  BY <1>2, NotifyWakes DEF BatchInv
<1>11. RunOnce'
  <2>1. ASSUME NEW h \in Threads, IsKind(h, WaitKinds)
        PROVE  /\ cur[h][1].item \in completed' => tpc'[h] = "ran"
               /\ \A i \in DOMAIN worklist'[cur[h][1].kind] :
                    worklist'[cur[h][1].kind][i] # cur[h][1].item
    <3>1. cur[h][1].kind \in WaitKinds /\ cur[h][1].item # t
      BY <1>2, <2>1 DEF LifeInv, Sorted, IsKind, WaitKinds, PoolKinds, Kinds, CompileKinds
    <3>2. cur[h][1].item \in completed' => tpc'[h] = "ran"
      BY <1>2, <1>10, <2>1 DEF LifeInv, RunOnce
    <3>3. \A i \in DOMAIN worklist[cur[h][1].kind] :
            worklist[cur[h][1].kind][i] # cur[h][1].item
      BY <2>1 DEF LifeInv, RunOnce
    <3> QED
      BY <1>5, <1>6, <1>8, <3>1, <3>2, <3>3
  <2> QED
    BY <1>2, <2>1 DEF LifeInv, RunOnce, IsKind
<1>12. Shutdown'
  BY <1>2 DEF LifeInv, Shutdown, Finishing
<1> QED
  BY <1>3, <1>7, <1>9, <1>11, <1>12 DEF LifeInv

\* Put-off compressions are handed to the pool.
LEMMA CompressLife ==
  ASSUME LifeInv, BatchInv, NEW ready, ready \subseteq CompressTasks, mpc = "script",
         mpc' \in {"script", "compress"}, StartHandlingCompressionTasks(ready)
  PROVE  LifeInv'
<1>1. PICK s \in Orders(ready) :
        worklist' = [worklist EXCEPT !["compress"] = worklist["compress"] \o s]
  BY DEF StartHandlingCompressionTasks
<1>2. /\ started' = started \cup ready
      /\ tpc' \in NotifyOne \/ tpc' = tpc
      /\ UNCHANGED <<cur, completed, cancelled, genFinished, terminating, after, oldFinished>>
  BY DEF StartHandlingCompressionTasks, NotifyNobody
<1>3. "compress" \in PoolKinds /\ "compress" \notin WaitKinds /\ WaitKinds \subseteq Kinds
  BY DEF PoolKinds, Kinds, CompileKinds, WaitKinds
<1>4. Scalars'
  BY <1>2 DEF LifeInv, Scalars, Tasks
<1>5. Sorted'
  <2> DEFINE q == worklist["compress"]
             l == q \o s
  <2>1. q \in Seq(Items)
    BY <1>3 DEF BatchInv, WorkTypes, PoolKinds
  <2>2. s \in Seq(ready) /\ \A i \in DOMAIN s : s[i] \in ready
    <3>1. Cardinality(ready) \in Nat
      BY BoundsAssumption, FS_Subset, FS_CardinalityType
    <3>2. s \in [1..Cardinality(ready) -> ready]
      BY DEF Orders
    <3> QED
      BY <3>1, <3>2, IsASeq, SeqDef
  <2>3. \A i \in DOMAIN q : q[i] \in CompressTasks \cap started
    BY <1>3, TasksByKind DEF LifeInv, Sorted
  <2> HIDE DEF q
  <2>4. q \in Seq(CompressTasks \cap started') /\ s \in Seq(CompressTasks \cap started')
    <3> DEFINE S == CompressTasks \cap started'
    <3>1. (\A i \in DOMAIN q : q[i] \in S) /\ (\A i \in DOMAIN s : s[i] \in S)
      BY <1>2, <2>2, <2>3
    <3>2. /\ Len(q) \in Nat /\ q \in [1..Len(q) -> Items] /\ DOMAIN q = 1..Len(q)
          /\ Len(s) \in Nat /\ s \in [1..Len(s) -> ready] /\ DOMAIN s = 1..Len(s)
      BY <2>1, <2>2, LenProperties
    <3> HIDE DEF S
    <3>3. q \in [1..Len(q) -> S] /\ s \in [1..Len(s) -> S]
      BY <3>1, <3>2
    <3>4. q \in Seq(S) /\ s \in Seq(S)
      BY <3>2, <3>3, SeqDef
    <3> QED
      BY <3>4 DEF S
  <2>5. l \in Seq(CompressTasks \cap started')
    BY <2>4, ConcatProperties
  <2> HIDE DEF l
  <2>6. \A i \in DOMAIN l : l[i] \in TasksOf("compress") \cap started'
    BY <2>5, LenProperties, ElementOfSeq, TasksByKind
  <2>7. worklist' = [worklist EXCEPT !["compress"] = l]
    BY <1>1 DEF l, q
  <2>8. started \subseteq started' /\ cur' = cur
    BY <1>2
  <2> QED
    BY <1>3, <2>6, <2>7, <2>8, SortedKeeps DEF LifeInv, BatchInv
<1>6. \A k \in WaitKinds : worklist'[k] = worklist[k]
  BY <1>1, <1>3 DEF BatchInv, WorkTypes
<1>7. \A h \in Threads : tpc[h] = "ran" => tpc'[h] = "ran"
  BY <1>2, NotifyWakes DEF BatchInv
<1>8. QueuedOnce' /\ RunOnce'
  BY <1>2, <1>6, <1>7, OnceUnchanged DEF LifeInv
<1>9. Shutdown'
  BY <1>2 DEF LifeInv, Shutdown, Finishing
<1> QED
  BY <1>4, <1>5, <1>8, <1>9 DEF LifeInv

\* A master is done; a promise task is handed back to its runtime, and a wasm
\* module may leave a generator behind.
LEMMA DispatchLife ==
  ASSUME LifeInv, BatchInv, NEW h \in Threads, IsMaster(h), tpc[h] # "ran",
         DispatchResolve(h), UNCHANGED <<cur, mpc, after, oldFinished>>,
         tpc'[h] = "ran", \A g \in Threads : tpc[g] = "ran" => tpc'[g] = "ran",
         \/ worklist' = worklist
         \/ /\ IsKind(h, {"promise"})
            /\ worklist' = [worklist EXCEPT !["generator"] = Append(@, cur[h][1].item)]
  PROVE  LifeInv'
<1> DEFINE t == cur[h][1].item
           D == IF IsKind(h, {"promise"}) THEN {t} ELSE {}
<1>1. /\ completed' = completed \cup D
      /\ UNCHANGED <<started, cancelled, genFinished, terminating>>
  BY DEF DispatchResolve
<1>2. cur[h] # Idle /\ cur[h][1].kind \in MasterKinds
  BY DEF IsMaster, IsKind
<1>3. /\ MasterKinds \subseteq PoolKinds /\ WaitKinds \subseteq PoolKinds
      /\ PoolKinds \subseteq Kinds /\ "generator" \in PoolKinds /\ "generator" \notin WaitKinds
  BY DEF MasterKinds, WaitKinds, PoolKinds, Kinds, CompileKinds
<1>4. IsKind(h, {"promise"}) => t \in PromiseTasks /\ t \in started /\ IsKind(h, WaitKinds)
  BY <1>2, <1>3, TasksByKind DEF LifeInv, Sorted, IsKind, WaitKinds
<1>5. Scalars'
  BY <1>1, <1>4 DEF LifeInv, Scalars
<1>6. Sorted'
  <2>1. CASE worklist' = worklist
    BY <1>1, <2>1 DEF LifeInv, Sorted
  <2>2. CASE /\ IsKind(h, {"promise"})
             /\ worklist' = [worklist EXCEPT !["generator"] = Append(@, t)]
    <3> DEFINE q == worklist["generator"]
               l == Append(q, t)
    <3>1. q \in Seq(Items) /\ t \in Items
      BY <1>3, <1>4, <2>2 DEF BatchInv, WorkTypes, Items, Tasks
    <3>2. /\ DOMAIN l = 1..(Len(q) + 1) /\ DOMAIN q = 1..Len(q) /\ l[Len(q) + 1] = t
          /\ \A i \in DOMAIN q : l[i] = q[i]
      BY <3>1
    <3>a. Len(q) \in Nat
      BY <3>1
    <3>3. \A i \in DOMAIN q : q[i] \in TasksOf("generator") \cap started
      BY <1>3 DEF LifeInv, Sorted
    <3> HIDE DEF l, q, t
    <3>4. \A i \in DOMAIN l : l[i] \in TasksOf("generator") \cap started'
      BY <1>1, <1>4, <2>2, <3>2, <3>a, <3>3, TasksByKind
    <3>5. worklist' = [worklist EXCEPT !["generator"] = l]
      BY <2>2 DEF l, q
    <3> QED
      BY <1>1, <1>3, <3>4, <3>5, SortedKeeps DEF LifeInv, BatchInv
  <2> QED
    BY <2>1, <2>2
<1>7. \A k \in WaitKinds : worklist'[k] = worklist[k]
  BY <1>3 DEF BatchInv, WorkTypes
<1>8. QueuedOnce' /\ RunOnce'
  <2>1. \A k \in WaitKinds : \A i \in DOMAIN worklist[k] : worklist[k][i] \notin D
    <3> SUFFICES ASSUME IsKind(h, {"promise"}), NEW k \in WaitKinds,
                        NEW i \in DOMAIN worklist[k]
                 PROVE  worklist[k][i] # t
      OBVIOUS
    <3>1. CASE k = "promise"
      BY <1>4, <3>1 DEF LifeInv, RunOnce, IsKind
    <3>2. CASE k # "promise"
      <4>1. worklist[k][i] \in TasksOf(k)
        BY <1>3 DEF LifeInv, Sorted
      <4>2. worklist[k][i] \notin TasksOf("promise")
        BY <1>3, <3>2, <4>1, KindsDisjoint DEF Kinds
      <4> QED
        BY <1>4, <4>2, TasksByKind
    <3> QED
      BY <3>1, <3>2
  <2>2. ASSUME NEW g \in Threads, IsKind(g, WaitKinds), cur[g][1].item \in D
        PROVE  tpc'[g] = "ran"
    <3>1. g = h
      BY <1>4, <2>2 DEF LifeInv, RunOnce
    <3> QED
      BY <3>1
  <2> HIDE DEF D
  <2> QED
    BY <1>1, <1>7, <2>1, <2>2, OnceKeeps DEF LifeInv
<1>9. Shutdown'
  <2>1. Running({"generator"})' = Running({"generator"}) /\ Finishing' = Finishing
        /\ \A g, ks : IsKind(g, ks)' = IsKind(g, ks)
    BY DEF Running, IsKind, Finishing
  <2>2. Finishing => worklist' = worklist
    BY <1>4 DEF LifeInv, Shutdown
  <2> QED
    BY <1>1, <2>1, <2>2 DEF LifeInv, Shutdown
<1> QED
  BY <1>5, <1>6, <1>8, <1>9 DEF LifeInv

\* A thread without a task takes one from a worklist.
LEMMA StartLife ==
  ASSUME LifeInv, BatchInv, NEW h \in Threads, NEW k \in Kinds, StartTask(h, k)
  PROVE  LifeInv'
<1>1. /\ tpc[h] # "ran" /\ cur[h] = Idle /\ worklist[k] # <<>> /\ worklist[k] \in Seq(Items)
      /\ \A ks : ~IsKind(h, ks)
  <2>1. tpc[h] \in {"locked", "awake"} /\ worklist[k] # <<>>
    BY OnlyStartable DEF StartTask, HasLock, CanStart
  <2>2. cur[h] = Idle
    BY <2>1 DEF BatchInv, Stages
  <2> QED
    BY <2>1, <2>2 DEF BatchInv, WorkTypes, IsKind
<1>2. PICK i \in Poppable(k) :
        /\ worklist' = [worklist EXCEPT ![k] = Without(worklist[k], i)]
        /\ cur' = IF k = "ionFree" THEN cur
                  ELSE [cur EXCEPT ![h] = <<[kind |-> k, item |-> worklist[k][i]]>>]
        /\ completed' = IF k = "ionFree" THEN completed \cup {worklist[k][i]}
                                         ELSE completed
  BY DEF StartTask
<1>3. i \in 1..Len(worklist[k])
  <2>1. Len(worklist[k]) \in Nat /\ Len(worklist[k]) # 0
    BY <1>1, EmptySeq
  <2> QED
    BY <2>1 DEF Poppable
<1> DEFINE q == worklist[k]
           t == q[i]
           w == Without(q, i)
<1>4. /\ DOMAIN q = 1..Len(q) /\ i \in DOMAIN q
      /\ \A j \in DOMAIN w : w[j] = q[IF j < i THEN j ELSE j + 1]
                             /\ (IF j < i THEN j ELSE j + 1) \in DOMAIN q \ {i}
      /\ \A j \in DOMAIN w : j \in Nat
  <2>1. w \in Seq(Items)
    BY <1>1, <1>3, WithoutSeq
  <2>2. \A j \in DOMAIN w : j \in Nat
    BY <2>1, LenProperties
  <2>3. DOMAIN q = 1..Len(q)
    BY <1>1, LenProperties
  <2>4. /\ \A j \in DOMAIN w : w[j] = q[IF j < i THEN j ELSE j + 1]
        /\ \A j \in DOMAIN w : (IF j < i THEN j ELSE j + 1) \in DOMAIN q \ {i}
    BY <1>1, <1>3, WithoutElements
  <2> HIDE DEF w, q
  <2> QED
    BY <1>3, <2>2, <2>3, <2>4 DEF q
<1>5. /\ UNCHANGED <<started, cancelled, genFinished, terminating, mpc, after, oldFinished>>
      /\ tpc' = [tpc EXCEPT ![h] = IF k = "ionFree" THEN "free" ELSE "run"]
  BY DEF StartTask, mainVars
<1>6. /\ worklist'[k] = w /\ \A j \in Kinds : j # k => worklist'[j] = worklist[j]
      /\ tpc'[h] # "ran" /\ \A g \in Threads : g # h => tpc'[g] = tpc[g] /\ cur'[g] = cur[g]
      /\ k # "ionFree" => cur'[h] = <<[kind |-> k, item |-> t]>>
      /\ k = "ionFree" => cur' = cur /\ completed' = completed \cup {t}
      /\ k # "ionFree" => completed' = completed
  BY <1>2, <1>5 DEF BatchInv, WorkTypes
<1>7. PoolKinds \subseteq Kinds /\ WaitKinds \subseteq PoolKinds /\ MasterKinds \subseteq PoolKinds
      /\ (k \in PoolKinds \/ k \in CompileKinds) /\ "ionFree" \in PoolKinds \ WaitKinds
      /\ MasterKinds = WaitKinds \cup {"generator"} /\ "generator" \notin WaitKinds
  BY DEF PoolKinds, Kinds, WaitKinds, MasterKinds, CompileKinds
<1>8. k \in PoolKinds => t \in TasksOf(k) \cap started
  BY <1>4 DEF LifeInv, Sorted
<1>9. k \in CompileKinds => t \in Threads
  BY <1>4 DEF BatchInv, QueuedOwned, Owns
<1> HIDE DEF q, w, t
<1>10. \A j \in DOMAIN w : \E m \in DOMAIN q \ {i} : w[j] = q[m]
  BY <1>4
<1>11. (\A x, y \in DOMAIN q : q[x] = q[y] => x = y)
         => (\A x, y \in DOMAIN w : w[x] = w[y] => x = y)
  <2> SUFFICES ASSUME \A x, y \in DOMAIN q : q[x] = q[y] => x = y,
                      NEW x \in DOMAIN w, NEW y \in DOMAIN w, w[x] = w[y]
               PROVE  x = y
    OBVIOUS
  <2>1. (IF x < i THEN x ELSE x + 1) = (IF y < i THEN y ELSE y + 1)
    BY <1>4
  <2>2. x \in Nat /\ y \in Nat /\ i \in Nat
    BY <1>3, <1>4
  <2> QED
    BY <2>1, <2>2
<1>12. Scalars'
  BY <1>5, <1>6, <1>7, <1>8 DEF LifeInv, Scalars
<1>13. Sorted'
  <2>1. ASSUME NEW l \in PoolKinds, NEW j \in DOMAIN worklist'[l]
        PROVE  worklist'[l][j] \in TasksOf(l) \cap started'
    <3>1. CASE l = k
      <4>1. PICK m \in DOMAIN q : w[j] = q[m]
        BY <1>6, <1>10, <2>1, <3>1
      <4> QED
        BY <1>5, <1>6, <3>1, <4>1 DEF LifeInv, Sorted, q
    <3>2. CASE l # k
      BY <1>5, <1>6, <1>7, <2>1, <3>2 DEF LifeInv, Sorted
    <3> QED
      BY <3>1, <3>2
  <2>2. ASSUME NEW g \in Threads, cur'[g] # Idle
        PROVE  /\ cur'[g][1].kind \in CompileKinds => cur'[g][1].item \in Threads
               /\ cur'[g][1].kind \in PoolKinds =>
                    cur'[g][1].item \in TasksOf(cur'[g][1].kind) \cap started'
    <3>1. CASE g = h /\ k # "ionFree"
      BY <1>5, <1>6, <1>8, <1>9, <3>1
    <3>2. CASE g # h \/ k = "ionFree"
      <4>1. cur'[g] = cur[g]
        BY <1>6, <3>2
      <4> QED
        BY <1>5, <2>2, <4>1 DEF LifeInv, Sorted
    <3> QED
      BY <3>1, <3>2
  <2> QED
    BY <2>1, <2>2 DEF Sorted
<1>14. \A l \in WaitKinds : \A j \in DOMAIN worklist'[l] :
         \E m \in DOMAIN worklist[l] : worklist'[l][j] = worklist[l][m]
                                       /\ (l = k => m # i)
  <2> TAKE l \in WaitKinds
  <2> TAKE j \in DOMAIN worklist'[l]
  <2>1. CASE l = k
    BY <1>6, <1>10, <2>1 DEF q
  <2>2. CASE l # k
    BY <1>6, <1>7, <2>2
  <2> QED
    BY <2>1, <2>2
<1>15. k = "ionFree" => /\ \A l \in WaitKinds : \A j \in DOMAIN worklist[l] : worklist[l][j] # t
                        /\ \A g \in Threads : IsKind(g, WaitKinds) => cur[g][1].item # t
  BY <1>7, <1>8, OtherTask DEF LifeInv
<1>16. QueuedOnce'
  <2>1. ASSUME NEW l \in WaitKinds, NEW j \in DOMAIN worklist'[l]
        PROVE  worklist'[l][j] \notin completed'
    BY <1>6, <1>14, <1>15, <2>1 DEF LifeInv, QueuedOnce
  <2>2. ASSUME NEW l \in WaitKinds, NEW x \in DOMAIN worklist'[l], NEW y \in DOMAIN worklist'[l],
               worklist'[l][x] = worklist'[l][y]
        PROVE  x = y
    <3>1. \A a, b \in DOMAIN worklist[l] : worklist[l][a] = worklist[l][b] => a = b
      BY DEF LifeInv, QueuedOnce
    <3>2. CASE l = k
      BY <1>6, <1>11, <2>2, <3>1, <3>2 DEF q
    <3>3. CASE l # k
      BY <1>6, <1>7, <2>2, <3>1, <3>3
    <3> QED
      BY <3>2, <3>3
  <2> QED
    BY <2>1, <2>2 DEF QueuedOnce
<1>17. ASSUME k \in WaitKinds
       PROVE  \A g \in Threads : IsKind(g, WaitKinds) => cur[g][1].item # t
  <2> SUFFICES ASSUME NEW g \in Threads, IsKind(g, WaitKinds), cur[g][1].item = t PROVE FALSE
    OBVIOUS
  <2> DEFINE l == cur[g][1].kind
  <2>1. l \in WaitKinds /\ t \in TasksOf(l)
    BY <1>7 DEF LifeInv, Sorted, IsKind
  <2>2. l = k
    BY <1>7, <1>8, <1>17, <2>1, KindsDisjoint
  <2> QED
    BY <1>4, <2>2 DEF LifeInv, RunOnce, t, q
<1>18. RunOnce'
  <2>1. \A g \in Threads : g # h \/ k = "ionFree" => \A ks : IsKind(g, ks)' = IsKind(g, ks)
    BY <1>6 DEF IsKind
  <2>2. k # "ionFree" => (IsKind(h, WaitKinds)' <=> k \in WaitKinds)
    BY <1>6 DEF IsKind, Idle
  <2>3. ASSUME NEW g \in Threads, IsKind(g, WaitKinds)'
        PROVE  /\ cur'[g][1].item \in completed' => tpc'[g] = "ran"
               /\ \A j \in DOMAIN worklist'[cur'[g][1].kind] :
                    worklist'[cur'[g][1].kind][j] # cur'[g][1].item
    <3>1. CASE g = h
      <4>1. k # "ionFree" /\ k \in WaitKinds
        BY <1>1, <2>1, <2>2, <2>3, <3>1
      <4>2. cur'[g][1].kind = k /\ cur'[g][1].item = t
        BY <1>6, <3>1, <4>1
      <4>3. t \notin completed'
        BY <1>4, <1>6, <4>1 DEF LifeInv, QueuedOnce, t, q
      <4>4. \A j \in DOMAIN w : w[j] # t
        BY <1>4, <1>10, <4>1 DEF LifeInv, QueuedOnce, t, q
      <4> QED
        BY <1>6, <4>2, <4>3, <4>4
    <3>2. CASE g # h
      <4>1. IsKind(g, WaitKinds) /\ cur'[g] = cur[g] /\ tpc'[g] = tpc[g]
        BY <1>6, <2>1, <2>3, <3>2
      <4>2. cur[g][1].kind \in WaitKinds
        BY <4>1 DEF IsKind
      <4>3. cur'[g][1].item \in completed' => tpc'[g] = "ran"
        BY <1>6, <1>15, <4>1 DEF LifeInv, RunOnce
      <4> QED
        BY <1>14, <4>1, <4>2, <4>3 DEF LifeInv, RunOnce
    <3> QED
      BY <3>1, <3>2
  <2>4. ASSUME NEW g \in Threads, NEW f \in Threads, IsKind(g, WaitKinds)', IsKind(f, WaitKinds)',
               cur'[g][1].item = cur'[f][1].item
        PROVE  g = f
    <3>1. \A x \in Threads : IsKind(x, WaitKinds)' =>
            \/ x = h /\ k \in WaitKinds /\ cur'[x][1].item = t
            \/ x # h /\ IsKind(x, WaitKinds) /\ cur'[x][1].item = cur[x][1].item
      BY <1>1, <1>6, <2>1, <2>2
    <3> QED
      BY <1>17, <2>4, <3>1 DEF LifeInv, RunOnce
  <2> QED
    BY <2>3, <2>4 DEF RunOnce
<1>19. Shutdown'
  <2>1. Finishing' = Finishing
    BY <1>5 DEF Finishing
  <2>2. Finishing => k \notin MasterKinds
    BY <1>1 DEF LifeInv, Shutdown
  <2>3. \A g \in Threads : Finishing => /\ (IsKind(g, WaitKinds)' => IsKind(g, WaitKinds))
                                       /\ (IsKind(g, {"generator"})' => IsKind(g, {"generator"}))
    BY <1>6, <1>7, <2>2 DEF IsKind
  <2>4. Finishing => \A g \in Threads : IsKind(g, WaitKinds)' => tpc'[g] = "ran"
    BY <1>1, <1>6, <2>3 DEF LifeInv, Shutdown
  <2>5. Finishing => Running({"generator"})' \subseteq Running({"generator"})
    BY <2>3 DEF Running
  <2>6. Finishing => \A l \in MasterKinds : worklist'[l] = <<>>
    BY <1>6, <1>7, <2>2 DEF LifeInv, Shutdown
  <2> QED
    BY <1>5, <2>1, <2>4, <2>5, <2>6 DEF LifeInv, Shutdown
<1> QED
  BY <1>12, <1>13, <1>16, <1>18, <1>19 DEF LifeInv

\* A handler returns.
LEMMA FinishLife ==
  ASSUME LifeInv, Known, NEW h \in Threads, FinishTask(h) PROVE LifeInv'
<1> DEFINE t == cur[h][1].item
           k == cur[h][1].kind
           D == IF IsKind(h, {"generator"}) THEN {} ELSE Tasks \cap {t}
<1>1. /\ tpc[h] \in {"run", "ran"}
      /\ completed' = completed \cup D
      /\ genFinished' = genFinished + (IF IsKind(h, {"generator"}) THEN 1 ELSE 0)
      /\ cur' = [cur EXCEPT ![h] = Idle] /\ tpc' = [tpc EXCEPT ![h] = "locked"]
      /\ UNCHANGED <<worklist, started, cancelled, terminating, after, oldFinished>>
  BY DEF FinishTask
<1>2. cur[h] # Idle /\ k \in Kinds /\ IsKind(h, {k}) /\ k \in PoolKinds \cup CompileKinds
  <2>1. cur[h] # Idle
    BY <1>1 DEF Known, BusyOK
  <2>2. \E c \in Current : cur[h] = <<c>>
    BY <2>1 DEF Known, BatchInv, WorkTypes
  <2> QED
    BY <2>1, <2>2 DEF Current, IsKind, PoolKinds
<1>3. /\ cur'[h] = Idle /\ \A g \in Threads : g # h => cur'[g] = cur[g] /\ tpc'[g] = tpc[g]
      /\ \A g \in Threads : \A ks : IsKind(g, ks)' <=> g # h /\ IsKind(g, ks)
  <2>1. cur'[h] = Idle /\ \A g \in Threads : g # h => cur'[g] = cur[g] /\ tpc'[g] = tpc[g]
    BY <1>1 DEF Known, BatchInv, WorkTypes
  <2> QED
    BY <2>1 DEF IsKind
<1>4. PoolKinds \subseteq Kinds /\ WaitKinds \subseteq PoolKinds /\ MasterKinds \subseteq PoolKinds
      /\ MasterKinds = WaitKinds \cup {"generator"} /\ "generator" \notin WaitKinds
  BY DEF PoolKinds, Kinds, WaitKinds, MasterKinds, CompileKinds
<1>5. k \in PoolKinds => t \in TasksOf(k) \cap started
  BY <1>2 DEF LifeInv, Sorted
<1>6. k \in CompileKinds => D = {}
  <2>1. k \in CompileKinds => t \in Threads
    BY <1>2 DEF LifeInv, Sorted
  <2>2. Threads \cap Tasks = {}
    <3>1. \A l \in {"gc", "ion", "ionFree", "promise", "parse", "compress"} :
            TasksOf(l) \cap Threads = {}
      <4> TAKE l \in {"gc", "ion", "ionFree", "promise", "parse", "compress"}
      <4>1. l # "tier1" /\ l \in Kinds \ {"generator", "tier2"}
            /\ "tier1" \in Kinds \ {"generator", "tier2"}
        BY DEF Kinds
      <4> QED
        BY <4>1, KindsAssumption, TasksByKind
    <3> QED
      BY <3>1, TasksByKind DEF Tasks
  <2> QED
    BY <2>1, <2>2
<1>7. D \subseteq started
  BY <1>2, <1>5, <1>6
<1>8. Scalars'
  <2>1. mpc' \in {"script", "genWait", "genWoken", "all", "allWait", "allWoken", "compress",
                  "compressWait", "compressWoken", "cancel", "cancelWait", "cancelWoken",
                  "join", "end"}
    BY DEF FinishTask, NotifyConsumer, LifeInv, Scalars
  <2>2. genFinished' \in Nat
    BY <1>1 DEF LifeInv, Scalars
  <2> HIDE DEF D
  <2> QED
    BY <1>1, <1>7, <2>1, <2>2 DEF LifeInv, Scalars
<1>9. Sorted'
  BY <1>1, <1>3 DEF LifeInv, Sorted
<1>10. \A l \in WaitKinds : \A i \in DOMAIN worklist[l] : worklist[l][i] \notin D
  <2>1. CASE k \in WaitKinds
    <3> SUFFICES ASSUME NEW l \in WaitKinds, NEW i \in DOMAIN worklist[l]
                 PROVE  worklist[l][i] # t
      OBVIOUS
    <3>1. IsKind(h, WaitKinds)
      BY <1>2, <2>1 DEF IsKind
    <3>2. CASE l = k
      BY <3>1, <3>2 DEF LifeInv, RunOnce
    <3>3. CASE l # k
      <4>1. worklist[l][i] \in TasksOf(l)
        BY <1>4 DEF LifeInv, Sorted
      <4>2. worklist[l][i] \notin TasksOf(k)
        BY <1>2, <1>4, <2>1, <3>3, <4>1, KindsDisjoint
      <4> QED
        BY <1>4, <1>5, <2>1, <4>2
    <3> QED
      BY <3>2, <3>3
  <2>2. CASE k = "generator"
    BY <1>2, <2>2
  <2>3. CASE k \in CompileKinds
    BY <1>6, <2>3
  <2>4. CASE k \in PoolKinds /\ k \notin MasterKinds
    BY <1>4, <1>5, <2>4, OtherTask DEF LifeInv
  <2> QED
    BY <1>2, <1>4, <2>1, <2>2, <2>3, <2>4
<1>11. \A g \in Threads : IsKind(g, WaitKinds) /\ cur[g][1].item \in D => g = h
  <2> TAKE g \in Threads
  <2> HAVE IsKind(g, WaitKinds) /\ cur[g][1].item \in D
  <2>1. cur[g][1].item = t /\ k \notin CompileKinds /\ k # "generator"
    BY <1>2, <1>6
  <2>2. k \in WaitKinds
    BY <1>2, <1>4, <1>5, <2>1, OtherTask DEF LifeInv
  <2>3. IsKind(h, WaitKinds)
    BY <1>2, <2>2 DEF IsKind
  <2> QED
    BY <2>1, <2>3 DEF LifeInv, RunOnce
<1> HIDE DEF D
<1>12. QueuedOnce'
  BY <1>1, <1>10 DEF LifeInv, QueuedOnce
<1>13. RunOnce'
  <2>1. \A g \in Threads : IsKind(g, WaitKinds)' =>
          /\ g # h /\ IsKind(g, WaitKinds) /\ cur'[g] = cur[g] /\ tpc'[g] = tpc[g]
          /\ cur[g][1].item \notin D
    BY <1>3, <1>11
  <2>2. worklist' = worklist /\ completed' = completed \cup D
    BY <1>1
  <2> QED
    BY <2>1, <2>2 DEF LifeInv, RunOnce
<1>14. Shutdown'
  <2>1. Finishing' => Finishing
    BY <1>1 DEF Finishing, FinishTask, NotifyConsumer
  <2>2. mpc \in {"join", "end"} <=> mpc' \in {"join", "end"}
    BY DEF FinishTask, NotifyConsumer
  <2>3. Running({"generator"})' = Running({"generator"}) \ {h}
    BY <1>3 DEF Running
  <2>4. h \in Running({"generator"}) => Running({"generator"}) \ {h} = {}
    <3> SUFFICES ASSUME h \in Running({"generator"}), NEW g \in Running({"generator"}), g # h
                 PROVE  FALSE
      OBVIOUS
    <3>1. IsFiniteSet(Running({"generator"})) /\ Running({"generator"}) # {h}
      BY ThreadsAssumption, FS_Subset DEF Running
    <3>2. IsFiniteSet({h}) /\ {h} \subseteq Running({"generator"}) /\ Cardinality({h}) = 1
      BY FS_Singleton
    <3>3. /\ Cardinality({h}) <= Cardinality(Running({"generator"}))
          /\ Cardinality({h}) # Cardinality(Running({"generator"}))
          /\ Cardinality(Running({"generator"})) \in Nat
      BY <3>1, <3>2, FS_Subset, FS_CardinalityType
    <3> QED
      BY <3>2, <3>3 DEF Known, AtMostOneGenerator
  <2>5. h \notin Running({"generator"}) => genFinished' = genFinished
    BY <1>1 DEF Running, LifeInv, Scalars
  <2>6. Finishing' => Running({"generator"})' = {}
                      \/ (genFinished' = oldFinished' /\ mpc' \notin {"join", "end"})
    BY <1>1, <2>1, <2>2, <2>3, <2>4, <2>5 DEF LifeInv, Shutdown
  <2> QED
    BY <1>1, <1>3, <2>1, <2>2, <2>6 DEF LifeInv, Shutdown
<1> QED
  BY <1>8, <1>9, <1>12, <1>13, <1>14 DEF LifeInv

\* The generators that have not started are deleted and the running one is
\* cancelled, for waitForAllThreads() or in finish().
LEMMA CancelLife ==
  ASSUME LifeInv, Known, NEW next \in {"all", "join"},
         CancelOffThreadWasmTier2Generator(next),
         mpc \in {"script", "compress", "compressWoken"},
         next = "join" =>
           /\ \A k \in WaitKinds : worklist[k] = <<>>
           /\ \A h \in Threads : IsKind(h, WaitKinds) => tpc[h] = "ran"
  PROVE  LifeInv'
<1>1. /\ worklist' = [worklist EXCEPT !["generator"] = <<>>]
      /\ cancelled' = cancelled \cup {cur[h][1].item : h \in Running({"generator"})}
      /\ UNCHANGED <<cur, tpc, started, completed, genFinished, terminating>>
      /\ \/ mpc' = next /\ Running({"generator"}) = {} /\ UNCHANGED <<after, oldFinished>>
         \/ mpc' = "genWait" /\ after' = next /\ oldFinished' = genFinished
  BY DEF CancelOffThreadWasmTier2Generator
<1>2. "generator" \in PoolKinds /\ "generator" \notin WaitKinds /\ WaitKinds \subseteq Kinds
      /\ MasterKinds = WaitKinds \cup {"generator"}
  BY DEF PoolKinds, Kinds, CompileKinds, WaitKinds, MasterKinds
<1>3. \A h \in Running({"generator"}) : cur[h][1].item \in Tasks
  <2> TAKE h \in Running({"generator"})
  <2>1. cur[h] # Idle /\ cur[h][1].kind = "generator" /\ h \in Threads
    BY DEF Running, IsKind
  <2>2. cur[h][1].item \in PromiseTasks
    BY <1>2, <2>1, TasksByKind DEF LifeInv, Sorted
  <2> QED
    BY <2>2 DEF Tasks
<1>4. Scalars'
  <2>1. cancelled' \subseteq Tasks
    BY <1>1, <1>3 DEF LifeInv, Scalars
  <2> QED
    BY <1>1, <2>1 DEF LifeInv, Scalars
<1>5. Sorted'
  <2> DEFINE l == <<>>
  <2>1. \A i \in DOMAIN l : l[i] \in TasksOf("generator") \cap started'
    OBVIOUS
  <2>2. worklist' = [worklist EXCEPT !["generator"] = l] /\ cur' = cur /\ started \subseteq started'
    BY <1>1
  <2> HIDE DEF l
  <2> QED
    BY <1>2, <2>1, <2>2, SortedKeeps DEF LifeInv, Known, BatchInv
<1>6. worklist'["generator"] = <<>> /\ \A k \in WaitKinds : worklist'[k] = worklist[k]
  BY <1>1, <1>2 DEF Known, BatchInv, WorkTypes, PoolKinds
<1>7. QueuedOnce' /\ RunOnce'
  BY <1>1, <1>6, OnceUnchanged DEF LifeInv
<1>8. Shutdown'
  <2>1. Running({"generator"})' = Running({"generator"})
        /\ \A h : IsKind(h, WaitKinds)' = IsKind(h, WaitKinds)
    BY <1>1 DEF Running, IsKind
  <2>2. terminating' = {}
    BY <1>1 DEF LifeInv, Shutdown
  <2>3. Finishing' => next = "join"
    BY <1>1 DEF Finishing
  <2> QED
    BY <1>1, <1>2, <1>6, <2>1, <2>2, <2>3 DEF Shutdown
<1> QED
  BY <1>4, <1>5, <1>7, <1>8 DEF LifeInv

\* finish() is called when every task that a runtime waits for has completed.
LEMMA FinishPoolLife == ASSUME LifeInv, Known, Finish PROVE LifeInv'
<1>1. /\ mpc = "script" /\ started \subseteq completed \cup Range(worklist["ionFree"])
      /\ CancelOffThreadWasmTier2Generator("join")
  BY DEF Finish
<1>2. /\ WaitKinds \subseteq PoolKinds /\ PoolKinds \subseteq Kinds /\ "ionFree" \in PoolKinds
      /\ "ionFree" \notin WaitKinds
  BY DEF PoolKinds, Kinds, CompileKinds, WaitKinds
<1>3. ASSUME NEW k \in WaitKinds, NEW t \in TasksOf(k), t \in started PROVE t \in completed
  <2>1. t \notin TasksOf("ionFree")
    BY <1>2, KindsDisjoint
  <2>2. t \notin Range(worklist["ionFree"])
    BY <1>2, <2>1 DEF LifeInv, Sorted, Range
  <2> QED
    BY <1>1, <1>3, <2>2
<1>4. ASSUME NEW k \in WaitKinds PROVE worklist[k] = <<>>
  <2>1. \A i \in DOMAIN worklist[k] : FALSE
    BY <1>2, <1>3 DEF LifeInv, Sorted, QueuedOnce
  <2>2. worklist[k] \in Seq(Items)
    BY <1>2 DEF Known, BatchInv, WorkTypes
  <2>3. DOMAIN worklist[k] = 1..Len(worklist[k]) /\ Len(worklist[k]) \in Nat
    BY <2>2, LenProperties
  <2>4. 1 \notin 1..Len(worklist[k])
    BY <2>1, <2>3
  <2>5. \A n \in Nat : 1 \notin 1..n => n = 0
    OBVIOUS
  <2>6. Len(worklist[k]) = 0
    BY <2>3, <2>4, <2>5
  <2> QED
    BY <2>2, <2>6, EmptySeq
<1>5. ASSUME NEW h \in Threads, IsKind(h, WaitKinds) PROVE tpc[h] = "ran"
  <2>1. cur[h][1].item \in completed
    BY <1>2, <1>3, <1>5 DEF LifeInv, Sorted, IsKind
  <2> QED
    BY <1>5, <2>1 DEF LifeInv, RunOnce
<1> QED
  BY <1>1, <1>4, <1>5, CancelLife

\* Queued compressions are dropped when their runtime goes away.
LEMMA DropLife ==
  ASSUME LifeInv, Known, NEW k \in {"compress", "ionFree"},
         completed' = completed \cup Range(worklist[k]),
         worklist' = [worklist EXCEPT ![k] = <<>>],
         UNCHANGED <<cur, tpc, started, cancelled, genFinished, terminating, after, oldFinished>>,
         \/ k = "compress" /\ mpc = "script" /\ mpc' = "cancel"
         \/ k = "ionFree" /\ mpc = "join" /\ mpc' = "end"
  PROVE  LifeInv'
<1>1. /\ k \in PoolKinds /\ k \in Kinds \ WaitKinds /\ k # "generator" /\ WaitKinds \subseteq Kinds
      /\ MasterKinds \subseteq Kinds /\ k \notin MasterKinds
  BY DEF PoolKinds, Kinds, CompileKinds, WaitKinds, MasterKinds
<1> DEFINE D == Range(worklist[k])
<1>2. \A t \in D : t \in TasksOf(k) /\ t \in started
  BY <1>1 DEF LifeInv, Sorted, Range
<1> HIDE DEF D
<1>3. Scalars'
  BY <1>2 DEF LifeInv, Scalars, D
<1>4. Sorted'
  <2> DEFINE l == <<>>
  <2>1. \A i \in DOMAIN l : l[i] \in TasksOf(k) \cap started'
    OBVIOUS
  <2>2. worklist' = [worklist EXCEPT ![k] = l] /\ started \subseteq started'
    OBVIOUS
  <2> HIDE DEF l
  <2> QED
    BY <1>1, <2>1, <2>2, SortedKeeps DEF LifeInv, Known, BatchInv
<1>5. \A j \in Kinds : j # k => worklist'[j] = worklist[j]
  BY DEF Known, BatchInv, WorkTypes
<1>6. /\ \A j \in WaitKinds : \A i \in DOMAIN worklist[j] : worklist[j][i] \notin D
      /\ \A h \in Threads : IsKind(h, WaitKinds) => cur[h][1].item \notin D
  BY <1>1, <1>2, OtherTask DEF LifeInv
<1>7. QueuedOnce' /\ RunOnce'
  <2>1. completed' = completed \cup D
    BY DEF D
  <2> QED
    BY <1>1, <1>5, <1>6, <2>1, OnceKeeps DEF LifeInv
<1>8. Shutdown'
  <2>1. Running({"generator"})' = Running({"generator"})
        /\ \A h : IsKind(h, WaitKinds)' = IsKind(h, WaitKinds)
    BY DEF Running, IsKind
  <2> QED
    BY <1>1, <1>5, <2>1 DEF LifeInv, Shutdown, Finishing
<1> QED
  BY <1>3, <1>4, <1>7, <1>8 DEF LifeInv

\* The waits of the main thread.
LEMMA WaitLife ==
  ASSUME LifeInv, Known, MainWait \/ ConsumerSpuriousWakeup PROVE LifeInv'
<1>1. CASE GeneratorRecheck
  <2>1. /\ UNCHANGED <<poolVars, taskVars>> /\ UNCHANGED <<after, oldFinished>>
        /\ UNCHANGED <<genFinished, terminating, worklist, tpc, cur>>
        /\ mpc = "genWoken"
        /\ mpc' = IF genFinished = oldFinished THEN "genWait" ELSE after
    BY <1>1 DEF GeneratorRecheck, poolVars, taskVars
  <2>2. Scalars'
    BY <2>1 DEF LifeInv, Scalars, taskVars
  <2>3. Running({"generator"})' = Running({"generator"})
        /\ \A h : IsKind(h, WaitKinds)' = IsKind(h, WaitKinds)
    BY <2>1 DEF Running, IsKind
  <2>4. Shutdown'
    <3>1. terminating' = {}
      BY <2>1 DEF LifeInv, Shutdown
    <3>2. Finishing' => after = "join"
      BY <2>1 DEF Finishing, LifeInv, Scalars
    <3>3. after = "join" => Finishing
      BY <2>1 DEF Finishing
    <3> QED
      BY <2>1, <2>3, <3>1, <3>2, <3>3 DEF LifeInv, Shutdown
  <2> QED
    BY <2>1, <2>2, <2>4, MainKeeps
<1>2. CASE HasActiveThreads \/ CompressionsJoined
  <2>1. /\ UNCHANGED <<poolVars, taskVars>> /\ UNCHANGED <<after, oldFinished>>
        /\ mpc \in {"all", "allWoken", "cancel", "cancelWoken"}
        /\ mpc' \in {"script", "allWait", "cancelWait"}
    BY <1>2 DEF HasActiveThreads, CompressionsJoined
  <2>2. Scalars'
    BY <2>1 DEF LifeInv, Scalars, taskVars
  <2>3. Shutdown'
    BY <2>1 DEF LifeInv, Shutdown, Finishing, taskVars
  <2> QED
    BY <2>1, <2>2, <2>3, MainKeeps
<1>3. CASE CompressionsStarted
  <2>1. CASE CancelOffThreadWasmTier2Generator("all")
    BY <1>3, <2>1, CancelLife DEF CompressionsStarted
  <2>2. CASE /\ mpc' = "compressWait"
             /\ UNCHANGED <<poolVars, taskVars, after, oldFinished, pending>>
    <3>1. Scalars' /\ terminating = {}
      BY <1>3, <2>2 DEF LifeInv, Scalars, Shutdown, taskVars, CompressionsStarted
    <3>2. Shutdown'
      BY <2>2, <3>1 DEF Shutdown, Finishing, taskVars
    <3> QED
      BY <2>2, <3>1, <3>2, MainKeeps
  <2> QED
    BY <1>3, <2>1, <2>2 DEF CompressionsStarted
<1>4. CASE ConsumerSpuriousWakeup
  <2>1. /\ UNCHANGED <<poolVars, taskVars>> /\ UNCHANGED <<after, oldFinished>>
        /\ UNCHANGED <<genFinished, terminating, worklist, tpc, cur>>
        /\ \/ mpc = "genWait" /\ mpc' = "genWoken"
           \/ /\ mpc \in {"allWait", "compressWait", "cancelWait"}
              /\ mpc' \in {"allWoken", "compressWoken", "cancelWoken"}
    BY <1>4 DEF ConsumerSpuriousWakeup, ConsumerWaits, NotifyConsumer, poolVars, taskVars
  <2>2. Scalars'
    BY <2>1 DEF LifeInv, Scalars, taskVars
  <2>3. Running({"generator"})' = Running({"generator"}) /\ Finishing' = Finishing
        /\ \A h : IsKind(h, WaitKinds)' = IsKind(h, WaitKinds)
    BY <2>1 DEF Running, IsKind, Finishing
  <2>4. Shutdown'
    BY <2>1, <2>3 DEF LifeInv, Shutdown
  <2> QED
    BY <2>1, <2>2, <2>4, MainKeeps
<1> QED
  BY <1>1, <1>2, <1>3, <1>4 DEF MainWait

\* finishThreads() sets the terminate flag of one more thread.
LEMMA DestroyLife ==
  ASSUME LifeInv, Known, NEW h \in Threads, DestroyThread(h) PROVE LifeInv'
<1>1. /\ mpc = "join" /\ terminating' = terminating \cup {h}
      /\ tpc' = [g \in Threads |-> IF tpc[g] = "wait" THEN "awake" ELSE tpc[g]]
      /\ UNCHANGED <<worklist, cur, started, completed, cancelled, genFinished>>
      /\ UNCHANGED <<mpc, after, oldFinished>>
  BY DEF DestroyThread, mainVars
<1>2. Scalars' /\ Sorted'
  BY <1>1 DEF LifeInv, Scalars, Sorted
<1>3. \A g \in Threads : tpc[g] = "ran" => tpc'[g] = "ran"
  BY <1>1
<1>4. QueuedOnce' /\ RunOnce'
  BY <1>1, <1>3, OnceUnchanged DEF LifeInv
<1>5. Running({"generator"})' = Running({"generator"}) /\ Finishing' = Finishing
      /\ \A g : IsKind(g, WaitKinds)' = IsKind(g, WaitKinds)
  BY <1>1 DEF Running, IsKind, Finishing
<1>6. Shutdown'
  BY <1>1, <1>3, <1>5 DEF LifeInv, Shutdown
<1> QED
  BY <1>2, <1>4, <1>6 DEF LifeInv

\* Handing tasks to the pool.
LEMMA StartsLife == ASSUME LifeInv, Known, Start PROVE LifeInv'
<1>1. ASSUME NEW k \in {"gc", "ion", "ionFree", "promise", "parse"}, NEW t \in TasksOf(k),
             Enqueue(k, t)
      PROVE  LifeInv'
  BY <1>1, EnqueueLife DEF Known
<1>2. CASE \/ \E t \in GcTasks : StartGCParallelTask(t)
           \/ \E t \in IonTasks : StartOffThreadIonCompile(t)
           \/ \E t \in IonFreeTasks : StartOffThreadIonFree(t)
           \/ \E t \in PromiseTasks : StartOffThreadPromiseHelperTask(t)
           \/ \E t \in ParseTasks : QueueOffThreadParseTask(t)
  BY <1>1, <1>2, TasksByKind
  DEF StartGCParallelTask, StartOffThreadIonCompile, StartOffThreadIonFree,
      StartOffThreadPromiseHelperTask, QueueOffThreadParseTask
<1>3. CASE (\E t \in CompressTasks : EnqueueOffThreadCompression(t)) \/ SweepCompressionTasks
  BY <1>3, QuietKeeps DEF EnqueueOffThreadCompression, SweepCompressionTasks, poolVars, taskVars
<1>4. CASE ScheduleByGC
  BY <1>4, CompressLife DEF ScheduleByGC, Known, PendingOK
<1> QED
  BY <1>2, <1>3, <1>4 DEF Start

\* The steps of a master before its handler ends change only the batches.
LEMMA MasterLife ==
  ASSUME LifeInv, Known, NEW h \in Threads, MasterStep(h) PROVE LifeInv'
<1>1. Mode(h) \in Kinds /\ Mode(h) \notin PoolKinds /\ PoolKinds \subseteq Kinds
  BY DEF Mode, PoolKinds, Kinds, CompileKinds
<1>2. WorkTypes
  BY DEF Known, BatchInv
<1>3. CASE LaunchBatchCompile(h)
  <2>1. \A g \in Threads : tpc[g] = "ran" => tpc'[g] = "ran"
    BY <1>2, <1>3, NotifyWakes DEF LaunchBatchCompile
  <2>2. \A k \in PoolKinds : worklist'[k] = worklist[k]
    BY <1>1, <1>2, <1>3 DEF LaunchBatchCompile, WorkTypes
  <2> QED
    BY <1>3, <2>1, <2>2, QuietKeeps DEF LaunchBatchCompile, taskVars, mainVars
<1>4. CASE Abort(h)
  <2>1. \A g \in Threads : tpc[g] = "ran" => tpc'[g] = "ran"
    BY <1>2, <1>4 DEF Abort, WorkTypes
  <2>2. \A k \in PoolKinds : worklist'[k] = worklist[k]
    BY <1>1, <1>2, <1>4 DEF Abort, WorkTypes
  <2> QED
    BY <1>4, <2>1, <2>2, QuietKeeps DEF Abort, taskVars, mainVars
<1>5. CASE LaunchFails(h) \/ FinishOutstandingTask(h)
  <2>1. \A g \in Threads : tpc[g] = "ran" => tpc'[g] = "ran"
    BY <1>2, <1>5 DEF LaunchFails, FinishOutstandingTask, MustFinishOutstanding, WorkTypes
  <2> QED
    BY <1>5, <2>1, QuietKeeps DEF LaunchFails, FinishOutstandingTask, taskVars, mainVars
<1>6. CASE AbortDrained(h) \/ FinishModule(h)
  <2>1. /\ IsMaster(h) /\ tpc[h] # "ran" /\ tpc' = [tpc EXCEPT ![h] = "ran"]
        /\ DispatchResolve(h) /\ UNCHANGED <<worklist, cur, mpc, after, oldFinished>>
    BY <1>6 DEF AbortDrained, FinishModule, ModuleDone, mainVars, Known, BatchInv, Stages
  <2>2. tpc'[h] = "ran" /\ \A g \in Threads : tpc[g] = "ran" => tpc'[g] = "ran"
    BY <1>2, <2>1 DEF WorkTypes
  <2> QED
    BY <2>1, <2>2, DispatchLife DEF Known
<1>7. CASE StartOffThreadWasmTier2Generator(h)
  <2>1. PICK pc \in NotifyOne : tpc' = [pc EXCEPT ![h] = "ran"]
    BY <1>7 DEF StartOffThreadWasmTier2Generator
  <2>2. /\ pc \in [Threads -> ThreadStates]
        /\ \A g \in Threads : tpc[g] = "ran" => pc[g] = "ran"
    BY <1>2, <2>1 DEF NotifyOne, WorkTypes, Waiting, ThreadStates
  <2>3. tpc'[h] = "ran" /\ \A g \in Threads : tpc[g] = "ran" => tpc'[g] = "ran"
    BY <2>1, <2>2
  <2> QED
    BY <1>7, <2>3, DispatchLife
    DEF StartOffThreadWasmTier2Generator, ModuleDone, mainVars, Known
<1> QED
  BY <1>3, <1>4, <1>5, <1>6, <1>7 DEF MasterStep

\* The other steps of a helper thread.
LEMMA ThreadLife ==
  ASSUME LifeInv, Known, NEW h \in Threads, ThreadStep(h) \/ SpuriousWakeup(h)
  PROVE  LifeInv'
<1>1. CASE \E k \in Kinds : StartTask(h, k)
  BY <1>1, StartLife DEF Known
<1>2. CASE Wait(h) \/ Exit(h) \/ FinishIonFree(h) \/ SpuriousWakeup(h) \/ ReportCompiled(h)
  <2>1. \A g \in Threads : tpc[g] = "ran" => tpc'[g] = "ran"
    BY <1>2 DEF Wait, Exit, FinishIonFree, SpuriousWakeup, ReportCompiled, HasLock, Known,
                BatchInv, WorkTypes
  <2> QED
    BY <1>2, <2>1, QuietKeeps DEF Wait, Exit, FinishIonFree, SpuriousWakeup, ReportCompiled,
                                  taskVars, mainVars
<1>3. CASE MasterStep(h)
  BY <1>3, MasterLife
<1>4. CASE FinishTask(h)
  BY <1>4, FinishLife
<1> QED
  BY <1>1, <1>2, <1>3, <1>4 DEF ThreadStep, LoopStep

\* Every step keeps the invariant.
LEMMA NextLife == LifeInv /\ Known /\ [Next]_vars => LifeInv'
<1> SUFFICES ASSUME LifeInv, Known, [Next]_vars PROVE LifeInv'
  OBVIOUS
<1>1. CASE WaitForAllThreads
  BY <1>1, CancelLife DEF WaitForAllThreads
<1>2. CASE RunPendingSourceCompressions
  BY <1>2, CompressLife DEF RunPendingSourceCompressions, Known, PendingOK
<1>3. CASE CancelOffThreadCompressions
  BY <1>3, DropLife DEF CancelOffThreadCompressions
<1>4. CASE FinishThreads
  BY <1>4, DestroyLife, DropLife DEF FinishThreads, FinishThreadsDone
<1>5. CASE Ended \/ UNCHANGED vars
  BY <1>5, QuietKeeps DEF Ended, vars, poolVars, taskVars, mainVars
<1> QED
  BY <1>1, <1>2, <1>3, <1>4, <1>5, StartsLife, ThreadLife, WaitLife, FinishPoolLife DEF Next

\* Nothing is started and no thread ends at first.
LEMMA InitLife == Init => LifeInv
<1> SUFFICES ASSUME Init PROVE LifeInv
  OBVIOUS
<1>1. \A h, ks : h \in Threads => ~IsKind(h, ks)
  BY DEF Init, IsKind
<1>2. PoolKinds \subseteq Kinds /\ WaitKinds \subseteq Kinds
  BY DEF PoolKinds, WaitKinds, Kinds
<1>3. \A k \in Kinds : worklist[k] = <<>>
  BY DEF Init
<1>4. Scalars
  BY DEF Init, Scalars
<1>5. Sorted
  BY <1>2, <1>3 DEF Sorted, Init
<1>6. QueuedOnce
  BY <1>2, <1>3 DEF QueuedOnce
<1>7. RunOnce
  BY <1>1 DEF RunOnce
<1>8. Shutdown
  BY DEF Init, Shutdown, Finishing
<1> QED
  BY <1>4, <1>5, <1>6, <1>7, <1>8 DEF LifeInv

-----------------------------------------------------------------------------
\* Whatever a thread does, its slot is filled while it handles a task.
LEMMA NextBusy == BatchInv /\ BusyOK /\ [Next]_vars => BusyOK'
<1> SUFFICES ASSUME WorkTypes, Stages, BusyOK, [Next]_vars PROVE BusyOK'
  BY DEF BatchInv
<1> DEFINE Handling == {"run", "abort", "drain", "ran"}
<1>1. ASSUME NEW h \in Threads, NEW k \in Kinds, StartTask(h, k) PROVE BusyOK'
  <2>1. \A g \in Threads : g # h => cur'[g] = cur[g] /\ tpc'[g] = tpc[g]
    BY <1>1 DEF StartTask, WorkTypes
  <2>2. tpc'[h] \in Handling => cur'[h] # Idle
    BY <1>1 DEF StartTask, WorkTypes, Idle
  <2> QED
    BY <2>1, <2>2 DEF BusyOK
<1>2. ASSUME NEW h \in Threads, FinishTask(h) PROVE BusyOK'
  <2>1. tpc'[h] = "locked" /\ \A g \in Threads : g # h => cur'[g] = cur[g] /\ tpc'[g] = tpc[g]
    BY <1>2 DEF FinishTask, WorkTypes
  <2> QED
    BY <2>1 DEF BusyOK
<1>3. ASSUME cur' = cur,
             \A g \in Threads : tpc'[g] \in Handling => tpc[g] \in Handling
      PROVE  BusyOK'
  BY <1>3 DEF BusyOK
<1>4. ASSUME tpc' \in NotifyOne PROVE \A g \in Threads : tpc'[g] \in Handling => tpc[g] \in Handling
  BY <1>4, NotifyWakes
<1>5. CASE Start \/ RunPendingSourceCompressions
  <2>1. cur' = cur /\ (tpc' = tpc \/ tpc' \in NotifyOne)
    BY <1>5 DEF Start, StartGCParallelTask, StartOffThreadIonCompile, StartOffThreadIonFree,
         StartOffThreadPromiseHelperTask, QueueOffThreadParseTask, Enqueue,
         EnqueueOffThreadCompression, ScheduleByGC, SweepCompressionTasks,
         RunPendingSourceCompressions, StartHandlingCompressionTasks, NotifyNobody, poolVars
  <2> QED
    BY <1>3, <1>4, <2>1
<1>6. ASSUME NEW h \in Threads, MasterStep(h) PROVE BusyOK'
  <2>1. cur' = cur /\ tpc[h] \in Handling
    BY <1>6 DEF MasterStep, LaunchBatchCompile, LaunchFails, FinishOutstandingTask,
         MustFinishOutstanding, Abort, AbortDrained, StartOffThreadWasmTier2Generator,
         FinishModule, ModuleDone
  <2>2. \A g \in Threads : g # h /\ tpc'[g] \in Handling => tpc[g] \in Handling
    <3>1. CASE LaunchBatchCompile(h)
      BY <1>4, <3>1 DEF LaunchBatchCompile
    <3>2. CASE StartOffThreadWasmTier2Generator(h)
      BY <3>2 DEF StartOffThreadWasmTier2Generator, NotifyOne, Waiting, WorkTypes
    <3>3. CASE \/ LaunchFails(h) \/ FinishOutstandingTask(h) \/ Abort(h)
               \/ AbortDrained(h) \/ FinishModule(h)
      BY <3>3 DEF LaunchFails, FinishOutstandingTask, Abort, AbortDrained, FinishModule,
                  WorkTypes
    <3> QED
      BY <1>6, <3>1, <3>2, <3>3 DEF MasterStep
  <2> QED
    BY <1>3, <2>1, <2>2
<1>7. ASSUME NEW h \in Threads,
             \/ Wait(h) \/ Exit(h) \/ ReportCompiled(h) \/ FinishIonFree(h)
             \/ SpuriousWakeup(h) \/ DestroyThread(h)
      PROVE  BusyOK'
  <2>1. cur' = cur /\ \A g \in Threads : tpc'[g] \in Handling => tpc[g] \in Handling
    BY <1>7 DEF Wait, Exit, ReportCompiled, FinishIonFree, SpuriousWakeup, DestroyThread,
                WorkTypes
  <2> QED
    BY <1>3, <2>1
<1>8. CASE \/ WaitForAllThreads \/ CancelOffThreadCompressions \/ MainWait
           \/ ConsumerSpuriousWakeup \/ Finish \/ FinishThreadsDone \/ Ended
           \/ UNCHANGED vars
  <2>1. cur' = cur /\ tpc' = tpc
    BY <1>8 DEF WaitForAllThreads, CancelOffThreadCompressions, MainWait, GeneratorRecheck,
         HasActiveThreads, CompressionsStarted, CompressionsJoined, ConsumerSpuriousWakeup,
         Finish, FinishThreadsDone, CancelOffThreadWasmTier2Generator, Ended, vars, poolVars
  <2> QED
    BY <1>3, <2>1
<1> QED
  BY <1>1, <1>2, <1>5, <1>6, <1>7, <1>8 DEF Next, ThreadStep, LoopStep, FinishThreads

\* The facts the steps rely on hold in every reachable state.
LEMMA AlwaysKnown == Spec => []Known
<1>1. Init => BusyOK
  BY DEF Init, BusyOK
<1>2. Spec => []BusyOK
  BY <1>1, NextBusy, AlwaysBatchInv, PTL DEF Spec
<1>3. BatchInv /\ PendingOK /\ AtMostOneGenerator /\ BusyOK => Known
  BY DEF Known
<1> QED
  BY <1>2, <1>3, AlwaysBatchInv, OnlyCompressionsPend, OneGenerator, PTL

\* LifeInv holds in every reachable state.
LEMMA AlwaysLife == Spec => []LifeInv
BY InitLife, NextLife, AlwaysKnown, PTL DEF Spec

\* The pool's state is well formed: every worklist and currentTask slot holds
\* tasks of its kind, and nothing completes that was not started.
THEOREM TypeCorrect == Spec => []TypeOK
<1>1. LifeInv /\ Known => TypeOK
  BY DEF LifeInv, Scalars, Known, BatchInv, WorkTypes, PendingOK, TypeOK
<1> QED
  BY <1>1, AlwaysLife, AlwaysKnown, PTL

\* finish() terminates threads only once CancelOffThreadWasmTier2Generator() has
\* ended the last generator and no runtime has a master task left.
THEOREM GeneratorsEndFirst == Spec => []GeneratorsEndBeforeThreads
<1>1. LifeInv /\ Known => GeneratorsEndBeforeThreads
  <2> SUFFICES ASSUME LifeInv, terminating # {}
               PROVE  /\ worklist["generator"] = <<>>
                      /\ \A h \in Running(MasterKinds) : tpc[h] = "ran"
    BY DEF GeneratorsEndBeforeThreads
  <2>1. Finishing /\ mpc \in {"join", "end"}
    BY DEF LifeInv, Shutdown, Finishing
  <2>2. worklist["generator"] = <<>> /\ Running({"generator"}) = {}
    BY <2>1 DEF LifeInv, Shutdown, MasterKinds
  <2>3. ASSUME NEW h \in Running(MasterKinds) PROVE tpc[h] = "ran"
    <3>1. h \in Threads /\ IsKind(h, WaitKinds)
      BY <2>2 DEF Running, IsKind, MasterKinds, WaitKinds
    <3> QED
      BY <2>1, <3>1 DEF LifeInv, Shutdown
  <2> QED
    BY <2>2, <2>3
<1> QED
  BY <1>1, AlwaysLife, AlwaysKnown, PTL

-----------------------------------------------------------------------------
(***************************************************************************)
(* Nobody sleeps over urgent work: every task that is handed to the pool   *)
(* has a thread on its way to it.                                          *)
(***************************************************************************)

\* Threads that will look for work before they can sleep.
Looking == {h \in Threads : tpc[h] \in {"awake", "locked", "free"}}

\* Queued tasks that any thread may start.
WorkKinds == {"gc", "ion", "tier1", "ionFree"}
QueuedWork ==
  Len(worklist["gc"]) + Len(worklist["ion"]) + Len(worklist["tier1"])
    + Len(worklist["ionFree"])

\* Queued tasks that start only while another thread stays idle.
QueuedMasters == Len(worklist["promise"]) + Len(worklist["parse"])

\* One compression may run.  It is more urgent than freeing an Ion task, and so
\* takes a thread that was woken for that.
ReadyCompression ==
  IF worklist["compress"] # <<>> /\ Running({"compress"}) = {} THEN 1 ELSE 0

Urgent == QueuedWork + QueuedMasters + ReadyCompression

\* There is a thread that looks for work for each task that could start, unless
\* all but one are busy and only masters are queued; once threads terminate,
\* nothing is left for those that sleep.
Attended ==
  Waiting # {} =>
    IF terminating = {}
    THEN Urgent <= Cardinality(Looking) \/ (QueuedWork = 0 /\ Cardinality(Waiting) = 1)
    ELSE QueuedWork = 0 /\ QueuedMasters = 0

\* A thread ends only when it is told to.
ExitOK == \A h \in Threads : tpc[h] = "exited" => h \in terminating

\* Nothing is compiled in parallel on a single core.
UnicoreOK ==
  CpuCount = 1 => worklist["tier1"] = <<>> /\ \A h \in Threads : mg[h].left = 0

\* The inductive invariant.
WakeInv == Attended /\ ExitOK /\ UnicoreOK

\* Sums of what is counted.
LEMMA Sums ==
  ASSUME NEW a \in Nat, NEW b \in Nat, NEW c \in Nat,
         NEW x \in Nat, NEW y \in Nat, NEW z \in Nat
  PROVE  /\ a + b + c \in Nat /\ x + y + z \in Nat
         /\ x <= a /\ y <= b /\ z <= c => x + y + z <= a + b + c
         /\ x = a /\ y = b /\ z <= c + 1 => x + y + z <= a + b + c + 1
         /\ x = a /\ y <= b + 1 /\ z = c => x + y + z <= a + b + c + 1
         /\ x <= a + 1 /\ y = b /\ z = c => x + y + z <= a + b + c + 1
         /\ x <= a - 1 /\ y = b /\ z = c => x + y + z <= a + b + c - 1
         /\ x = a /\ y <= b - 1 /\ z = c => x + y + z <= a + b + c - 1
         /\ x = a /\ y = b /\ z <= c - 1 => x + y + z <= a + b + c - 1
OBVIOUS

LEMMA LengthSums ==
  ASSUME NEW w \in [Kinds -> Seq(Items)]
  PROVE  /\ \A k \in Kinds : /\ w[k] \in Seq(Items) /\ Len(w[k]) \in Nat
                             /\ Len(w[k]) = 0 <=> w[k] = <<>>
         /\ Len(w["gc"]) + Len(w["ion"]) + Len(w["tier1"]) + Len(w["ionFree"]) \in Nat
         /\ Len(w["promise"]) + Len(w["parse"]) \in Nat
         /\ Len(w["gc"]) + Len(w["ion"]) + Len(w["tier1"]) + Len(w["ionFree"]) = 0
              <=> \A k \in WorkKinds : w[k] = <<>>
         /\ Len(w["promise"]) + Len(w["parse"]) = 0 <=> \A k \in WaitKinds : w[k] = <<>>
<1>1. \A k \in Kinds : /\ w[k] \in Seq(Items) /\ Len(w[k]) \in Nat
                       /\ Len(w[k]) = 0 <=> w[k] = <<>>
  <2> TAKE k \in Kinds
  <2>1. w[k] \in Seq(Items)
    OBVIOUS
  <2> QED
    BY <2>1, EmptySeq
<1>2. {"gc", "ion", "tier1", "ionFree", "promise", "parse"} \subseteq Kinds
  BY DEF Kinds
<1>3. PICK a, b, c, d, e, f \in Nat :
        /\ a = Len(w["gc"]) /\ b = Len(w["ion"]) /\ c = Len(w["tier1"])
        /\ d = Len(w["ionFree"]) /\ e = Len(w["promise"]) /\ f = Len(w["parse"])
  BY <1>1, <1>2
<1>4. /\ a + b + c + d \in Nat /\ e + f \in Nat
      /\ a + b + c + d = 0 <=> a = 0 /\ b = 0 /\ c = 0 /\ d = 0
      /\ e + f = 0 <=> e = 0 /\ f = 0
  OBVIOUS
<1>5. /\ (\A k \in WorkKinds : w[k] = <<>>) <=> a = 0 /\ b = 0 /\ c = 0 /\ d = 0
      /\ (\A k \in WaitKinds : w[k] = <<>>) <=> e = 0 /\ f = 0
  BY <1>1, <1>2, <1>3 DEF WorkKinds, WaitKinds
<1> QED
  BY <1>1, <1>3, <1>4, <1>5

\* What is counted are numbers.
LEMMA UrgentCounts ==
  ASSUME WorkTypes
  PROVE  /\ \A k \in Kinds : /\ worklist[k] \in Seq(Items) /\ Len(worklist[k]) \in Nat
                             /\ Len(worklist[k]) = 0 <=> worklist[k] = <<>>
         /\ QueuedWork \in Nat /\ QueuedMasters \in Nat
         /\ ReadyCompression \in Nat /\ ReadyCompression \in 0..1 /\ Urgent \in Nat
         /\ QueuedWork = 0 <=> \A k \in WorkKinds : worklist[k] = <<>>
         /\ QueuedMasters = 0 <=> \A k \in WaitKinds : worklist[k] = <<>>
<1>1. /\ \A k \in Kinds : /\ worklist[k] \in Seq(Items) /\ Len(worklist[k]) \in Nat
                          /\ Len(worklist[k]) = 0 <=> worklist[k] = <<>>
      /\ QueuedWork \in Nat /\ QueuedMasters \in Nat
      /\ QueuedWork = 0 <=> \A k \in WorkKinds : worklist[k] = <<>>
      /\ QueuedMasters = 0 <=> \A k \in WaitKinds : worklist[k] = <<>>
  BY LengthSums DEF WorkTypes, QueuedWork, QueuedMasters
<1>2. ReadyCompression \in Nat /\ ReadyCompression \in 0..1
  BY DEF ReadyCompression
<1>3. Urgent \in Nat
  BY <1>1, <1>2, Sums DEF Urgent
<1> QED
  BY <1>1, <1>2, <1>3

LEMMA UrgentCountsNext ==
  ASSUME WorkTypes'
  PROVE  /\ QueuedWork' \in Nat /\ QueuedMasters' \in Nat
         /\ ReadyCompression' \in Nat /\ ReadyCompression' \in 0..1 /\ Urgent' \in Nat
<1>1. QueuedWork' \in Nat /\ QueuedMasters' \in Nat
  BY LengthSums DEF WorkTypes, QueuedWork, QueuedMasters
<1>2. ReadyCompression' \in Nat /\ ReadyCompression' \in 0..1
  BY DEF ReadyCompression
<1>3. Urgent' \in Nat
  BY <1>1, <1>2, Sums DEF Urgent
<1> QED
  BY <1>1, <1>2, <1>3

\* Sets of threads are finite.
LEMMA ThreadSets ==
  ASSUME NEW S, S \subseteq Threads
  PROVE  /\ IsFiniteSet(S) /\ Cardinality(S) \in Nat
         /\ Cardinality(S) = 0 <=> S = {}
         /\ \A T \in SUBSET S : Cardinality(T) <= Cardinality(S) /\ Cardinality(T) \in Nat
         /\ \A h \in S : Cardinality(S \ {h}) = Cardinality(S) - 1
         /\ \A h \in Threads \ S : Cardinality(S \cup {h}) = Cardinality(S) + 1
<1>1. IsFiniteSet(S)
  BY ThreadsAssumption, FS_Subset
<1>2. Cardinality(S) \in Nat /\ (Cardinality(S) = 0 <=> S = {})
  BY <1>1, FS_CardinalityType, FS_EmptySet
<1>3. \A T \in SUBSET S : Cardinality(T) <= Cardinality(S) /\ Cardinality(T) \in Nat
  BY <1>1, FS_CardinalityType, FS_Subset
<1>4. \A h \in S : Cardinality(S \ {h}) = Cardinality(S) - 1
  BY <1>1, FS_RemoveElement
<1>5. \A h \in Threads \ S : Cardinality(S \cup {h}) = Cardinality(S) + 1
  BY <1>1, FS_AddElement
<1> QED
  BY <1>1, <1>2, <1>3, <1>4, <1>5

\* Steps after which no more is urgent, no more threads sleep and no fewer look.
LEMMA AttendedKeeps ==
  ASSUME Attended, WorkTypes, WorkTypes', Waiting' \subseteq Waiting,
         Looking \subseteq Looking', terminating' = terminating,
         QueuedWork' <= QueuedWork, QueuedMasters' <= QueuedMasters,
         ReadyCompression' <= ReadyCompression
  PROVE  Attended'
<1>1. Urgent' <= Urgent
  BY UrgentCounts, UrgentCountsNext, Sums DEF Urgent
<1>2. Cardinality(Looking) <= Cardinality(Looking') /\ Cardinality(Looking) \in Nat
      /\ Cardinality(Looking') \in Nat
  <2>1. Looking' \subseteq Threads
    BY DEF Looking
  <2> QED
    BY <2>1, ThreadSets
<1>3. Urgent <= Cardinality(Looking) => Urgent' <= Cardinality(Looking')
  <2>1. PICK u, v, a, b \in Nat : u = Urgent /\ v = Urgent' /\ a = Cardinality(Looking)
                                 /\ b = Cardinality(Looking')
    BY <1>2, UrgentCounts, UrgentCountsNext
  <2>2. v <= u /\ a <= b
    BY <1>1, <1>2, <2>1
  <2> QED
    BY <2>1, <2>2
<1>4. Waiting' # {} /\ Cardinality(Waiting) = 1 => Cardinality(Waiting') = 1
  <2>1. Waiting \subseteq Threads /\ Waiting' \subseteq Threads
    BY DEF Waiting
  <2>2. PICK c \in Nat : c = Cardinality(Waiting')
    BY <2>1, ThreadSets
  <2>3. c <= Cardinality(Waiting) /\ (c = 0 => Waiting' = {})
    BY <2>1, <2>2, ThreadSets
  <2> QED
    BY <2>2, <2>3
<1>5. (QueuedWork = 0 => QueuedWork' = 0) /\ (QueuedMasters = 0 => QueuedMasters' = 0)
  <2>1. PICK a, b \in Nat : a = QueuedWork' /\ b = QueuedMasters'
    BY UrgentCountsNext
  <2>2. a <= QueuedWork /\ b <= QueuedMasters
    BY <2>1
  <2> QED
    BY <2>1, <2>2
<1> QED
  BY <1>3, <1>4, <1>5 DEF Attended

\* One more task is urgent, and a thread is notified.
LEMMA NotifyAttends ==
  ASSUME Attended, WorkTypes, WorkTypes', tpc' \in NotifyOne,
         terminating = {}, terminating' = {}, Urgent' <= Urgent + 1
  PROVE  Attended'
<1>1. CASE Waiting = {}
  BY <1>1 DEF Attended, Waiting, NotifyOne
<1>2. CASE Waiting # {}
  <2>1. PICK h \in Waiting : tpc' = [tpc EXCEPT ![h] = "awake"]
    BY <1>2 DEF NotifyOne
  <2>2. /\ h \in Threads /\ tpc[h] = "wait" /\ h \notin Looking
        /\ Waiting' = Waiting \ {h} /\ Looking' = Looking \cup {h}
        /\ Waiting \subseteq Threads /\ Looking \subseteq Threads
    BY <2>1 DEF Waiting, Looking, WorkTypes
  <2>3. /\ Cardinality(Waiting') = Cardinality(Waiting) - 1
        /\ Cardinality(Looking') = Cardinality(Looking) + 1
        /\ Cardinality(Looking) \in Nat /\ Cardinality(Waiting) \in Nat
    BY <2>2, ThreadSets
  <2>4. CASE Urgent <= Cardinality(Looking)
    <3>1. PICK u, v \in Nat : u = Urgent /\ v = Urgent'
      BY UrgentCounts, UrgentCountsNext
    <3>2. v <= u + 1
      BY <3>1
    <3>3. v <= Cardinality(Looking) + 1
      BY <2>3, <2>4, <3>1, <3>2
    <3> QED
      BY <2>3, <3>1, <3>3 DEF Attended
  <2>5. CASE Cardinality(Waiting) = 1
    <3>1. Waiting' \subseteq Threads /\ Cardinality(Waiting') = 0
      BY <2>2, <2>3, <2>5
    <3>2. Waiting' = {}
      BY <3>1, ThreadSets
    <3> QED
      BY <3>2 DEF Attended
  <2> QED
    BY <1>2, <2>4, <2>5 DEF Attended
<1> QED
  BY <1>1, <1>2

\* A thread that was busy looks for work, and at most one more task is urgent: the
\* compression that the one it performed has held up.
LEMMA ReturnAttends ==
  ASSUME Attended, WorkTypes, WorkTypes', NEW h \in Threads, h \notin Looking,
         Looking' = Looking \cup {h}, Waiting' = Waiting,
         terminating' = terminating,
         QueuedWork' = QueuedWork, QueuedMasters' = QueuedMasters
  PROVE  Attended'
<1>1. Urgent' <= Urgent + 1
  <2>1. ReadyCompression' <= ReadyCompression + 1
    BY DEF ReadyCompression
  <2> QED
    BY <2>1, UrgentCounts, UrgentCountsNext, Sums DEF Urgent
<1>2. Cardinality(Looking') = Cardinality(Looking) + 1 /\ Cardinality(Looking) \in Nat
  <2>1. Looking \subseteq Threads
    BY DEF Looking
  <2> QED
    BY <2>1, ThreadSets
<1>3. Urgent <= Cardinality(Looking) => Urgent' <= Cardinality(Looking')
  <2>1. PICK u, v, a \in Nat : u = Urgent /\ v = Urgent' /\ a = Cardinality(Looking)
    BY <1>2, UrgentCounts, UrgentCountsNext
  <2>2. v <= u + 1 /\ (u <= a => v <= a + 1)
    BY <1>1, <2>1
  <2> QED
    BY <1>2, <2>1, <2>2
<1> QED
  BY <1>3 DEF Attended

\* A thread takes one of the urgent tasks.
LEMMA TakeAttends ==
  ASSUME Attended, WorkTypes, WorkTypes', NEW h \in Looking,
         Looking \ {h} \subseteq Looking', Looking' \subseteq Threads,
         Waiting' = Waiting, terminating' = terminating,
         QueuedWork = 0 => QueuedWork' = 0, QueuedMasters = 0 => QueuedMasters' = 0,
         Urgent' <= Urgent - 1
  PROVE  Attended'
<1>1. Looking \subseteq Threads
  BY DEF Looking
<1>2. PICK a, b \in Nat : a = Cardinality(Looking) /\ b = Cardinality(Looking')
  BY <1>1, ThreadSets
<1>3. a - 1 <= b
  <2>1. Cardinality(Looking \ {h}) = Cardinality(Looking) - 1
    BY <1>1, ThreadSets
  <2>2. Cardinality(Looking \ {h}) <= Cardinality(Looking')
    BY ThreadSets
  <2> QED
    BY <1>2, <2>1, <2>2
<1>4. PICK u, v \in Nat : u = Urgent /\ v = Urgent'
  BY UrgentCounts, UrgentCountsNext
<1>5. v <= u - 1
  BY <1>4
<1>6. u <= a => v <= b
  BY <1>3, <1>5
<1> QED
  BY <1>2, <1>4, <1>6 DEF Attended

\* A step that leaves nothing urgent for those that sleep.
LEMMA NothingLeft ==
  ASSUME WorkTypes', Waiting' # {} =>
           QueuedWork' = 0 /\ (QueuedMasters' = 0 \/ Cardinality(Waiting') = 1)
             /\ ReadyCompression' = 0,
         terminating' # {} /\ Waiting' # {} => QueuedMasters' = 0
  PROVE  Attended'
<1>1. Waiting' # {} /\ QueuedMasters' = 0 => Urgent' <= Cardinality(Looking')
  <2>1. QueuedWork' = 0 /\ QueuedMasters' = 0 /\ ReadyCompression' = 0 => Urgent' = 0
    BY DEF Urgent
  <2>2. Looking' \subseteq Threads
    BY DEF Looking
  <2>3. PICK a \in Nat : a = Cardinality(Looking')
    BY <2>2, ThreadSets
  <2> QED
    BY <2>1, <2>3
<1> QED
  BY <1>1 DEF Attended

-----------------------------------------------------------------------------
(* What keeps a queued task from starting.                                 *)

LEMMA ThreadCount ==
  /\ Cardinality(Threads) \in Nat /\ Cardinality(Threads) >= 2 /\ CpuCount \in Nat \ {0}
  /\ CpuCount # 1 => CpuCount >= Cardinality(Threads)
  /\ Cardinality(Threads) - 2 < CpuCount
BY ThreadsAssumption DEF ThreadCountForCPUCount

\* Nothing does, if any thread may perform it.
LEMMA WorkStarts ==
  ASSUME UnicoreOK, ~Tier2Oversubscribed, NEW k \in WorkKinds, worklist[k] # <<>>
  PROVE  CanStart(k)
<1>1. CASE k \in {"gc", "ion"}
  <2>1. CheckTaskThreadLimit({k}, Cardinality(Threads), FALSE)
    BY ThreadCount DEF CheckTaskThreadLimit
  <2>2. CASE k = "gc"
    BY <2>1, <2>2 DEF CanStart, CompileKinds
  <2>3. CASE k = "ion"
    BY <2>1, <2>3 DEF CanStart, CompileKinds
  <2> QED
    BY <1>1, <2>2, <2>3
<1>2. CASE k = "tier1"
  <2>1. CpuCount # 1
    BY <1>2 DEF UnicoreOK
  <2>2. WasmThreads("tier1") = CpuCount /\ CpuCount # 0
    BY ThreadCount DEF WasmThreads
  <2>3. CheckTaskThreadLimit(CompileKinds, CpuCount, FALSE)
    BY <2>1, ThreadCount DEF CheckTaskThreadLimit
  <2> QED
    BY <1>2, <2>2, <2>3 DEF CanStart, CanStartWasmCompile, CompileKinds
<1>3. CASE k = "ionFree"
  BY <1>3 DEF CanStart, CompileKinds
<1> QED
  BY <1>1, <1>2, <1>3 DEF WorkKinds

\* A master waits only for a second idle thread.
LEMMA MasterCanStart ==
  ASSUME NEW k \in WaitKinds, worklist[k] # <<>>,
         NEW g \in IdleThreads, NEW h \in IdleThreads, g # h
  PROVE  CanStart(k)
<1>1. g \in Threads /\ h \in Threads /\ IdleThreads \subseteq Threads
  BY DEF IdleThreads
<1>2. Cardinality(IdleThreads) > 1
  <2>1. IdleThreads \ {g} \subseteq Threads /\ h \in IdleThreads \ {g}
    BY <1>1
  <2>2. Cardinality(IdleThreads \ {g}) \in Nat /\ Cardinality(IdleThreads \ {g}) # 0
    BY <2>1, ThreadSets
  <2>3. Cardinality(IdleThreads \ {g}) = Cardinality(IdleThreads) - 1
        /\ Cardinality(IdleThreads) \in Nat
    BY <1>1, ThreadSets
  <2> QED
    BY <2>2, <2>3
<1>3. Cardinality(Running({k})) < CpuCount
  <2> DEFINE S == Threads \ {g}
             T == S \ {h}
  <2>1. Running({k}) \subseteq T
    BY <1>1 DEF Running, IsKind, IdleThreads
  <2>2. Cardinality(S) = Cardinality(Threads) - 1 /\ S \subseteq Threads /\ h \in S
    BY <1>1, ThreadSets
  <2> HIDE DEF S
  <2>3. Cardinality(T) = Cardinality(S) - 1 /\ T \subseteq Threads
    BY <2>2, ThreadSets
  <2> HIDE DEF T
  <2>4. Cardinality(Running({k})) <= Cardinality(T) /\ Cardinality(Running({k})) \in Nat
    BY <2>1, <2>3, ThreadSets
  <2> QED
    BY <2>2, <2>3, <2>4, ThreadCount
<1>4. CheckTaskThreadLimit({k}, CpuCount, TRUE)
  BY <1>2, <1>3 DEF CheckTaskThreadLimit
<1> QED
  BY <1>4 DEF CanStart, WaitKinds, CompileKinds

\* A compression waits for one that runs.
LEMMA CompressionStarts ==
  ASSUME ReadyCompression # 0, NEW h \in IdleThreads
  PROVE  CheckTaskThreadLimit({"compress"}, 1, FALSE) /\ CanStart("compress")
<1>1. worklist["compress"] # <<>> /\ Running({"compress"}) = {}
  BY DEF ReadyCompression
<1>2. Cardinality(Running({"compress"})) = 0
  BY <1>1, FS_EmptySet
<1>3. Cardinality(IdleThreads) > 0
  <2>1. IdleThreads \subseteq Threads /\ IdleThreads # {}
    BY DEF IdleThreads
  <2> QED
    BY <2>1, ThreadSets
<1>4. CheckTaskThreadLimit({"compress"}, 1, FALSE)
  BY <1>2, <1>3 DEF CheckTaskThreadLimit
<1> QED
  BY <1>1, <1>4 DEF CanStart, CompileKinds

\* If a thread finds nothing urgent, nothing urgent is left for others.
LEMMA NothingUrgent ==
  ASSUME WorkTypes, Stages, UnicoreOK, ~Tier2Oversubscribed, NEW h \in Threads,
         cur[h] = Idle, \A k \in WorkKinds \cup WaitKinds \cup {"compress"} : ~CanStart(k)
  PROVE  /\ QueuedWork = 0 /\ ReadyCompression = 0
         /\ Waiting \ {h} # {} => QueuedMasters = 0
<1>1. h \in IdleThreads
  BY DEF IdleThreads
<1>2. QueuedWork = 0
  BY WorkStarts, UrgentCounts
<1>3. ReadyCompression = 0
  BY <1>1, CompressionStarts
<1>4. ASSUME NEW g \in Waiting, g # h PROVE QueuedMasters = 0
  <2>1. g \in IdleThreads
    BY DEF Waiting, Stages, IdleThreads
  <2>2. \A k \in WaitKinds : worklist[k] = <<>>
    BY <1>1, <1>4, <2>1, MasterCanStart
  <2> QED
    BY <2>2, UrgentCounts
<1> QED
  BY <1>2, <1>3, <1>4

\* Tier-2 tasks start when nothing urgent can.
LEMMA Tier2StartsLast ==
  ASSUME NEW k \in {"tier2", "generator"}, HighestPriority(k)
  PROVE  \A j \in WorkKinds \cup WaitKinds \cup {"compress"} : ~CanStart(j)
<1>1. PICK i \in Startable : TaskSpecs[i] = k /\ \A j \in Startable : i <= j
  BY DEF HighestPriority
<1>2. i \in 1..9
  BY DEF Startable, TaskSpecs
<1>3. i >= 8
  BY <1>1, <1>2 DEF TaskSpecs
<1>4. \A j \in 1..7 : j \notin Startable
  BY <1>1, <1>2, <1>3
<1>5. \A j \in 1..7 : ~CanStart(TaskSpecs[j])
  BY <1>4 DEF Startable, TaskSpecs
<1>6. \A j \in WorkKinds \cup WaitKinds \cup {"compress"} : \E n \in 1..7 : TaskSpecs[n] = j
  BY DEF WorkKinds, WaitKinds, TaskSpecs
<1> QED
  BY <1>5, <1>6

\* Each kind has a place in the order.
LEMMA NothingStartable ==
  ASSUME Startable = {}
  PROVE  \A j \in WorkKinds \cup WaitKinds \cup {"compress"} : ~CanStart(j)
<1>1. \A j \in 1..7 : ~CanStart(TaskSpecs[j])
  BY DEF Startable, TaskSpecs
<1>2. \A j \in WorkKinds \cup WaitKinds \cup {"compress"} : \E n \in 1..7 : TaskSpecs[n] = j
  BY DEF WorkKinds, WaitKinds, TaskSpecs
<1> QED
  BY <1>1, <1>2

-----------------------------------------------------------------------------
(* The steps once more, for those that sleep.                              *)

\* The counts, of any worklists.
WorkIn(w) == Len(w["gc"]) + Len(w["ion"]) + Len(w["tier1"]) + Len(w["ionFree"])
MastersIn(w) == Len(w["promise"]) + Len(w["parse"])

\* One worklist changes, and the count that it belongs to.
LEMMA LengthChange ==
  ASSUME NEW w \in [Kinds -> Seq(Items)], NEW v \in [Kinds -> Seq(Items)],
         NEW k \in Kinds, \A j \in Kinds \ {k} : v[j] = w[j],
         NEW d \in Int, Len(v[k]) = Len(w[k]) + d
  PROVE  /\ WorkIn(v) = WorkIn(w) + (IF k \in WorkKinds THEN d ELSE 0)
         /\ MastersIn(v) = MastersIn(w) + (IF k \in WaitKinds THEN d ELSE 0)
<1>1. {"gc", "ion", "tier1", "ionFree", "promise", "parse"} \subseteq Kinds
  BY DEF Kinds
<1>2. PICK a, b, c, e, f, g \in Nat :
        /\ a = Len(w["gc"]) /\ b = Len(w["ion"]) /\ c = Len(w["tier1"])
        /\ e = Len(w["ionFree"]) /\ f = Len(w["promise"]) /\ g = Len(w["parse"])
  BY <1>1, LengthSums
<1>4. PICK a2, b2, c2, e2, f2, g2 \in Nat :
        /\ a2 = Len(v["gc"]) /\ b2 = Len(v["ion"]) /\ c2 = Len(v["tier1"])
        /\ e2 = Len(v["ionFree"]) /\ f2 = Len(v["promise"]) /\ g2 = Len(v["parse"])
  BY <1>1, LengthSums
<1>5. \A j \in Kinds : Len(v[j]) = IF j = k THEN Len(w[k]) + d ELSE Len(w[j])
  OBVIOUS
<1>6. /\ a2 = IF k = "gc" THEN a + d ELSE a
      /\ b2 = IF k = "ion" THEN b + d ELSE b
      /\ c2 = IF k = "tier1" THEN c + d ELSE c
      /\ e2 = IF k = "ionFree" THEN e + d ELSE e
      /\ f2 = IF k = "promise" THEN f + d ELSE f
      /\ g2 = IF k = "parse" THEN g + d ELSE g
  BY <1>1, <1>2, <1>4, <1>5
<1>7. /\ a2 + b2 + c2 + e2 = a + b + c + e + (IF k \in WorkKinds THEN d ELSE 0)
      /\ f2 + g2 = f + g + (IF k \in WaitKinds THEN d ELSE 0)
  <2>1. CASE k \in {"gc", "ion", "tier1", "ionFree"}
    <3>1. a2 + b2 + c2 + e2 = a + b + c + e + d /\ f2 = f /\ g2 = g
      BY <1>6, <2>1
    <3> QED
      BY <2>1, <3>1 DEF WorkKinds, WaitKinds
  <2>2. CASE k \in {"promise", "parse"}
    <3>1. a2 = a /\ b2 = b /\ c2 = c /\ e2 = e /\ f2 + g2 = f + g + d
      BY <1>6, <2>2
    <3> QED
      BY <2>2, <3>1 DEF WorkKinds, WaitKinds
  <2>3. CASE k \notin WorkKinds /\ k \notin WaitKinds
    <3>1. a2 = a /\ b2 = b /\ c2 = c /\ e2 = e /\ f2 = f /\ g2 = g
      BY <1>6, <2>3 DEF WorkKinds, WaitKinds
    <3> QED
      BY <2>3, <3>1
  <2> QED
    BY <2>1, <2>2, <2>3 DEF WorkKinds, WaitKinds
<1> QED
  BY <1>2, <1>4, <1>7 DEF WorkIn, MastersIn

LEMMA ListChange ==
  ASSUME WorkTypes, NEW k \in Kinds, NEW l \in Seq(Items),
         worklist' = [worklist EXCEPT ![k] = l],
         NEW d \in Int, Len(l) = Len(worklist[k]) + d
  PROVE  /\ QueuedWork' = QueuedWork + (IF k \in WorkKinds THEN d ELSE 0)
         /\ QueuedMasters' = QueuedMasters + (IF k \in WaitKinds THEN d ELSE 0)
<1>1. PICK w \in [Kinds -> Seq(Items)] : w = worklist
  BY DEF WorkTypes
<1>2. PICK v \in [Kinds -> Seq(Items)] : v = [w EXCEPT ![k] = l]
  OBVIOUS
<1>3. Len(v[k]) = Len(w[k]) + d /\ \A j \in Kinds \ {k} : v[j] = w[j]
  BY <1>1, <1>2
<1>4. /\ WorkIn(v) = WorkIn(w) + (IF k \in WorkKinds THEN d ELSE 0)
      /\ MastersIn(v) = MastersIn(w) + (IF k \in WaitKinds THEN d ELSE 0)
  BY <1>3, LengthChange
<1>5. v = worklist'
  BY <1>1, <1>2
<1> QED
  BY <1>1, <1>4, <1>5 DEF QueuedWork, QueuedMasters, WorkIn, MastersIn

\* Other lists count for nothing.
LEMMA OtherLists ==
  ASSUME \A k \in WorkKinds \cup WaitKinds : worklist'[k] = worklist[k]
  PROVE  QueuedWork' = QueuedWork /\ QueuedMasters' = QueuedMasters
<1>1. /\ worklist'["gc"] = worklist["gc"] /\ worklist'["ion"] = worklist["ion"]
      /\ worklist'["tier1"] = worklist["tier1"]
      /\ worklist'["ionFree"] = worklist["ionFree"]
      /\ worklist'["promise"] = worklist["promise"]
      /\ worklist'["parse"] = worklist["parse"]
  BY DEF WorkKinds, WaitKinds
<1> QED
  BY <1>1 DEF QueuedWork, QueuedMasters

\* Whether a compression is ready depends on its list and on the slots.
LEMMA SameCompression ==
  ASSUME worklist'["compress"] = worklist["compress"],
         Running({"compress"})' = Running({"compress"})
  PROVE  ReadyCompression' = ReadyCompression
BY DEF ReadyCompression

\* A task is handed to the pool.
LEMMA EnqueueAttends ==
  ASSUME Attended, WorkTypes, WorkTypes', LifeInv,
         NEW k \in WorkKinds \cup WaitKinds, NEW t \in Items, worklist' = [worklist EXCEPT ![k] = Append(@, t)],
         tpc' \in NotifyOne, cur' = cur, terminating = {}, terminating' = {}
  PROVE  Attended'
<1>1. k \in Kinds /\ k # "compress" /\ worklist[k] \in Seq(Items)
      /\ "compress" \in Kinds
  BY DEF WorkTypes, WorkKinds, WaitKinds, Kinds
<1>2. Append(worklist[k], t) \in Seq(Items) /\ Len(Append(worklist[k], t)) = Len(worklist[k]) + 1
  BY <1>1
<1>3. /\ QueuedWork' = QueuedWork + (IF k \in WorkKinds THEN 1 ELSE 0)
      /\ QueuedMasters' = QueuedMasters + (IF k \in WaitKinds THEN 1 ELSE 0)
  <2>1. 1 \in Int
    OBVIOUS
  <2> QED
    BY <1>1, <1>2, <2>1, ListChange
<1>4. ReadyCompression' = ReadyCompression
  <2>1. worklist'["compress"] = worklist["compress"]
    BY <1>1 DEF WorkTypes
  <2>2. Running({"compress"})' = Running({"compress"})
    BY DEF Running, IsKind
  <2> QED
    BY <2>1, <2>2, SameCompression
<1>5. k \in WorkKinds => k \notin WaitKinds
  BY DEF WorkKinds, WaitKinds
<1>6. PICK a, b, c, x, y, z \in Nat :
        /\ a = QueuedWork /\ b = QueuedMasters /\ c = ReadyCompression
        /\ x = QueuedWork' /\ y = QueuedMasters' /\ z = ReadyCompression'
  BY UrgentCounts, UrgentCountsNext
<1>7. x + y + z <= a + b + c + 1
  BY <1>3, <1>4, <1>5, <1>6
<1>8. Urgent' <= Urgent + 1
  BY <1>6, <1>7 DEF Urgent
<1> QED
  BY <1>8, NotifyAttends

\* Compressions are handed to the pool; a thread is notified if one may start.
LEMMA CompressAttends ==
  ASSUME Attended, WorkTypes, WorkTypes', Stages, NEW ready, ready \subseteq CompressTasks,
         StartHandlingCompressionTasks(ready), terminating = {}
  PROVE  Attended'
<1>1. PICK s \in Orders(ready) :
        worklist' = [worklist EXCEPT !["compress"] = worklist["compress"] \o s]
  BY DEF StartHandlingCompressionTasks
<1>2. UNCHANGED <<cur, terminating>>
  BY DEF StartHandlingCompressionTasks
<1>3. QueuedWork' = QueuedWork /\ QueuedMasters' = QueuedMasters
  <2>1. \A k \in WorkKinds \cup WaitKinds : k \in Kinds /\ k # "compress"
    BY DEF WorkKinds, WaitKinds, Kinds
  <2> QED
    BY <1>1, <2>1, OtherLists DEF WorkTypes
<1>4. CASE tpc' \in NotifyOne
  <2>1. ReadyCompression' <= ReadyCompression + 1
    BY DEF ReadyCompression
  <2>2. Urgent' <= Urgent + 1
    BY <1>3, <2>1, UrgentCounts, UrgentCountsNext, Sums DEF Urgent
  <2> QED
    BY <1>2, <1>4, <2>2, NotifyAttends
<1>5. CASE /\ tpc' = tpc
           /\ ~(/\ worklist["compress"] # <<>> \/ ready # {}
                /\ CheckTaskThreadLimit({"compress"}, 1, FALSE))
  <2>1. Waiting' = Waiting /\ Looking' = Looking
    BY <1>5 DEF Waiting, Looking
  <2>2. CASE Waiting = {}
    BY <2>1, <2>2 DEF Attended
  <2>3. CASE Waiting # {}
    <3>1. PICK h \in Waiting : h \in IdleThreads
      BY <2>3 DEF Waiting, Stages, IdleThreads
    <3>2. ReadyCompression' = ReadyCompression
      <4>1. CASE worklist["compress"] # <<>> \/ ready # {}
        <5>1. ~CheckTaskThreadLimit({"compress"}, 1, FALSE)
          BY <1>5, <4>1
        <5>2. Running({"compress"}) # {}
          <6> SUFFICES ASSUME Running({"compress"}) = {} PROVE FALSE
            OBVIOUS
          <6>1. Cardinality(Running({"compress"})) = 0
            BY FS_EmptySet
          <6>2. Cardinality(IdleThreads) > 0
            <7>1. IdleThreads \subseteq Threads /\ IdleThreads # {}
              BY <3>1 DEF IdleThreads
            <7> QED
              BY <7>1, ThreadSets
          <6> QED
            BY <5>1, <6>1, <6>2 DEF CheckTaskThreadLimit
        <5>3. Running({"compress"})' = Running({"compress"})
          BY <1>2 DEF Running, IsKind
        <5> QED
          BY <5>2, <5>3 DEF ReadyCompression
      <4>2. CASE worklist["compress"] = <<>> /\ ready = {}
        <5>1. Cardinality(ready) = 0
          BY <4>2, FS_EmptySet
        <5>2. s \in [1..0 -> ready]
          BY <5>1 DEF Orders
        <5>3. s = <<>>
          BY <5>2
        <5>4. worklist'["compress"] = <<>> \o <<>>
          <6>1. "compress" \in Kinds
            BY DEF Kinds
          <6> QED
            BY <1>1, <4>2, <5>3, <6>1 DEF WorkTypes
        <5>5. worklist'["compress"] = <<>>
          BY <5>4
        <5> QED
          BY <4>2, <5>5 DEF ReadyCompression
      <4> QED
        BY <4>1, <4>2
    <3>3. QueuedWork' <= QueuedWork /\ QueuedMasters' <= QueuedMasters
          /\ ReadyCompression' <= ReadyCompression
      BY <1>3, <3>2, UrgentCounts
    <3> QED
      BY <1>2, <2>1, <3>3, AttendedKeeps
  <2> QED
    BY <2>2, <2>3
<1>6. tpc' \in NotifyOne \/ tpc' = tpc
  BY DEF StartHandlingCompressionTasks, NotifyNobody
<1> QED
  BY <1>4, <1>5, <1>6 DEF StartHandlingCompressionTasks, NotifyNobody

\* No master works once threads terminate.
LEMMA MasterAlive ==
  ASSUME LifeInv, NEW h \in Threads, IsMaster(h), tpc[h] # "ran"
  PROVE  terminating = {}
<1> SUFFICES ASSUME terminating # {} PROVE FALSE
  OBVIOUS
<1>1. Finishing /\ mpc \in {"join", "end"}
  BY DEF LifeInv, Shutdown, Finishing
<1>2. IsKind(h, WaitKinds) \/ h \in Running({"generator"})
  BY DEF IsMaster, IsKind, MasterKinds, WaitKinds, Running
<1> QED
  BY <1>1, <1>2 DEF LifeInv, Shutdown

\* Steps that leave the urgent tasks alone, put no thread to sleep and take none
\* from the search for work.
LEMMA CalmAttends ==
  ASSUME Attended, WorkTypes, WorkTypes', Waiting' \subseteq Waiting,
         Looking \subseteq Looking', terminating' = terminating, cur' = cur,
         \A k \in WorkKinds \cup WaitKinds : worklist'[k] = worklist[k],
         worklist'["compress"] = worklist["compress"] \/ worklist'["compress"] = <<>>
  PROVE  Attended'
<1>1. QueuedWork' = QueuedWork /\ QueuedMasters' = QueuedMasters
  BY OtherLists
<1>2. ReadyCompression' <= ReadyCompression
  <2>1. Running({"compress"})' = Running({"compress"})
    BY DEF Running, IsKind
  <2>2. ReadyCompression' = ReadyCompression \/ ReadyCompression' = 0
    BY <2>1 DEF ReadyCompression
  <2> QED
    BY <2>2, UrgentCounts
<1>3. QueuedWork' <= QueuedWork /\ QueuedMasters' <= QueuedMasters
  BY <1>1, UrgentCounts
<1> QED
  BY <1>2, <1>3, AttendedKeeps

\* A list the search for urgent work does not look at.
LEMMA ListApart ==
  ASSUME WorkTypes, NEW j \in Kinds, j \notin WorkKinds \cup WaitKinds \cup {"compress"},
         NEW l, worklist' = [worklist EXCEPT ![j] = l]
  PROVE  /\ \A k \in WorkKinds \cup WaitKinds : worklist'[k] = worklist[k]
         /\ worklist'["compress"] = worklist["compress"]
<1>1. WorkKinds \cup WaitKinds \cup {"compress"} \subseteq Kinds
  BY DEF WorkKinds, WaitKinds, Kinds
<1> QED
  BY <1>1 DEF WorkTypes

\* A thread that takes a task other than a tier-2 one takes an urgent one.
LEMMA StartAttends ==
  ASSUME Attended, UnicoreOK, ~Tier2Oversubscribed, BatchInv, BatchInv', LifeInv,
         NEW h \in Threads, NEW k \in Kinds, StartTask(h, k)
  PROVE  Attended'
<1>1. /\ tpc[h] \in {"locked", "awake"} /\ cur[h] = Idle /\ h \in Looking
      /\ worklist[k] \in Seq(Items) /\ worklist[k] # <<>> /\ CanStart(k)
      /\ WorkTypes /\ WorkTypes' /\ Stages /\ terminating' = terminating
  <2>1. tpc[h] \in {"locked", "awake"} /\ CanStart(k) /\ worklist[k] # <<>>
        /\ terminating' = terminating
    BY OnlyStartable DEF StartTask, HasLock, CanStart
  <2> QED
    BY <2>1 DEF BatchInv, Stages, WorkTypes, Looking
<1>2. PICK i \in Poppable(k) : worklist' = [worklist EXCEPT ![k] = Without(worklist[k], i)]
  BY DEF StartTask
<1>3. i \in 1..Len(worklist[k])
  <2>1. Len(worklist[k]) \in Nat /\ Len(worklist[k]) # 0
    BY <1>1, EmptySeq
  <2> QED
    BY <2>1 DEF Poppable
<1>4. /\ Without(worklist[k], i) \in Seq(Items)
      /\ Len(Without(worklist[k], i)) = Len(worklist[k]) + (-1)
  <2>1. Len(Without(worklist[k], i)) = Len(worklist[k]) - 1
    BY <1>1, <1>3, WithoutElements
  <2> QED
    BY <1>1, <1>3, <2>1, WithoutSeq
<1>5. tpc' = [tpc EXCEPT ![h] = IF k = "ionFree" THEN "free" ELSE "run"]
  BY DEF StartTask
<1>6. Waiting' = Waiting /\ Looking \ {h} \subseteq Looking' /\ Looking' \subseteq Threads
  BY <1>1, <1>5 DEF Waiting, Looking, WorkTypes
<1>7. /\ \A g \in Threads : g # h => cur'[g] = cur[g]
      /\ k # "ionFree" => cur'[h] # Idle /\ cur'[h][1].kind = k
      /\ k = "ionFree" => cur' = cur
  <2>1. PICK j \in Poppable(k) :
          cur' = IF k = "ionFree" THEN cur
                 ELSE [cur EXCEPT ![h] = <<[kind |-> k, item |-> worklist[k][j]]>>]
    BY DEF StartTask
  <2> QED
    BY <1>1, <2>1 DEF WorkTypes, Idle
<1>8. k # "compress" => Running({"compress"})' = Running({"compress"})
  <2> SUFFICES ASSUME k # "compress" PROVE Running({"compress"})' = Running({"compress"})
    OBVIOUS
  <2>1. ~IsKind(h, {"compress"}) /\ ~IsKind(h, {"compress"})'
    BY <1>1, <1>7 DEF IsKind
  <2>2. \A g \in Threads : IsKind(g, {"compress"})' <=> IsKind(g, {"compress"})
    BY <1>7, <2>1 DEF IsKind
  <2> QED
    BY <2>2 DEF Running
<1>9. k # "compress" => ReadyCompression' = ReadyCompression
  <2>1. k # "compress" => worklist'["compress"] = worklist["compress"]
    <3>1. "compress" \in Kinds
      BY DEF Kinds
    <3> QED
      BY <1>1, <1>2, <3>1 DEF WorkTypes
  <2> QED
    BY <1>8, <2>1, SameCompression
<1>10. PICK a, b, c, x, y, z \in Nat :
        /\ a = QueuedWork /\ b = QueuedMasters /\ c = ReadyCompression
        /\ x = QueuedWork' /\ y = QueuedMasters' /\ z = ReadyCompression'
  BY <1>1, UrgentCounts, UrgentCountsNext
<1>11. Urgent = a + b + c /\ Urgent' = x + y + z
  BY <1>10 DEF Urgent
<1>12. /\ x = a + (IF k \in WorkKinds THEN -1 ELSE 0)
       /\ y = b + (IF k \in WaitKinds THEN -1 ELSE 0)
  <2>1. -1 \in Int
    OBVIOUS
  <2>2. /\ QueuedWork' = QueuedWork + (IF k \in WorkKinds THEN -1 ELSE 0)
        /\ QueuedMasters' = QueuedMasters + (IF k \in WaitKinds THEN -1 ELSE 0)
    BY <1>1, <1>2, <1>4, <2>1, ListChange
  <2> QED
    BY <1>10, <2>2
<1>13. CASE k \in WorkKinds
  <2>1. k \notin WaitKinds /\ k # "compress"
    BY <1>13 DEF WorkKinds, WaitKinds
  <2>2. x = a - 1 /\ y = b /\ z = c
    BY <1>9, <1>10, <1>12, <1>13, <2>1
  <2>3. Urgent' <= Urgent - 1 /\ (QueuedWork = 0 => QueuedWork' = 0)
        /\ (QueuedMasters = 0 => QueuedMasters' = 0)
    BY <1>10, <1>11, <2>2
  <2> QED
    BY <1>1, <1>6, <2>3, TakeAttends
<1>14. CASE k \in WaitKinds
  <2>1. k \notin WorkKinds /\ k # "compress"
    BY <1>14 DEF WorkKinds, WaitKinds
  <2>2. x = a /\ y = b - 1 /\ z = c
    BY <1>9, <1>10, <1>12, <1>14, <2>1
  <2>3. Urgent' <= Urgent - 1 /\ (QueuedWork = 0 => QueuedWork' = 0)
        /\ (QueuedMasters = 0 => QueuedMasters' = 0)
    BY <1>10, <1>11, <2>2
  <2> QED
    BY <1>1, <1>6, <2>3, TakeAttends
<1>15. CASE k = "compress"
  <2>1. k \notin WorkKinds /\ k \notin WaitKinds
    BY <1>15 DEF WorkKinds, WaitKinds
  <2>2. c = 1
    <3>1. Cardinality(Running({"compress"})) < 1
      BY <1>1, <1>15, ThreadCount DEF CanStart, CheckTaskThreadLimit, CompileKinds
    <3>2. Running({"compress"}) \subseteq Threads
      BY DEF Running
    <3>3. Running({"compress"}) = {}
      BY <3>1, <3>2, ThreadSets
    <3> QED
      BY <1>1, <1>10, <1>15, <3>3 DEF ReadyCompression
  <2>3. z = 0
    <3>1. h \in Running({"compress"})'
      BY <1>7, <1>15 DEF Running, IsKind
    <3> QED
      BY <1>10, <3>1 DEF ReadyCompression
  <2>4. x = a /\ y = b
    BY <1>12, <2>1
  <2>5. Urgent' <= Urgent - 1 /\ (QueuedWork = 0 => QueuedWork' = 0)
        /\ (QueuedMasters = 0 => QueuedMasters' = 0)
    BY <1>10, <1>11, <2>2, <2>3, <2>4
  <2> QED
    BY <1>1, <1>6, <2>5, TakeAttends
<1>16. CASE k \in {"tier2", "generator"}
  <2>1. \A j \in WorkKinds \cup WaitKinds \cup {"compress"} : ~CanStart(j)
    BY <1>16, Tier2StartsLast DEF StartTask
  <2>2. /\ QueuedWork = 0 /\ ReadyCompression = 0
        /\ Waiting \ {h} # {} => QueuedMasters = 0
    BY <1>1, <2>1, NothingUrgent
  <2>3. Waiting \ {h} = Waiting
    BY <1>1 DEF Waiting
  <2>4. x = a /\ y = b /\ z = c
    BY <1>9, <1>10, <1>12, <1>16 DEF WorkKinds, WaitKinds
  <2>5. /\ QueuedWork' = 0 /\ ReadyCompression' = 0
        /\ Waiting' # {} => QueuedMasters' = 0
    BY <1>6, <1>10, <2>2, <2>3, <2>4
  <2> QED
    BY <1>1, <2>5, NothingLeft
<1> QED
  BY <1>13, <1>14, <1>15, <1>16 DEF Kinds, WorkKinds, WaitKinds

\* A thread goes to sleep only when it finds nothing to start.
LEMMA WaitAttends ==
  ASSUME UnicoreOK, ~Tier2Oversubscribed, BatchInv, BatchInv', LifeInv,
         NEW h \in Threads, Wait(h)
  PROVE  Attended'
<1>1. /\ tpc[h] \in {"locked", "awake"} /\ cur[h] = Idle
      /\ WorkTypes /\ WorkTypes' /\ Stages /\ tpc' = [tpc EXCEPT ![h] = "wait"]
      /\ worklist' = worklist /\ cur' = cur /\ terminating' = terminating
  <2>1. tpc[h] \in {"locked", "awake"}
    BY DEF Wait, HasLock
  <2> QED
    BY <2>1 DEF Wait, BatchInv, Stages, taskVars
<1>2. /\ QueuedWork = 0 /\ ReadyCompression = 0
      /\ Waiting \ {h} # {} => QueuedMasters = 0
  BY <1>1, NothingStartable, NothingUrgent DEF Wait
<1>3. QueuedWork' = QueuedWork /\ QueuedMasters' = QueuedMasters
  BY <1>1 DEF QueuedWork, QueuedMasters
<1>4. ReadyCompression' = ReadyCompression
  BY <1>1 DEF ReadyCompression, Running, IsKind
<1>5. Waiting' = Waiting \cup {h} /\ h \in Threads
  BY <1>1 DEF Waiting, WorkTypes
<1>6. QueuedMasters' = 0 \/ Cardinality(Waiting') = 1
  <2>1. CASE Waiting \ {h} # {}
    BY <1>2, <1>3, <2>1
  <2>2. CASE Waiting \ {h} = {}
    <3>1. Waiting' = {h}
      BY <1>5, <2>2
    <3> QED
      BY <3>1, FS_Singleton
  <2> QED
    BY <2>1, <2>2
<1>7. terminating' # {} => QueuedMasters' = 0
  <2> SUFFICES ASSUME terminating # {} PROVE QueuedMasters = 0
    BY <1>1, <1>3
  <2>1. Finishing
    BY DEF LifeInv, Shutdown, Finishing
  <2>2. \A k \in WaitKinds : worklist[k] = <<>>
    BY <2>1 DEF LifeInv, Shutdown, WaitKinds, MasterKinds
  <2> QED
    BY <1>1, <2>2, UrgentCounts
<1> QED
  BY <1>1, <1>2, <1>3, <1>4, <1>6, <1>7, NothingLeft

\* A handler that ends brings a thread back that looks for work.
LEMMA FinishAttends ==
  ASSUME Attended, WorkTypes, WorkTypes', NEW h \in Threads, FinishTask(h)
  PROVE  Attended'
<1>1. /\ tpc[h] \in {"ran", "run"} /\ tpc' = [tpc EXCEPT ![h] = "locked"]
      /\ worklist' = worklist /\ terminating' = terminating
  BY DEF FinishTask
<1>2. h \notin Looking /\ Looking' = Looking \cup {h} /\ Waiting' = Waiting
  BY <1>1 DEF Looking, Waiting, WorkTypes
<1>3. QueuedWork' = QueuedWork /\ QueuedMasters' = QueuedMasters
  BY <1>1 DEF QueuedWork, QueuedMasters
<1> QED
  BY <1>1, <1>2, <1>3, ReturnAttends

\* A batch is urgent in a tier-1 compilation only.
LEMMA LaunchAttends ==
  ASSUME Attended, BatchInv, BatchInv', LifeInv, NEW h \in Threads, LaunchBatchCompile(h)
  PROVE  Attended'
<1>1. /\ IsMaster(h) /\ tpc[h] = "run" /\ tpc' \in NotifyOne /\ cur' = cur
      /\ worklist' = [worklist EXCEPT ![Mode(h)] = Append(@, h)]
      /\ terminating' = terminating /\ WorkTypes /\ WorkTypes' /\ h \in Items
  BY DEF LaunchBatchCompile, taskVars, BatchInv, Items
<1>2. terminating = {}
  BY <1>1, MasterAlive
<1>3. CASE Mode(h) = "tier1"
  <2>1. "tier1" \in WorkKinds \cup WaitKinds
    BY DEF WorkKinds
  <2> QED
    BY <1>1, <1>2, <1>3, <2>1, EnqueueAttends
<1>4. CASE Mode(h) = "tier2"
  <2>1. "tier2" \in Kinds /\ "tier2" \notin WorkKinds \cup WaitKinds \cup {"compress"}
    BY DEF Kinds, WorkKinds, WaitKinds
  <2>2. /\ \A k \in WorkKinds \cup WaitKinds : worklist'[k] = worklist[k]
        /\ worklist'["compress"] = worklist["compress"]
    BY <1>1, <1>4, <2>1, ListApart
  <2>3. Waiting' \subseteq Waiting /\ Looking \subseteq Looking'
    BY <1>1, NotifyWakes DEF Waiting, Looking
  <2> QED
    BY <1>1, <2>2, <2>3, CalmAttends
<1> QED
  BY <1>3, <1>4 DEF Mode

\* Batches that are taken back make the worklist no longer.
LEMMA TakeBackShorter ==
  ASSUME NEW s \in Seq(Items), NEW h
  PROVE  TakeBack(s, h) \in Seq(Items) /\ Len(TakeBack(s, h)) <= Len(s)
         /\ Len(TakeBack(s, h)) \in Nat
<1> DEFINE kept == {i \in DOMAIN s : s[i] # h}
           size == Cardinality(kept)
<1>1. DOMAIN s = 1..Len(s) /\ Len(s) \in Nat
  OBVIOUS
<1>2. size \in Nat /\ size <= Len(s)
  <2>1. IsFiniteSet(1..Len(s)) /\ Cardinality(1..Len(s)) = Len(s) /\ kept \subseteq 1..Len(s)
    BY <1>1, FS_Interval
  <2> QED
    BY <2>1, FS_Subset, FS_CardinalityType
<1>3. TakeBack(s, h) \in Seq(Items)
  BY OccurrencesTakeBack
<1>4. DOMAIN TakeBack(s, h) = 1..size
  BY DEF TakeBack
<1> HIDE DEF size
<1>5. Len(TakeBack(s, h)) = size
  BY <1>2, <1>3, <1>4, LenProperties
<1> QED
  BY <1>2, <1>3, <1>5

\* An aborted module takes batches back and puts nobody to sleep.
LEMMA AbortAttends ==
  ASSUME Attended, BatchInv, BatchInv', NEW h \in Threads, Abort(h)
  PROVE  Attended'
<1>1. /\ tpc[h] = "abort" /\ tpc' = [tpc EXCEPT ![h] = "drain"] /\ cur' = cur
      /\ worklist' = [worklist EXCEPT ![Mode(h)] = TakeBack(@, h)]
      /\ terminating' = terminating /\ WorkTypes /\ WorkTypes'
  BY DEF Abort, taskVars, BatchInv
<1>2. Waiting' = Waiting /\ Looking' = Looking
  BY <1>1 DEF Waiting, Looking, WorkTypes
<1>3. Mode(h) \in CompileKinds /\ Mode(h) \in Kinds /\ worklist[Mode(h)] \in Seq(Items)
      /\ Mode(h) \notin WaitKinds
  BY <1>1 DEF Mode, CompileKinds, Kinds, WorkTypes, WaitKinds
<1>4. PICK s \in Seq(Items) : s = TakeBack(worklist[Mode(h)], h)
  BY <1>3, TakeBackShorter
<1>5. PICK m, n \in Nat : m = Len(s) /\ n = Len(worklist[Mode(h)]) /\ m <= n
  BY <1>3, <1>4, TakeBackShorter
<1>6. m - n \in Int /\ m - n <= 0 /\ m = n + (m - n)
  BY <1>5
<1>7. /\ QueuedWork' = QueuedWork + (IF Mode(h) \in WorkKinds THEN m - n ELSE 0)
      /\ QueuedMasters' = QueuedMasters + (IF Mode(h) \in WaitKinds THEN m - n ELSE 0)
  <2>1. Len(s) = Len(worklist[Mode(h)]) + (m - n)
    BY <1>5, <1>6
  <2>2. worklist' = [worklist EXCEPT ![Mode(h)] = s]
    BY <1>1, <1>4
  <2> QED
    BY <1>1, <1>3, <1>6, <2>1, <2>2, ListChange
<1>8. QueuedWork' <= QueuedWork /\ QueuedMasters' <= QueuedMasters
  <2>1. PICK a, b, x, y \in Nat : /\ a = QueuedWork /\ b = QueuedMasters
                                 /\ x = QueuedWork' /\ y = QueuedMasters'
    BY <1>1, UrgentCounts, UrgentCountsNext
  <2>2. x <= a /\ y <= b
    BY <1>3, <1>6, <1>7, <2>1
  <2> QED
    BY <2>1, <2>2
<1>9. ReadyCompression' <= ReadyCompression
  <2>1. worklist'["compress"] = worklist["compress"]
    <3>1. "compress" \in Kinds /\ "compress" # Mode(h)
      BY <1>3 DEF Kinds, CompileKinds
    <3> QED
      BY <1>1, <3>1 DEF WorkTypes
  <2>2. Running({"compress"})' = Running({"compress"})
    BY <1>1 DEF Running, IsKind
  <2>3. ReadyCompression' = ReadyCompression
    BY <2>1, <2>2, SameCompression
  <2> QED
    BY <1>1, <2>3, UrgentCounts
<1> QED
  BY <1>1, <1>2, <1>8, <1>9, AttendedKeeps

\* What a thread does besides starting, launching and finishing tasks.
LEMMA MasterAttends ==
  ASSUME Attended, BatchInv, BatchInv', LifeInv, NEW h \in Threads, MasterStep(h)
  PROVE  Attended'
<1> WorkTypes /\ WorkTypes'
  BY DEF BatchInv
<1>1. CASE \/ LaunchFails(h) \/ FinishOutstandingTask(h) \/ AbortDrained(h)
           \/ FinishModule(h)
  <2>1. worklist' = worklist /\ cur' = cur /\ terminating' = terminating
    BY <1>1 DEF LaunchFails, FinishOutstandingTask, AbortDrained, FinishModule,
                DispatchResolve, taskVars
  <2>2. \A g \in Threads : tpc'[g] = tpc[g] \/ (g = h /\ tpc[g] \in {"run", "drain"}
                                                 /\ tpc'[g] \in {"abort", "ran"})
    BY <1>1 DEF LaunchFails, FinishOutstandingTask, MustFinishOutstanding, AbortDrained,
                FinishModule, ModuleDone, WorkTypes
  <2>3. Waiting' \subseteq Waiting /\ Looking \subseteq Looking'
    BY <2>2 DEF Waiting, Looking
  <2> QED
    BY <2>1, <2>3, CalmAttends
<1>2. CASE StartOffThreadWasmTier2Generator(h)
  <2>1. /\ cur' = cur /\ terminating' = terminating /\ tpc[h] = "run"
        /\ worklist' = [worklist EXCEPT !["generator"] = Append(@, cur[h][1].item)]
    BY <1>2 DEF StartOffThreadWasmTier2Generator, ModuleDone, DispatchResolve
  <2>2. PICK pc \in NotifyOne : tpc' = [pc EXCEPT ![h] = "ran"]
    BY <1>2 DEF StartOffThreadWasmTier2Generator
  <2>3. \A g \in Threads : \/ tpc'[g] = tpc[g]
                           \/ g = h /\ tpc'[g] = "ran"
                           \/ tpc[g] = "wait" /\ tpc'[g] = "awake"
    <3>1. DOMAIN pc = Threads
          /\ \A g \in Threads : pc[g] = tpc[g] \/ (tpc[g] = "wait" /\ pc[g] = "awake")
      BY <2>2 DEF NotifyOne, WorkTypes, Waiting
    <3> QED
      BY <2>2, <3>1
  <2>4. Waiting' \subseteq Waiting /\ Looking \subseteq Looking'
    BY <2>1, <2>3 DEF Waiting, Looking
  <2>5. /\ \A k \in WorkKinds \cup WaitKinds : worklist'[k] = worklist[k]
        /\ worklist'["compress"] = worklist["compress"]
    <3>1. /\ "generator" \in Kinds
          /\ "generator" \notin WorkKinds \cup WaitKinds \cup {"compress"}
      BY DEF Kinds, WorkKinds, WaitKinds
    <3> QED
      BY <2>1, <3>1, ListApart
  <2> QED
    BY <2>1, <2>4, <2>5, CalmAttends
<1> QED
  BY <1>1, <1>2, LaunchAttends, AbortAttends DEF MasterStep

LEMMA ThreadAttends ==
  ASSUME Attended, UnicoreOK, ~Tier2Oversubscribed, BatchInv, BatchInv', LifeInv,
         NEW h \in Threads, ThreadStep(h) \/ SpuriousWakeup(h)
  PROVE  Attended'
<1> WorkTypes /\ WorkTypes'
  BY DEF BatchInv
<1>1. CASE ReportCompiled(h) \/ FinishIonFree(h) \/ SpuriousWakeup(h)
  <2>1. worklist' = worklist /\ cur' = cur /\ terminating' = terminating
    BY <1>1 DEF ReportCompiled, FinishIonFree, SpuriousWakeup, taskVars
  <2>2. \A g \in Threads : \/ tpc'[g] = tpc[g]
                           \/ tpc[g] = "run" /\ tpc'[g] = "ran"
                           \/ tpc[g] = "free" /\ tpc'[g] = "locked"
                           \/ tpc[g] = "wait" /\ tpc'[g] = "awake"
    BY <1>1 DEF ReportCompiled, FinishIonFree, SpuriousWakeup, WorkTypes
  <2>3. Waiting' \subseteq Waiting /\ Looking \subseteq Looking'
    BY <2>2 DEF Waiting, Looking
  <2> QED
    BY <2>1, <2>3, CalmAttends
<1>2. CASE Exit(h)
  <2>1. /\ tpc[h] \in {"awake", "locked"} /\ tpc' = [tpc EXCEPT ![h] = "exited"]
        /\ worklist' = worklist /\ terminating' = terminating /\ terminating # {}
    BY <1>2 DEF Exit, HasLock, taskVars
  <2>2. Waiting' = Waiting
    BY <2>1 DEF Waiting, WorkTypes
  <2>3. QueuedWork' = QueuedWork /\ QueuedMasters' = QueuedMasters
    BY <2>1 DEF QueuedWork, QueuedMasters
  <2> QED
    BY <2>1, <2>2, <2>3 DEF Attended
<1> QED
  BY <1>1, <1>2, StartAttends, WaitAttends, FinishAttends, MasterAttends
  DEF ThreadStep, LoopStep

\* Tasks are handed to the pool while its threads live.
LEMMA StartsAttend ==
  ASSUME Attended, BatchInv, BatchInv', LifeInv, PendingOK,
         Start \/ RunPendingSourceCompressions
  PROVE  Attended'
<1>1. terminating = {} \/ mpc # "script"
  BY DEF LifeInv, Shutdown
<1> WorkTypes /\ WorkTypes' /\ Stages
  BY DEF BatchInv
<1>2. CASE \E k \in WorkKinds \cup WaitKinds, t \in Tasks : Enqueue(k, t)
  <2>1. PICK k \in WorkKinds \cup WaitKinds, t \in Tasks : Enqueue(k, t)
    BY <1>2
  <2>2. /\ terminating = {} /\ terminating' = {} /\ cur' = cur /\ tpc' \in NotifyOne
        /\ worklist' = [worklist EXCEPT ![k] = Append(@, t)] /\ t \in Items
    BY <1>1, <2>1 DEF Enqueue, Items
  <2> QED
    BY <2>2, EnqueueAttends
<1>3. CASE SweepCompressionTasks \/ \E t \in CompressTasks : EnqueueOffThreadCompression(t)
  <2>1. cur' = cur /\ worklist' = worklist /\ tpc' = tpc /\ terminating' = terminating
    BY <1>3 DEF SweepCompressionTasks, EnqueueOffThreadCompression, poolVars, taskVars
  <2>2. Waiting' = Waiting /\ Looking' = Looking
    BY <2>1 DEF Waiting, Looking
  <2> QED
    BY <2>1, <2>2, CalmAttends
<1>4. CASE ScheduleByGC
  <2>1. PICK ready \in SUBSET pending : StartHandlingCompressionTasks(ready)
    BY <1>4 DEF ScheduleByGC
  <2>2. ready \subseteq CompressTasks /\ terminating = {}
    BY <1>1, <1>4 DEF PendingOK, ScheduleByGC
  <2> QED
    BY <2>1, <2>2, CompressAttends
<1>5. CASE RunPendingSourceCompressions
  <2>1. pending \subseteq CompressTasks /\ terminating = {}
        /\ StartHandlingCompressionTasks(pending)
    BY <1>1, <1>5 DEF PendingOK, RunPendingSourceCompressions
  <2> QED
    BY <2>1, CompressAttends
<1>6. {"gc", "ion", "ionFree", "promise", "parse"} \subseteq WorkKinds \cup WaitKinds
  BY DEF WorkKinds, WaitKinds
<1> QED
  BY <1>2, <1>3, <1>4, <1>5, <1>6
  DEF Start, StartGCParallelTask, StartOffThreadIonCompile, StartOffThreadIonFree,
      StartOffThreadPromiseHelperTask, QueueOffThreadParseTask, Tasks

\* The main thread drops generators and compressions, and terminates threads.
LEMMA MainAttends ==
  ASSUME Attended, ExitOK, BatchInv, BatchInv',
         \/ WaitForAllThreads \/ CancelOffThreadCompressions \/ MainWait
         \/ ConsumerSpuriousWakeup \/ Finish \/ FinishThreads \/ Ended \/ UNCHANGED vars
  PROVE  Attended'
<1> WorkTypes /\ WorkTypes'
  BY DEF BatchInv
<1>1. CASE \E h \in Threads : DestroyThread(h)
  <2>1. Waiting' = {}
    BY <1>1 DEF DestroyThread, Waiting
  <2> QED
    BY <2>1 DEF Attended
<1>2. CASE FinishThreadsDone
  <2>1. Waiting' = {}
    BY <1>2 DEF FinishThreadsDone, Waiting
  <2> QED
    BY <2>1 DEF Attended
<1>3. CASE \/ WaitForAllThreads \/ CancelOffThreadCompressions \/ MainWait
           \/ ConsumerSpuriousWakeup \/ Finish \/ Ended \/ UNCHANGED vars
  <2>1. /\ cur' = cur /\ tpc' = tpc /\ terminating' = terminating
        /\ \/ worklist' = worklist
           \/ worklist' = [worklist EXCEPT !["generator"] = <<>>]
           \/ worklist' = [worklist EXCEPT !["compress"] = <<>>]
    BY <1>3 DEF WaitForAllThreads, CancelOffThreadCompressions, MainWait, GeneratorRecheck,
         HasActiveThreads, CompressionsStarted, CompressionsJoined, ConsumerSpuriousWakeup,
         Finish, CancelOffThreadWasmTier2Generator, Ended, vars, poolVars, taskVars
  <2>2. /\ \A k \in WorkKinds \cup WaitKinds : worklist'[k] = worklist[k]
        /\ worklist'["compress"] = worklist["compress"] \/ worklist'["compress"] = <<>>
    <3>1. \A k \in WorkKinds \cup WaitKinds : k \in Kinds /\ k # "generator" /\ k # "compress"
      BY DEF WorkKinds, WaitKinds, Kinds
    <3>2. "compress" \in Kinds
      BY DEF Kinds
    <3> QED
      BY <2>1, <3>1, <3>2 DEF WorkTypes
  <2>3. Waiting' = Waiting /\ Looking' = Looking
    BY <2>1 DEF Waiting, Looking
  <2> QED
    BY <2>1, <2>2, <2>3, CalmAttends
<1> QED
  BY <1>1, <1>2, <1>3 DEF FinishThreads

\* Threads end by themselves, once their terminate flag is set.
LEMMA NextExit ==
  ASSUME ExitOK, BatchInv, [Next]_vars
  PROVE  ExitOK'
<1> WorkTypes
  BY DEF BatchInv
<1>1. CASE \E h \in Threads : Exit(h)
  BY <1>1 DEF Exit, ExitOK, WorkTypes, taskVars
<1>2. ASSUME \A g \in Threads : tpc'[g] = "exited" => tpc[g] = "exited",
             terminating \subseteq terminating'
      PROVE  ExitOK'
  BY <1>2 DEF ExitOK
<1>3. ASSUME NEW h \in Threads, ThreadStep(h) \/ SpuriousWakeup(h), ~Exit(h)
      PROVE  ExitOK'
  <2>1. terminating' = terminating
    BY <1>3 DEF ThreadStep, LoopStep, StartTask, Wait, MasterStep, LaunchBatchCompile,
         LaunchFails, FinishOutstandingTask, Abort, AbortDrained, DispatchResolve,
         StartOffThreadWasmTier2Generator, FinishModule, ReportCompiled, FinishTask,
         FinishIonFree, SpuriousWakeup, taskVars
  <2>2. ASSUME NEW g \in Threads, tpc'[g] = "exited" PROVE tpc[g] = "exited"
    <3>1. CASE \E k \in Kinds : StartTask(h, k)
      BY <2>2, <3>1 DEF StartTask, WorkTypes
    <3>2. CASE MasterStep(h)
      <4>1. CASE LaunchBatchCompile(h)
        BY <2>2, <4>1, NotifyWakes DEF LaunchBatchCompile
      <4>2. CASE StartOffThreadWasmTier2Generator(h)
        <5>1. PICK pc \in NotifyOne : tpc' = [pc EXCEPT ![h] = "ran"]
          BY <4>2 DEF StartOffThreadWasmTier2Generator
        <5>2. DOMAIN pc = Threads
              /\ \A j \in Threads : pc[j] = tpc[j] \/ (tpc[j] = "wait" /\ pc[j] = "awake")
          BY <5>1 DEF NotifyOne, WorkTypes, Waiting
        <5> QED
          BY <2>2, <5>1, <5>2
      <4>3. CASE LaunchFails(h) \/ FinishOutstandingTask(h) \/ Abort(h)
                 \/ AbortDrained(h) \/ FinishModule(h)
        BY <2>2, <4>3 DEF LaunchFails, FinishOutstandingTask, Abort, AbortDrained,
                          FinishModule, WorkTypes
      <4> QED
        BY <3>2, <4>1, <4>2, <4>3 DEF MasterStep
    <3>3. CASE Wait(h) \/ ReportCompiled(h) \/ FinishTask(h) \/ FinishIonFree(h)
               \/ SpuriousWakeup(h)
      BY <2>2, <3>3 DEF Wait, ReportCompiled, FinishTask, FinishIonFree, SpuriousWakeup,
                        WorkTypes
    <3> QED
      BY <1>3, <3>1, <3>2, <3>3 DEF ThreadStep, LoopStep
  <2> QED
    BY <1>2, <2>1, <2>2
<1>4. CASE Start \/ RunPendingSourceCompressions
  <2>1. terminating' = terminating /\ (tpc' = tpc \/ tpc' \in NotifyOne)
    BY <1>4 DEF Start, StartGCParallelTask, StartOffThreadIonCompile, StartOffThreadIonFree,
         StartOffThreadPromiseHelperTask, QueueOffThreadParseTask, Enqueue,
         EnqueueOffThreadCompression, ScheduleByGC, SweepCompressionTasks,
         RunPendingSourceCompressions, StartHandlingCompressionTasks, NotifyNobody, poolVars,
         taskVars
  <2>2. \A g \in Threads : tpc'[g] = "exited" => tpc[g] = "exited"
    BY <2>1, NotifyWakes
  <2> QED
    BY <1>2, <2>1, <2>2
<1>5. CASE \E h \in Threads : DestroyThread(h)
  <2>1. /\ terminating \subseteq terminating'
        /\ \A g \in Threads : tpc'[g] = "exited" => tpc[g] = "exited"
    BY <1>5 DEF DestroyThread
  <2> QED
    BY <1>2, <2>1
<1>6. CASE \/ WaitForAllThreads \/ CancelOffThreadCompressions \/ MainWait
           \/ ConsumerSpuriousWakeup \/ Finish \/ FinishThreadsDone \/ Ended
           \/ UNCHANGED vars
  <2>1. tpc' = tpc /\ terminating' = terminating
    BY <1>6 DEF WaitForAllThreads, CancelOffThreadCompressions, MainWait, GeneratorRecheck,
         HasActiveThreads, CompressionsStarted, CompressionsJoined, ConsumerSpuriousWakeup,
         Finish, FinishThreadsDone, CancelOffThreadWasmTier2Generator, Ended, vars, poolVars,
         taskVars
  <2> QED
    BY <1>2, <2>1
<1> QED
  BY <1>1, <1>3, <1>4, <1>5, <1>6 DEF Next, FinishThreads

\* On a single core parallel_ is false: no module is split in batches.
LEMMA NextUnicore ==
  ASSUME UnicoreOK, BatchInv, [Next]_vars
  PROVE  UnicoreOK'
<1> SUFFICES ASSUME CpuCount = 1
             PROVE  worklist'["tier1"] = <<>> /\ \A g \in Threads : mg'[g].left = 0
  BY DEF UnicoreOK
<1>1. /\ worklist["tier1"] = <<>> /\ \A g \in Threads : mg[g].left = 0
      /\ WorkTypes /\ "tier1" \in Kinds
  BY DEF UnicoreOK, BatchInv, Kinds
<1>2. \A g \in Threads : mg[g] \in Modules
  BY <1>1 DEF WorkTypes
<1>3. ASSUME NEW h \in Threads, NEW k \in Kinds, StartTask(h, k)
      PROVE  worklist'["tier1"] = <<>> /\ \A g \in Threads : mg'[g].left = 0
  <2>1. k # "tier1"
    BY <1>1, <1>3, OnlyStartable DEF StartTask, CanStart
  <2>2. worklist'["tier1"] = <<>>
    <3>1. PICK l : worklist' = [worklist EXCEPT ![k] = l]
      BY <1>3 DEF StartTask
    <3> QED
      BY <1>1, <2>1, <3>1 DEF WorkTypes
  <2>3. PICK n \in Batches(k) : mg' = [mg EXCEPT ![h] = [NoModule EXCEPT !.left = n]]
    BY <1>3 DEF StartTask
  <2>4. n = 0
    BY DEF Batches
  <2> QED
    BY <1>1, <2>2, <2>3, <2>4 DEF WorkTypes, NoModule
<1>4. ASSUME NEW h \in Threads, MasterStep(h)
      PROVE  worklist'["tier1"] = <<>> /\ \A g \in Threads : mg'[g].left = 0
  <2>1. ~LaunchBatchCompile(h) /\ ~LaunchFails(h)
    BY <1>1 DEF LaunchBatchCompile, LaunchFails
  <2>2. CASE Abort(h)
    <3>1. /\ worklist' = [worklist EXCEPT ![Mode(h)] = TakeBack(@, h)]
          /\ \E n : mg' = [mg EXCEPT ![h].out = @ - n]
      BY <2>2 DEF Abort
    <3>2. TakeBack(worklist["tier1"], h) = <<>>
      <4>1. worklist["tier1"] \in Seq(Items) /\ Len(worklist["tier1"]) = 0
        BY <1>1 DEF WorkTypes
      <4>2. /\ TakeBack(worklist["tier1"], h) \in Seq(Items)
            /\ Len(TakeBack(worklist["tier1"], h)) <= Len(worklist["tier1"])
            /\ Len(TakeBack(worklist["tier1"], h)) \in Nat
        BY <4>1, TakeBackShorter
      <4>3. Len(TakeBack(worklist["tier1"], h)) = 0
        BY <4>1, <4>2
      <4> QED
        BY <4>2, <4>3, EmptySeq
    <3>3. worklist'["tier1"] = <<>>
      BY <1>1, <3>1, <3>2 DEF WorkTypes
    <3>4. \A g \in Threads : mg'[g].left = mg[g].left
      BY <1>1, <1>2, <3>1 DEF WorkTypes, Modules
    <3> QED
      BY <1>1, <3>3, <3>4
  <2>3. CASE FinishOutstandingTask(h)
    <3>1. /\ worklist' = worklist
          /\ mg' = mg \/ mg' = [mg EXCEPT ![h].out = @ - 1, ![h].fin = @ - 1]
      BY <2>3 DEF FinishOutstandingTask
    <3>2. CASE mg' = [mg EXCEPT ![h].out = @ - 1, ![h].fin = @ - 1]
      <4> DEFINE one == [mg[h] EXCEPT !.out = mg[h].out - 1]
                 two == [one EXCEPT !.fin = mg[h].fin - 1]
      <4>1. one \in [left : Nat, out : Int, fin : Nat, fail : Nat]
            /\ one.left = mg[h].left /\ one.fin = mg[h].fin
        BY <1>2 DEF Modules
      <4>2. mg' = [mg EXCEPT ![h] = two]
        BY <1>1, <3>2, <4>1 DEF WorkTypes
      <4> HIDE DEF one
      <4>3. two.left = mg[h].left
        BY <4>1
      <4> HIDE DEF two
      <4>4. \A g \in Threads : mg'[g].left = mg[g].left
        BY <1>1, <4>2, <4>3 DEF WorkTypes
      <4> QED
        BY <1>1, <3>1, <4>4
    <3> QED
      BY <1>1, <3>1, <3>2
  <2>4. CASE AbortDrained(h)
    BY <1>1, <2>4 DEF AbortDrained, WorkTypes, NoModule
  <2>5. CASE StartOffThreadWasmTier2Generator(h)
    BY <1>1, <2>5 DEF StartOffThreadWasmTier2Generator, WorkTypes
  <2>6. CASE FinishModule(h)
    BY <1>1, <2>6 DEF FinishModule
  <2> QED
    BY <1>4, <2>1, <2>2, <2>3, <2>4, <2>5, <2>6 DEF MasterStep
<1>5. ASSUME NEW h \in Threads, ReportCompiled(h)
      PROVE  worklist'["tier1"] = <<>> /\ \A g \in Threads : mg'[g].left = 0
  <2>1. /\ worklist' = worklist
        /\ \E o : \/ mg' = [mg EXCEPT ![o].fin = @ + 1]
                  \/ mg' = [mg EXCEPT ![o].fail = @ + 1]
    BY <1>5 DEF ReportCompiled
  <2>2. PICK o : \/ mg' = [mg EXCEPT ![o].fin = @ + 1]
                 \/ mg' = [mg EXCEPT ![o].fail = @ + 1]
    BY <2>1
  <2> DEFINE one == [mg[o] EXCEPT !.fin = mg[o].fin + 1]
             two == [mg[o] EXCEPT !.fail = mg[o].fail + 1]
  <2>3. o \in Threads => one.left = mg[o].left /\ two.left = mg[o].left
    BY <1>2 DEF Modules
  <2>4. mg' = [mg EXCEPT ![o] = one] \/ mg' = [mg EXCEPT ![o] = two]
    BY <2>2
  <2> HIDE DEF one, two
  <2>5. \A g \in Threads : mg'[g].left = mg[g].left
    BY <1>1, <2>3, <2>4 DEF WorkTypes
  <2> QED
    BY <1>1, <2>1, <2>5
<1>6. ASSUME NEW h \in Threads, FinishTask(h)
      PROVE  worklist'["tier1"] = <<>> /\ \A g \in Threads : mg'[g].left = 0
  BY <1>1, <1>6 DEF FinishTask, WorkTypes, NoModule
<1>7. ASSUME NEW h \in Threads,
             Wait(h) \/ Exit(h) \/ FinishIonFree(h) \/ SpuriousWakeup(h) \/ DestroyThread(h)
      PROVE  worklist'["tier1"] = <<>> /\ \A g \in Threads : mg'[g].left = 0
  BY <1>1, <1>7 DEF Wait, Exit, FinishIonFree, SpuriousWakeup, DestroyThread
<1>8. CASE Start \/ RunPendingSourceCompressions
  <2>1. mg' = mg /\ \E k \in Kinds : \E l : k # "tier1" /\ worklist' = [worklist EXCEPT ![k] = l]
    <3>1. mg' = mg
      BY <1>8 DEF Start, StartGCParallelTask, StartOffThreadIonCompile, StartOffThreadIonFree,
           StartOffThreadPromiseHelperTask, QueueOffThreadParseTask, Enqueue,
           EnqueueOffThreadCompression, ScheduleByGC, SweepCompressionTasks,
           RunPendingSourceCompressions, StartHandlingCompressionTasks, poolVars
    <3>2. \/ worklist' = worklist
          \/ \E l : worklist' = [worklist EXCEPT !["compress"] = l]
          \/ \E k \in {"gc", "ion", "ionFree", "promise", "parse"} : \E t :
               worklist' = [worklist EXCEPT ![k] = Append(@, t)]
      BY <1>8 DEF Start, StartGCParallelTask, StartOffThreadIonCompile, StartOffThreadIonFree,
           StartOffThreadPromiseHelperTask, QueueOffThreadParseTask, Enqueue,
           EnqueueOffThreadCompression, ScheduleByGC, SweepCompressionTasks,
           RunPendingSourceCompressions, StartHandlingCompressionTasks, poolVars
    <3>3. worklist = [worklist EXCEPT !["gc"] = worklist["gc"]]
      BY <1>1 DEF WorkTypes
    <3>4. {"gc", "ion", "ionFree", "promise", "parse", "compress"} \subseteq Kinds
      BY DEF Kinds
    <3> QED
      BY <3>1, <3>2, <3>3, <3>4
  <2> QED
    BY <1>1, <2>1 DEF WorkTypes
<1>9. CASE \/ WaitForAllThreads \/ CancelOffThreadCompressions \/ MainWait
           \/ ConsumerSpuriousWakeup \/ Finish \/ FinishThreadsDone \/ Ended
           \/ UNCHANGED vars
  <2>1. mg' = mg /\ \E k, l : k # "tier1" /\ worklist' = [worklist EXCEPT ![k] = l]
    <3>1. /\ mg' = mg
          /\ \/ worklist' = worklist
             \/ worklist' = [worklist EXCEPT !["generator"] = <<>>]
             \/ worklist' = [worklist EXCEPT !["compress"] = <<>>]
             \/ worklist' = [worklist EXCEPT !["ionFree"] = <<>>]
      BY <1>9 DEF WaitForAllThreads, CancelOffThreadCompressions, MainWait, GeneratorRecheck,
           HasActiveThreads, CompressionsStarted, CompressionsJoined, ConsumerSpuriousWakeup,
           Finish, FinishThreadsDone, CancelOffThreadWasmTier2Generator, Ended, vars, poolVars
    <3>2. worklist = [worklist EXCEPT !["gc"] = worklist["gc"]]
      BY <1>1 DEF WorkTypes
    <3> QED
      BY <3>1, <3>2
  <2> QED
    BY <1>1, <2>1 DEF WorkTypes
<1> QED
  BY <1>3, <1>4, <1>5, <1>6, <1>7, <1>8, <1>9 DEF Next, ThreadStep, LoopStep, FinishThreads

\* Every step keeps the invariant, as long as generators do not hold tier 1 up.
LEMMA NextWake ==
  WakeInv /\ Known /\ Known' /\ LifeInv /\ ~Tier2Oversubscribed /\ [Next]_vars => WakeInv'
<1> SUFFICES ASSUME WakeInv, Known, Known', LifeInv, ~Tier2Oversubscribed, [Next]_vars
             PROVE  WakeInv'
  OBVIOUS
<1>1. Attended /\ ExitOK /\ UnicoreOK /\ BatchInv /\ BatchInv' /\ PendingOK
  BY DEF WakeInv, Known
<1>2. Attended'
  <2>1. ASSUME NEW h \in Threads, ThreadStep(h) \/ SpuriousWakeup(h) PROVE Attended'
    BY <1>1, <2>1, ThreadAttends
  <2>2. CASE Start \/ RunPendingSourceCompressions
    BY <1>1, <2>2, StartsAttend
  <2>3. CASE \/ WaitForAllThreads \/ CancelOffThreadCompressions \/ MainWait
             \/ ConsumerSpuriousWakeup \/ Finish \/ FinishThreads \/ Ended \/ UNCHANGED vars
    BY <1>1, <2>3, MainAttends
  <2> QED
    BY <2>1, <2>2, <2>3 DEF Next
<1> QED
  BY <1>1, <1>2, NextExit, NextUnicore DEF WakeInv

LEMMA InitWake == Init => WakeInv
<1> SUFFICES ASSUME Init PROVE WakeInv
  OBVIOUS
<1>1. Waiting = {}
  BY DEF Init, Waiting
<1>2. UnicoreOK
  BY DEF Init, UnicoreOK, NoModule, Kinds
<1>3. ExitOK
  BY DEF Init, ExitOK
<1> QED
  BY <1>1, <1>2, <1>3 DEF WakeInv, Attended

\* What the counts say of a thread that sleeps while nobody looks for work.
LEMMA NobodyMissed ==
  ASSUME WakeInv, Known, LifeInv PROVE NoLostWakeup
<1> SUFFICES ASSUME Waiting # {}, \A h \in Threads : tpc[h] \notin {"awake", "locked", "free"},
                    NEW k \in UrgentKinds, CanStart(k)
             PROVE  FALSE
  BY DEF NoLostWakeup
<1>1. WorkTypes /\ Stages /\ BusyOK /\ Attended /\ ExitOK
  BY DEF WakeInv, Known, BatchInv
<1>2. Looking = {} /\ Cardinality(Looking) = 0
  BY FS_EmptySet DEF Looking
<1>3. worklist[k] # <<>> /\ k \in WorkKinds \cup WaitKinds
  BY DEF CanStart, UrgentKinds, WorkKinds, WaitKinds
<1>4. QueuedWork # 0 \/ QueuedMasters # 0
  BY <1>1, <1>3, UrgentCounts
<1>5. terminating = {}
  BY <1>1, <1>4, UrgentCounts DEF Attended
<1>6. Urgent > 0
  <2>1. PICK a, b, c \in Nat : a = QueuedWork /\ b = QueuedMasters /\ c = ReadyCompression
    BY <1>1, UrgentCounts
  <2>2. a + b + c > 0
    BY <1>4, <2>1
  <2> QED
    BY <2>1, <2>2 DEF Urgent
<1>7. QueuedWork = 0 /\ Cardinality(Waiting) = 1
  <2>1. ~(Urgent <= Cardinality(Looking))
    <3>1. PICK u \in Nat : u = Urgent
      BY <1>1, UrgentCounts
    <3> QED
      BY <1>2, <1>6, <3>1
  <2> QED
    BY <1>1, <1>5, <2>1 DEF Attended
<1>8. k \in MasterKinds
  <2>1. k \notin WorkKinds
    BY <1>1, <1>3, <1>7, UrgentCounts
  <2> QED
    BY <1>3, <2>1 DEF WaitKinds, MasterKinds
<1>9. PICK h \in Waiting : TRUE
  OBVIOUS
<1>10. PICK g \in IdleThreads : g # h
  <2>1. IdleThreads \subseteq Threads
    BY DEF IdleThreads
  <2> QED
    BY <1>8, <2>1, MasterStarts, AnotherThread
<1>11. tpc[g] = "wait"
  <2>1. g \in Threads /\ cur[g] = Idle /\ tpc[g] \in ThreadStates
    BY <1>1 DEF IdleThreads, WorkTypes
  <2>2. tpc[g] \notin {"run", "abort", "drain", "ran"}
    BY <1>1, <2>1 DEF BusyOK
  <2>3. tpc[g] # "exited"
    BY <1>1, <1>5, <2>1 DEF ExitOK
  <2> QED
    BY <2>1, <2>2, <2>3 DEF ThreadStates
<1>12. g \in Waiting \ {h} /\ Waiting \subseteq Threads
  BY <1>10, <1>11 DEF IdleThreads, Waiting
<1>13. Cardinality(Waiting \ {h}) = 0 /\ Waiting \ {h} \subseteq Threads
  <2>1. Cardinality(Waiting \ {h}) = Cardinality(Waiting) - 1
    BY <1>9, <1>12, ThreadSets
  <2> QED
    BY <1>7, <1>12, <2>1
<1> QED
  BY <1>12, <1>13, ThreadSets

\* wait() and notifyOne() never leave an urgent task and a sleeping thread with nobody
\* on the way, as long as the generators do not oversubscribe the pool.  (Above that
\* limit tier-1 batches are held up, and a generator that starts or is cancelled lets
\* them go without a notification.)
THEOREM NoWakeupIsLost == Spec /\ []~Tier2Oversubscribed => []NoLostWakeup
<1>1. WakeInv /\ Known /\ LifeInv => NoLostWakeup
  BY NobodyMissed
<1> QED
  BY <1>1, InitWake, NextWake, AlwaysKnown, AlwaysLife, PTL DEF Spec

\* startTier2() queues a generator as its promise task resolves, and only once.
GeneratorsOnce ==
  LET q == worklist["generator"] IN
    /\ \A i \in DOMAIN q : q[i] \in PromiseTasks \cap completed
    /\ \A i, j \in DOMAIN q : q[i] = q[j] => i = j

LEMMA NextGenerators ==
  ASSUME GeneratorsOnce, LifeInv, BatchInv, [Next]_vars
  PROVE  GeneratorsOnce'
<1> DEFINE q == worklist["generator"]
<1>1. ASSUME q' = q \/ q' = <<>>, completed \subseteq completed' PROVE GeneratorsOnce'
  BY <1>1 DEF GeneratorsOnce
<1>2. /\ "generator" \in Kinds /\ WorkTypes /\ q \in Seq(Items)
      /\ "generator" \notin {"gc", "ion", "ionFree", "promise", "parse", "compress", "tier1",
                             "tier2"}
  BY DEF Kinds, BatchInv, WorkTypes
<1>3. ASSUME NEW k \in Kinds \ {"generator"}, NEW l, worklist' = [worklist EXCEPT ![k] = l]
      PROVE  q' = q
  BY <1>2, <1>3 DEF WorkTypes
<1>4. ASSUME NEW h \in Threads, NEW k \in Kinds, StartTask(h, k) PROVE GeneratorsOnce'
  <2>1. PICK i \in Poppable(k) : worklist' = [worklist EXCEPT ![k] = Without(worklist[k], i)]
    BY <1>4 DEF StartTask
  <2>2. completed \subseteq completed'
    BY <1>4 DEF StartTask
  <2>3. CASE k # "generator"
    BY <1>1, <1>3, <2>1, <2>2, <2>3
  <2>4. CASE k = "generator"
    <3>1. i \in 1..Len(q)
      <4>1. q # <<>>
        BY <1>4, <2>4, OnlyStartable DEF StartTask, CanStart
      <4>2. Len(q) \in Nat /\ Len(q) # 0
        BY <1>2, <4>1, EmptySeq
      <4> QED
        BY <2>4, <4>2 DEF Poppable
    <3>2. q' = Without(q, i)
      BY <1>2, <2>1, <2>4 DEF WorkTypes
    <3> DEFINE at(j) == IF j < i THEN j ELSE j + 1
    <3> HIDE DEF q
    <3>3. \A j \in DOMAIN Without(q, i) : Without(q, i)[j] = q[at(j)] /\ at(j) \in DOMAIN q
      BY <1>2, <3>1, WithoutElements
    <3>4. \A j, m \in DOMAIN Without(q, i) : at(j) = at(m) => j = m
      <4>1. Without(q, i) \in Seq(Items)
        BY <1>2, <3>1, WithoutSeq
      <4>2. DOMAIN Without(q, i) \subseteq Nat /\ i \in Nat
        BY <3>1, <4>1
      <4>3. ASSUME NEW j \in Nat, NEW m \in Nat, at(j) = at(m) PROVE j = m
        BY <4>2, <4>3
      <4> QED
        BY <4>2, <4>3
    <3> HIDE DEF at
    <3>5. /\ \A j \in DOMAIN q : q[j] \in PromiseTasks \cap completed
          /\ \A j, m \in DOMAIN q : q[j] = q[m] => j = m
      BY DEF GeneratorsOnce, q
    <3>6. /\ \A j \in DOMAIN q' : q'[j] \in PromiseTasks \cap completed'
          /\ \A j, m \in DOMAIN q' : q'[j] = q'[m] => j = m
      BY <2>2, <3>2, <3>3, <3>4, <3>5
    <3> QED
      BY <3>6 DEF GeneratorsOnce, q
  <2> QED
    BY <2>3, <2>4
<1>5. ASSUME NEW h \in Threads, StartOffThreadWasmTier2Generator(h) PROVE GeneratorsOnce'
  <2> DEFINE t == cur[h][1].item
  <2>1. /\ worklist' = [worklist EXCEPT !["generator"] = Append(q, t)]
        /\ completed' = completed \cup {t} /\ tpc[h] = "run" /\ IsKind(h, {"promise"})
    BY <1>5 DEF StartOffThreadWasmTier2Generator, ModuleDone, DispatchResolve
  <2>2. t \in PromiseTasks /\ t \notin completed
    <3>1. IsKind(h, WaitKinds) /\ cur[h] # Idle /\ cur[h][1].kind = "promise"
      BY <2>1 DEF IsKind, WaitKinds
    <3>2. t \notin completed
      BY <2>1, <3>1 DEF LifeInv, RunOnce
    <3>3. "promise" \in PoolKinds
      BY DEF PoolKinds, Kinds, CompileKinds
    <3>4. t \in TasksOf("promise")
      BY <3>1, <3>3 DEF LifeInv, Sorted
    <3> QED
      BY <3>2, <3>4, TasksByKind
  <2>3. q' = Append(q, t)
    BY <1>2, <2>1 DEF WorkTypes
  <2> HIDE DEF q, t
  <2>4. t \in Items
    BY <2>2 DEF Items, Tasks
  <2>5. /\ \A i \in DOMAIN q : q[i] \in PromiseTasks \cap completed
        /\ \A i, j \in DOMAIN q : q[i] = q[j] => i = j
    BY DEF GeneratorsOnce, q
  <2>6. /\ DOMAIN Append(q, t) = 1..(Len(q) + 1) /\ DOMAIN q = 1..Len(q) /\ Len(q) \in Nat
        /\ \A i \in 1..Len(q) : Append(q, t)[i] = q[i]
        /\ Append(q, t)[Len(q) + 1] = t
    BY <1>2, <2>4
  <2>7. /\ \A i \in DOMAIN Append(q, t) : i \in DOMAIN q \/ i = Len(q) + 1
        /\ Len(q) + 1 \notin DOMAIN q
    BY <2>6
  <2>8. /\ \A i \in DOMAIN q' : q'[i] \in PromiseTasks \cap completed'
        /\ \A i, j \in DOMAIN q' : q'[i] = q'[j] => i = j
    BY <2>1, <2>2, <2>3, <2>5, <2>6, <2>7
  <2> QED
    BY <2>8 DEF GeneratorsOnce, q
<1>6. ASSUME NEW h \in Threads, ThreadStep(h) \/ SpuriousWakeup(h),
             ~\E k \in Kinds : StartTask(h, k), ~StartOffThreadWasmTier2Generator(h)
      PROVE  GeneratorsOnce'
  <2>1. completed \subseteq completed'
    BY <1>6 DEF ThreadStep, LoopStep, Wait, Exit, MasterStep, LaunchBatchCompile, LaunchFails,
         FinishOutstandingTask, Abort, AbortDrained, DispatchResolve, FinishModule,
         ReportCompiled, FinishTask, FinishIonFree, SpuriousWakeup, taskVars
  <2>2. worklist' = worklist \/ \E l : worklist' = [worklist EXCEPT ![Mode(h)] = l]
    BY <1>6 DEF ThreadStep, LoopStep, Wait, Exit, MasterStep, LaunchBatchCompile, LaunchFails,
         FinishOutstandingTask, Abort, AbortDrained, FinishModule, ReportCompiled, FinishTask,
         FinishIonFree, SpuriousWakeup
  <2>3. Mode(h) \in Kinds \ {"generator"}
    BY DEF Mode, Kinds
  <2> QED
    BY <1>1, <1>3, <2>1, <2>2, <2>3
<1>7. CASE Start \/ RunPendingSourceCompressions
  <2>1. completed' = completed
    BY <1>7 DEF Start, StartGCParallelTask, StartOffThreadIonCompile, StartOffThreadIonFree,
         StartOffThreadPromiseHelperTask, QueueOffThreadParseTask, Enqueue,
         EnqueueOffThreadCompression, ScheduleByGC, SweepCompressionTasks,
         RunPendingSourceCompressions, StartHandlingCompressionTasks, taskVars
  <2>2. \/ worklist' = worklist
        \/ \E l : worklist' = [worklist EXCEPT !["compress"] = l]
        \/ \E k \in {"gc", "ion", "ionFree", "promise", "parse"} : \E t :
             worklist' = [worklist EXCEPT ![k] = Append(@, t)]
    BY <1>7 DEF Start, StartGCParallelTask, StartOffThreadIonCompile, StartOffThreadIonFree,
         StartOffThreadPromiseHelperTask, QueueOffThreadParseTask, Enqueue,
         EnqueueOffThreadCompression, ScheduleByGC, SweepCompressionTasks,
         RunPendingSourceCompressions, StartHandlingCompressionTasks, poolVars
  <2>3. {"gc", "ion", "ionFree", "promise", "parse", "compress"} \subseteq Kinds \ {"generator"}
    BY DEF Kinds
  <2> QED
    BY <1>1, <1>3, <2>1, <2>2, <2>3
<1>8. CASE \/ WaitForAllThreads \/ CancelOffThreadCompressions \/ MainWait
           \/ ConsumerSpuriousWakeup \/ Finish \/ FinishThreads \/ Ended
           \/ UNCHANGED vars
  <2>1. completed \subseteq completed'
    BY <1>8 DEF WaitForAllThreads, CancelOffThreadCompressions, MainWait, GeneratorRecheck,
         HasActiveThreads, CompressionsStarted, CompressionsJoined, ConsumerSpuriousWakeup,
         Finish, FinishThreads, DestroyThread, FinishThreadsDone,
         CancelOffThreadWasmTier2Generator, Ended, vars, taskVars
  <2>2. \/ worklist' = worklist
        \/ worklist' = [worklist EXCEPT !["generator"] = <<>>]
        \/ worklist' = [worklist EXCEPT !["compress"] = <<>>]
        \/ worklist' = [worklist EXCEPT !["ionFree"] = <<>>]
    BY <1>8 DEF WaitForAllThreads, CancelOffThreadCompressions, MainWait, GeneratorRecheck,
         HasActiveThreads, CompressionsStarted, CompressionsJoined, ConsumerSpuriousWakeup,
         Finish, FinishThreads, DestroyThread, FinishThreadsDone,
         CancelOffThreadWasmTier2Generator, Ended, vars, poolVars
  <2>3. {"compress", "ionFree"} \subseteq Kinds \ {"generator"}
    BY DEF Kinds
  <2>4. worklist' = [worklist EXCEPT !["generator"] = <<>>] => q' = <<>>
    BY <1>2 DEF WorkTypes
  <2> QED
    BY <1>1, <1>3, <2>1, <2>2, <2>3, <2>4
<1> QED
  BY <1>4, <1>5, <1>6, <1>7, <1>8 DEF Next

\* As many generators as promise tasks do not oversubscribe the pool.
LEMMA FewGenerators ==
  ASSUME GeneratorsOnce, WorkTypes,
         IsFiniteSet(PromiseTasks), Cardinality(PromiseTasks) <= BacklogLimit
  PROVE  ~Tier2Oversubscribed
<1> DEFINE q == worklist["generator"]
<1>1. q \in Seq(Items)
  BY DEF WorkTypes, Kinds
<1>2. /\ \A i \in DOMAIN q : q[i] \in PromiseTasks
      /\ \A i, j \in DOMAIN q : q[i] = q[j] => i = j
  BY DEF GeneratorsOnce
<1> HIDE DEF q
<1>3. DOMAIN q = 1..Len(q) /\ Len(q) \in Nat /\ q \in [1..Len(q) -> PromiseTasks]
  <2>1. DOMAIN q = 1..Len(q) /\ Len(q) \in Nat /\ q = [i \in 1..Len(q) |-> q[i]]
    BY <1>1
  <2> QED
    BY <1>2, <2>1
<1>4. q \in Injection(1..Len(q), PromiseTasks)
  BY <1>2, <1>3 DEF Injection, IsInjective
<1>5. Cardinality(1..Len(q)) = Len(q) /\ Cardinality(1..Len(q)) <= Cardinality(PromiseTasks)
  <2>1. Cardinality(1..Len(q)) <= Cardinality(PromiseTasks)
    BY <1>4, FS_Injection
  <2>2. \A n \in Nat : Cardinality(1..n) = n
    <3> TAKE n \in Nat
    <3>1. Cardinality(1..n) = IF 1 > n THEN 0 ELSE n - 1 + 1
      BY FS_Interval
    <3> QED
      BY <3>1
  <2>3. Cardinality(1..Len(q)) = Len(q)
    BY <1>3, <2>2, Zenon
  <2> QED
    BY <2>1, <2>3
<1>6. Cardinality(PromiseTasks) \in Nat /\ BacklogLimit \in Nat
  BY FS_CardinalityType, BoundsAssumption
<1>7. ~(Len(q) > BacklogLimit)
  BY <1>3, <1>5, <1>6
<1> QED
  BY <1>7 DEF Tier2Oversubscribed, q

\* A program that compiles at most BacklogLimit modules in two tiers never fills the
\* backlog: no wakeup is lost in it.
THEOREM NoWakeupIsLostInBounds ==
  ASSUME IsFiniteSet(PromiseTasks), Cardinality(PromiseTasks) <= BacklogLimit
  PROVE  Spec => []NoLostWakeup
<1>1. Init => GeneratorsOnce
  BY DEF Init, GeneratorsOnce, Kinds
<1>2. GeneratorsOnce /\ LifeInv /\ Known /\ [Next]_vars => GeneratorsOnce'
  BY NextGenerators DEF Known
<1>3. GeneratorsOnce /\ Known => ~Tier2Oversubscribed
  BY FewGenerators DEF Known, BatchInv
<1> QED
  BY <1>1, <1>2, <1>3, AlwaysKnown, AlwaysLife, NoWakeupIsLost, PTL DEF Spec

=============================================================================
