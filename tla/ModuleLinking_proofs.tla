------------------------ MODULE ModuleLinking_proofs ------------------------
(* Proofs about ModuleLinking, for every set of modules, whatever they     *)
(* request, import and export, and every sequence of calls of the host.    *)
EXTENDS ModuleLinking, FiniteSetTheorems, SequenceTheorems, WellFoundedInduction, TLAPS

Frames == [module : Modules, next : Nat \ {0}]

Statuses == {UNLINKED, LINKING, LINKED, EVALUATING, EVALUATED, EVALUATED_ERROR}

InProgress == {LINKING, EVALUATING}

\* The types that the search relies on.  What linking binds and throws plays no
\* part in it.
SearchTypes ==
  /\ records \in [Modules -> Records]
  /\ status \in [Modules -> Statuses]
  /\ dfsIndex \in [Modules -> Nat]
  /\ dfsAncestorIndex \in [Modules -> Nat]
  /\ index \in Nat
  /\ call \in Calls
  /\ frames \in Seq(Frames)
  /\ stack \in Seq(Modules)

\* The indices of the search: each activation has a higher one than those it was
\* called from, and the outermost, which must find itself to be the root of a
\* component for the stack to end empty, has the lowest there is.
Indexed ==
  /\ \A i \in DOMAIN stack : dfsIndex[stack[i]] < index
  /\ \A i \in DOMAIN frames : \A j \in 1..(i - 1) :
       dfsIndex[frames[j].module] < dfsIndex[frames[i].module]
  /\ frames # <<>> => dfsIndex[frames[1].module] = 0
  /\ frames = <<>> <=> call = Idle
  /\ frames = <<>> => index = 0

IInv == SearchTypes /\ InProgressIsStack /\ Indexed

-----------------------------------------------------------------------------
(* Lemmas about the operators.                                             *)

\* The slots hold different numbers.
LEMMA StatusesDiffer ==
  /\ LINKING # UNLINKED /\ LINKING # LINKED /\ LINKING # EVALUATED /\ LINKING # EVALUATED_ERROR
  /\ EVALUATING # UNLINKED /\ EVALUATING # LINKED /\ EVALUATING # EVALUATED
  /\ EVALUATING # EVALUATED_ERROR /\ LINKING # EVALUATING
BY DEF UNLINKED, LINKING, LINKED, EVALUATING, EVALUATED, EVALUATED_ERROR

LEMMA MinOfTwo ==
  ASSUME NEW a \in Nat, NEW b \in Nat
  PROVE  /\ Min({a, b}) \in {a, b} /\ Min({a, b}) \in Nat
         /\ Min({a, b}) <= a /\ Min({a, b}) <= b
<1>1. \E x \in {a, b} : \A y \in {a, b} : x <= y
  OBVIOUS
<1>2. Min({a, b}) \in {a, b} /\ \A y \in {a, b} : Min({a, b}) <= y
  BY <1>1 DEF Min
<1> QED
  BY <1>2

\* Taking over an ancestor index only lowers it.
LEMMA AbsorbLowers ==
  ASSUME dfsAncestorIndex \in [Modules -> Nat], NEW p \in Modules, NEW c \in Modules,
         NEW inSearch
  PROVE  /\ Absorb(p, c, inSearch) \in [Modules -> Nat]
         /\ \A m \in Modules : Absorb(p, c, inSearch)[m] <= dfsAncestorIndex[m]
<1>1. /\ Min({dfsAncestorIndex[p], dfsAncestorIndex[c]}) \in Nat
      /\ Min({dfsAncestorIndex[p], dfsAncestorIndex[c]}) <= dfsAncestorIndex[p]
  BY MinOfTwo
<1> QED
  BY <1>1 DEF Absorb

\* The innermost activation is of a module on the stack.
LEMMA TopOnStack ==
  ASSUME IInv, call # Idle
  PROVE  /\ Len(frames) \in Nat /\ Len(frames) >= 1 /\ DOMAIN frames = 1..Len(frames)
         /\ Top = frames[Len(frames)] /\ Top \in Frames
         /\ Top.module \in Modules /\ Top.module \in ToSet(stack)
         /\ call.op \in {"link", "evaluate"}
<1>1. frames \in Seq(Frames) /\ frames # <<>>
  BY DEF IInv, SearchTypes, Indexed
<1>2. /\ Len(frames) \in Nat /\ Len(frames) >= 1 /\ DOMAIN frames = 1..Len(frames)
      /\ frames[Len(frames)] \in Frames
  BY <1>1, EmptySeq, ElementOfSeq
<1>3. Top = frames[Len(frames)]
  BY DEF Top, Last
<1>4. frames[Len(frames)].module \in ToSet(stack)
  BY <1>2 DEF IInv, InProgressIsStack
<1>5. call.op \in {"link", "evaluate"}
  BY DEF IInv, SearchTypes, Calls
<1> QED
  BY <1>2, <1>3, <1>4, <1>5 DEF Frames

\* What it requests next is a module.
LEMMA RequestedIsModule ==
  ASSUME IInv, call # Idle, HasRequest
  PROVE  Requested \in Modules
<1>1. Top.module \in Modules /\ Top.next \in Nat \ {0}
  BY TopOnStack DEF Frames
<1>2. Requests(Top.module) \in Seq(Modules)
  BY <1>1 DEF IInv, SearchTypes, Requests, Records
<1>3. Top.next \in 1..Len(Requests(Top.module))
  BY <1>1, <1>2 DEF HasRequest
<1> QED
  BY <1>2, <1>3, ElementOfSeq DEF Requested

\* An activation goes on to its next request.
LEMMA NextRequestKeeps ==
  ASSUME NEW fs \in Seq(Frames), fs # <<>>
  PROVE  /\ NextRequest(fs) \in Seq(Frames) /\ NextRequest(fs) # <<>>
         /\ DOMAIN NextRequest(fs) = DOMAIN fs
         /\ \A i \in DOMAIN fs : NextRequest(fs)[i].module = fs[i].module
<1> DEFINE n == Len(fs)
           f == [fs[n] EXCEPT !.next = @ + 1]
<1>1. n \in Nat /\ n >= 1 /\ DOMAIN fs = 1..n /\ n \in 1..n /\ fs[n] \in Frames
  BY EmptySeq, ElementOfSeq
<1>2. f \in Frames /\ f.module = fs[n].module
  BY <1>1 DEF Frames
<1>3. NextRequest(fs) = [fs EXCEPT ![n] = f]
  BY DEF NextRequest
<1> HIDE DEF f
<1>4. NextRequest(fs) \in Seq(Frames) /\ Len(NextRequest(fs)) = n
  BY <1>1, <1>2, <1>3, ExceptSeq
<1> QED
  BY <1>1, <1>2, <1>3, <1>4

-----------------------------------------------------------------------------
(* One lemma for each way to change the stack or the activations.          *)

\* A module enters the search.
LEMMA EnterIInv ==
  ASSUME IInv, NEW m \in Modules, status[m] \notin InProgress,
         call' \in Calls \ {Idle}, call # Idle => call' = call, records' = records,
         Enter(m, IF call'.op = "link" THEN LINKING ELSE EVALUATING)
  PROVE  IInv'
<1> DEFINE s == Len(stack)
           n == Len(frames)
           inProgress == IF call'.op = "link" THEN LINKING ELSE EVALUATING
<1>1. m \notin ToSet(stack)
  BY DEF IInv, InProgressIsStack, InProgress
<1>2. /\ s \in Nat /\ DOMAIN stack = 1..s /\ DOMAIN stack' = 1..(s + 1)
      /\ \A i \in 1..s : stack'[i] = stack[i] /\ stack[i] \in Modules /\ stack[i] # m
      /\ stack'[s + 1] = m /\ stack' \in Seq(Modules)
  BY <1>1, ElementOfSeq DEF IInv, SearchTypes, Enter, ToSet
<1>3. [module |-> m, next |-> 1] \in Frames
  BY DEF Frames
<1>4. /\ n \in Nat /\ DOMAIN frames = 1..n /\ DOMAIN frames' = 1..(n + 1)
      /\ \A i \in 1..n : frames'[i] = frames[i]
      /\ frames'[n + 1].module = m /\ frames' \in Seq(Frames) /\ frames' # <<>>
  BY <1>3 DEF IInv, SearchTypes, Enter
<1>5. \A i \in 1..n : frames[i].module \in Modules /\ frames[i].module \in ToSet(stack)
  <2> TAKE i \in 1..n
  <2>1. frames[i] \in Frames
    BY <1>4, ElementOfSeq DEF IInv, SearchTypes
  <2> QED
    BY <1>4, <2>1 DEF IInv, InProgressIsStack, Frames
<1>6. inProgress \in InProgress /\ inProgress \in Statuses
  BY DEF InProgress, Statuses
<1>7. /\ status' = [status EXCEPT ![m] = inProgress]
      /\ dfsIndex' = [dfsIndex EXCEPT ![m] = index]
      /\ dfsAncestorIndex' = [dfsAncestorIndex EXCEPT ![m] = index]
      /\ index' = index + 1
  BY DEF Enter
<1>8. SearchTypes'
  BY <1>2, <1>4, <1>6, <1>7 DEF IInv, SearchTypes
<1> HIDE DEF s, n, inProgress
<1>9. \A i \in 1..s : dfsIndex[stack[i]] < index
  BY <1>2 DEF IInv, Indexed
<1>10. \A i \in 1..n : frames[i].module # m /\ dfsIndex[frames[i].module] < index
  BY <1>1, <1>2, <1>5, <1>9 DEF ToSet
<1>11. InProgressIsStack'
  <2>1. ToSet(stack') = ToSet(stack) \cup {m}
    BY <1>2 DEF ToSet
  <2>2. {k \in Modules : status'[k] \in InProgress} = ToSet(stack) \cup {m}
    BY <1>6, <1>7 DEF IInv, SearchTypes, InProgressIsStack, InProgress
  <2>3. \A i \in 1..s : status[stack[i]] = inProgress
    <3>1. CASE call = Idle
      BY <1>2, <3>1 DEF IInv, InProgressIsStack
    <3>2. CASE call # Idle
      BY <1>2, <3>2 DEF IInv, InProgressIsStack, inProgress
    <3> QED
      BY <3>1, <3>2
  <2>4. ASSUME NEW i \in 1..(s + 1)
        PROVE  /\ status'[stack'[i]] = inProgress
               /\ dfsAncestorIndex'[stack'[i]] <= dfsIndex'[stack'[i]]
               /\ \A j \in 1..(i - 1) : dfsIndex'[stack'[j]] < dfsIndex'[stack'[i]]
    <3>1. CASE i = s + 1
      BY <1>2, <1>7, <1>9, <3>1 DEF IInv, SearchTypes
    <3>2. CASE i # s + 1
      <4>1. i \in 1..s /\ \A j \in 1..(i - 1) : j \in 1..s
        BY <1>2, <3>2
      <4>2. /\ dfsAncestorIndex[stack[i]] <= dfsIndex[stack[i]]
            /\ \A j \in 1..(i - 1) : dfsIndex[stack[j]] < dfsIndex[stack[i]]
        BY <1>2, <4>1 DEF IInv, InProgressIsStack
      <4> QED
        BY <1>2, <1>7, <2>3, <4>1, <4>2 DEF IInv, SearchTypes
    <3> QED
      BY <3>1, <3>2
  <2>5. {frames'[i].module : i \in DOMAIN frames'} \subseteq ToSet(stack')
    BY <1>4, <1>5, <2>1
  <2>6. call' # Idle
    OBVIOUS
  <2> QED
    BY <1>2, <2>1, <2>2, <2>4, <2>5, <2>6 DEF InProgressIsStack, InProgress, inProgress
<1>12. Indexed'
  <2>1. \A i \in 1..(s + 1) : dfsIndex'[stack'[i]] < index'
    <3> TAKE i \in 1..(s + 1)
    <3>1. CASE i = s + 1
      BY <1>2, <1>7, <3>1 DEF IInv, SearchTypes
    <3>2. CASE i # s + 1
      <4>1. i \in 1..s
        BY <1>2, <3>2
      <4> QED
        BY <1>2, <1>7, <1>9, <4>1 DEF IInv, SearchTypes
    <3> QED
      BY <3>1, <3>2
  <2>2. ASSUME NEW i \in 1..(n + 1), NEW j \in 1..(i - 1)
        PROVE  dfsIndex'[frames'[j].module] < dfsIndex'[frames'[i].module]
    <3>1. j \in 1..n
      BY <1>4
    <3>2. CASE i = n + 1
      BY <1>4, <1>5, <1>7, <1>10, <3>1, <3>2 DEF IInv, SearchTypes
    <3>3. CASE i # n + 1
      <4>1. i \in 1..n
        BY <1>4, <3>3
      <4>2. dfsIndex[frames[j].module] < dfsIndex[frames[i].module]
        BY <1>4, <4>1 DEF IInv, Indexed
      <4> QED
        BY <1>4, <1>5, <1>7, <1>10, <3>1, <4>1, <4>2 DEF IInv, SearchTypes
    <3> QED
      BY <3>2, <3>3
  <2>3. dfsIndex'[frames'[1].module] = 0
    <3>1. CASE frames = <<>>
      <4>1. n = 0 /\ index = 0
        BY <3>1 DEF IInv, Indexed, n
      <4> QED
        BY <1>4, <1>7, <4>1 DEF IInv, SearchTypes
    <3>2. CASE frames # <<>>
      <4>1. 1 \in 1..n
        BY <1>4, <3>2, EmptySeq DEF IInv, SearchTypes, n
      <4> QED
        BY <1>4, <1>5, <1>7, <1>10, <3>2, <4>1 DEF IInv, SearchTypes, Indexed
    <3> QED
      BY <3>1, <3>2
  <2> QED
    BY <1>2, <1>4, <2>1, <2>2, <2>3 DEF Indexed
<1> QED
  BY <1>8, <1>11, <1>12 DEF IInv

\* A request is passed: only the ancestor index of a module changes.
LEMMA MeetIInv ==
  ASSUME IInv, call # Idle, NEW m \in Modules, NEW inProgress, Meet(m, inProgress),
         UNCHANGED <<records, call>>
  PROVE  IInv'
<1>1. /\ frames \in Seq(Frames) /\ frames # <<>> /\ Top.module \in Modules
      /\ DOMAIN frames = 1..Len(frames) /\ Len(frames) \in Nat /\ 1 \in DOMAIN frames
  BY TopOnStack DEF IInv, SearchTypes, Indexed
<1>2. /\ frames' \in Seq(Frames) /\ frames' # <<>> /\ DOMAIN frames' = DOMAIN frames
      /\ \A i \in DOMAIN frames : frames'[i].module = frames[i].module
  BY <1>1, NextRequestKeeps DEF Meet
<1>3. /\ dfsAncestorIndex' \in [Modules -> Nat]
      /\ \A k \in Modules : dfsAncestorIndex'[k] <= dfsAncestorIndex[k]
  BY <1>1, AbsorbLowers DEF IInv, SearchTypes, Meet
<1>4. UNCHANGED <<records, call, status, dfsIndex, index, stack>>
  BY DEF Meet
<1>5. SearchTypes'
  BY <1>2, <1>3, <1>4 DEF IInv, SearchTypes
<1>6. InProgressIsStack'
  <2>1. ASSUME NEW i \in DOMAIN stack
        PROVE  dfsAncestorIndex'[stack[i]] <= dfsIndex[stack[i]]
    <3>1. stack[i] \in Modules /\ dfsAncestorIndex[stack[i]] <= dfsIndex[stack[i]]
      BY DEF IInv, SearchTypes, InProgressIsStack
    <3> QED
      BY <1>3, <3>1 DEF IInv, SearchTypes
  <2>2. {frames'[i].module : i \in DOMAIN frames'} = {frames[i].module : i \in DOMAIN frames}
    BY <1>2
  <2>3. ToSet(stack') = ToSet(stack)
    BY <1>4
  <2> QED
    BY <1>4, <2>1, <2>2, <2>3 DEF IInv, InProgressIsStack
<1>7. Indexed'
  <2>1. ASSUME NEW i \in DOMAIN frames, NEW j \in 1..(i - 1)
        PROVE  dfsIndex[frames'[j].module] < dfsIndex[frames'[i].module]
    <3>1. j \in DOMAIN frames
      BY <1>1
    <3> QED
      BY <1>2, <3>1 DEF IInv, Indexed
  <2> QED
    BY <1>1, <1>2, <1>4, <2>1 DEF IInv, Indexed
<1> QED
  BY <1>5, <1>6, <1>7 DEF IInv

\* A call ends with an exception after it has taken every module out of the search.
LEMMA UnwindIInv ==
  ASSUME IInv, NEW error, Unwind(error), UNCHANGED records,
         status' \in [Modules -> Statuses], \A m \in Modules : status'[m] \notin InProgress,
         dfsIndex' \in [Modules -> Nat], dfsAncestorIndex' \in [Modules -> Nat]
  PROVE  IInv'
<1>1. frames' = <<>> /\ stack' = <<>> /\ index' = 0 /\ call' = Idle
  BY DEF Unwind
<1>2. SearchTypes'
  BY <1>1 DEF IInv, SearchTypes, Calls
<1>3. ToSet(stack') = {} /\ DOMAIN stack' = {} /\ DOMAIN frames' = {}
  BY <1>1 DEF ToSet
<1>4. InProgressIsStack'
  BY <1>1, <1>3 DEF InProgressIsStack, InProgress
<1>5. Indexed'
  BY <1>1, <1>3 DEF Indexed
<1> QED
  BY <1>2, <1>4, <1>5 DEF IInv

-----------------------------------------------------------------------------
(* The end of a module.                                                    *)

\* What is left of the stack, and what is taken from it: nothing, or everything
\* from the module on.
LEMMA ComponentProperties ==
  ASSUME IInv, NEW m \in ToSet(stack)
  PROVE  \E q \in 0..Len(stack) :
           /\ Component(m) = {stack[i] : i \in (q + 1)..Len(stack)}
           /\ SubSeq(stack, 1, Len(stack) - Cardinality(Component(m))) = SubSeq(stack, 1, q)
           /\ \A i \in (q + 1)..Len(stack) : dfsIndex[m] <= dfsIndex[stack[i]]
           /\ dfsIndex[m] = 0 => q = 0
           /\ Component(m) # {} => m \in Component(m)
<1> DEFINE s == Len(stack)
<1>1. /\ s \in Nat /\ DOMAIN stack = 1..s /\ stack \in Seq(Modules)
      /\ \A i \in 1..s : stack[i] \in Modules
  BY ElementOfSeq DEF IInv, SearchTypes
<1>2. PICK p \in 1..s : stack[p] = m
  BY <1>1 DEF ToSet
<1> HIDE DEF s
<1>3. \A i \in 1..s : \A j \in 1..(i - 1) : dfsIndex[stack[j]] < dfsIndex[stack[i]]
  BY <1>1 DEF IInv, InProgressIsStack
<1>4. m \in Modules /\ dfsIndex[m] \in Nat /\ \A i \in 1..s : dfsIndex[stack[i]] \in Nat
  BY <1>1, <1>2 DEF IInv, SearchTypes
<1>5. \A i, j \in 1..s : i < j => dfsIndex[stack[i]] < dfsIndex[stack[j]]
  <2> TAKE i, j \in 1..s
  <2> HAVE i < j
  <2>1. i \in 1..(j - 1)
    BY <1>1
  <2> QED
    BY <1>3, <2>1
<1>6. \A i, j \in 1..s : stack[i] = stack[j] => i = j
  <2> TAKE i, j \in 1..s
  <2> HAVE stack[i] = stack[j]
  <2>1. ~(i < j) /\ ~(j < i)
    BY <1>4, <1>5
  <2> QED
    BY <1>1, <2>1
<1>7. CASE dfsAncestorIndex[m] = dfsIndex[m]
  <2>1. {j \in DOMAIN stack : \E k \in 1..j : stack[k] = m} = p..s
    BY <1>1, <1>2, <1>6
  <2>2. Component(m) = {stack[i] : i \in p..s}
    BY <1>7, <2>1 DEF Component
  <2>3. Cardinality(Component(m)) = s - p + 1
    <3> DEFINE f == [i \in p..s |-> stack[i]]
    <3>1. IsFiniteSet(p..s) /\ Cardinality(p..s) = s - p + 1
      BY <1>1, FS_Interval
    <3>2. f \in Bijection(p..s, Component(m))
      <4>1. f \in [p..s -> Component(m)]
        BY <2>2
      <4>2. \A i, j \in p..s : f[i] = f[j] => i = j
        BY <1>1, <1>6
      <4>3. \A x \in Component(m) : \E i \in p..s : f[i] = x
        BY <2>2
      <4> QED
        BY <4>1, <4>2, <4>3 DEF Bijection, Injection, Surjection, IsInjective
    <3>3. ExistsBijection(p..s, Component(m))
      BY <3>2 DEF ExistsBijection
    <3> QED
      BY <3>1, <3>3, FS_Bijection
  <2>4. /\ p - 1 \in 0..s /\ (p - 1) + 1 = p /\ s - (s - p + 1) = p - 1
        /\ p \in p..s
    BY <1>1
  <2>5. \A i \in p..s : dfsIndex[m] <= dfsIndex[stack[i]]
    <3> TAKE i \in p..s
    <3>1. i \in 1..s /\ (i = p \/ p < i)
      BY <1>1
    <3> QED
      BY <1>2, <1>4, <1>5, <3>1
  <2>6. dfsIndex[m] = 0 => p = 1
    <3> SUFFICES ASSUME dfsIndex[m] = 0, p # 1 PROVE FALSE
      OBVIOUS
    <3>1. 1 \in 1..s /\ 1 < p
      BY <1>1
    <3> QED
      BY <1>2, <1>4, <1>5, <3>1
  <2>7. m \in Component(m)
    BY <1>2, <2>2, <2>4
  <2>8. s - Cardinality(Component(m)) = p - 1
    BY <2>3, <2>4
  <2>9. dfsIndex[m] = 0 => p - 1 = 0
    BY <2>6
  <2> QED
    BY <2>2, <2>4, <2>5, <2>7, <2>8, <2>9 DEF s
<1>8. CASE dfsAncestorIndex[m] # dfsIndex[m]
  <2>1. Component(m) = {} /\ Cardinality(Component(m)) = 0
    BY <1>8, FS_EmptySet DEF Component
  <2>2. s \in 0..s /\ (s + 1)..s = {} /\ s - 0 = s
    BY <1>1
  <2>3. dfsIndex[m] # 0
    <3>1. dfsAncestorIndex[m] \in Nat /\ dfsAncestorIndex[m] <= dfsIndex[m]
      BY <1>1, <1>2, <1>4 DEF IInv, SearchTypes, InProgressIsStack
    <3> QED
      BY <1>4, <1>8, <3>1
  <2> QED
    BY <2>1, <2>2, <2>3 DEF s
<1> QED
  BY <1>7, <1>8

\* A module ends: its component leaves the search, and all activations that are
\* left are of modules below it on the stack.
LEMMA CompleteIInv ==
  ASSUME IInv, call # Idle, NEW done \in {LINKED, EVALUATED}, Complete(Top.module, done),
         UNCHANGED records
  PROVE  IInv'
<1> DEFINE n == Len(frames)
           s == Len(stack)
           m == Top.module
           component == Component(m)
           outer == Front(frames)
<1>1. /\ n \in Nat /\ n >= 1 /\ DOMAIN frames = 1..n /\ frames \in Seq(Frames)
      /\ m = frames[n].module /\ m \in Modules /\ m \in ToSet(stack)
      /\ \A i \in 1..n : frames[i] \in Frames
  BY TopOnStack, ElementOfSeq DEF IInv, SearchTypes
<1>2. /\ s \in Nat /\ DOMAIN stack = 1..s /\ stack \in Seq(Modules)
      /\ \A i \in 1..s : stack[i] \in Modules
  BY ElementOfSeq DEF IInv, SearchTypes
<1>3. PICK q \in 0..s :
        /\ component = {stack[i] : i \in (q + 1)..s}
        /\ stack' = SubSeq(stack, 1, q)
        /\ \A i \in (q + 1)..s : dfsIndex[m] <= dfsIndex[stack[i]]
        /\ dfsIndex[m] = 0 => q = 0
  BY <1>1, ComponentProperties DEF Complete
<1>4. /\ outer \in Seq(Frames) /\ Len(outer) = n - 1 /\ DOMAIN outer = 1..(n - 1)
      /\ \A i \in 1..(n - 1) : outer[i] = frames[i]
  BY <1>1 DEF Front
<1>5. /\ status' = [x \in Modules |-> IF x \in component THEN done ELSE status[x]]
      /\ dfsIndex' = dfsIndex
      /\ \/ /\ outer = <<>> /\ frames' = <<>> /\ index' = 0 /\ call' = Idle
            /\ dfsAncestorIndex' = dfsAncestorIndex
         \/ /\ outer # <<>> /\ frames' = NextRequest(outer) /\ index' = index /\ call' = call
            /\ dfsAncestorIndex' = Absorb(Last(outer).module, m, component = {})
  BY DEF Complete
<1> HIDE DEF n, s, m, component, outer
<1>6. /\ stack' \in Seq(Modules) /\ DOMAIN stack' = 1..q /\ (stack' = <<>> <=> q = 0)
      /\ \A i \in 1..q : stack'[i] = stack[i] /\ i \in 1..s
  BY <1>2, <1>3
<1>7. \A i \in 1..s : \A j \in 1..(i - 1) : dfsIndex[stack[j]] < dfsIndex[stack[i]]
  BY <1>2 DEF IInv, InProgressIsStack
<1>8. \A i \in 1..q : stack[i] \notin component
  <2> SUFFICES ASSUME NEW i \in 1..q, NEW k \in (q + 1)..s, stack[i] = stack[k] PROVE FALSE
    BY <1>3
  <2>1. k \in 1..s /\ i \in 1..(k - 1) /\ i \in 1..s
    BY <1>2
  <2>2. dfsIndex[stack[i]] < dfsIndex[stack[k]] /\ dfsIndex[stack[i]] \in Nat
    BY <1>2, <1>7, <2>1 DEF IInv, SearchTypes
  <2> QED
    BY <2>2
<1>9. ToSet(stack') = ToSet(stack) \ component
  <2>1. ToSet(stack') = {stack[i] : i \in 1..q}
    BY <1>6 DEF ToSet
  <2>2. ToSet(stack) = {stack[i] : i \in 1..q} \cup {stack[i] : i \in (q + 1)..s}
    <3>1. \A i : i \in 1..s <=> i \in 1..q \/ i \in (q + 1)..s
      BY <1>2
    <3>2. ToSet(stack) = {stack[i] : i \in 1..s}
      BY <1>2 DEF ToSet
    <3> QED
      BY <3>1, <3>2
  <2> QED
    BY <1>3, <1>8, <2>1, <2>2
<1>10. \A i \in 1..(n - 1) : /\ i \in 1..n /\ frames[i].module \in Modules
                            /\ frames[i].module \in ToSet(stack')
  <2> TAKE i \in 1..(n - 1)
  <2>1. i \in 1..n /\ n \in 1..n /\ frames[i].module \in Modules
    BY <1>1 DEF Frames
  <2>2. dfsIndex[frames[i].module] < dfsIndex[m]
    BY <1>1, <2>1 DEF IInv, Indexed
  <2>3. frames[i].module \in ToSet(stack)
    BY <1>1, <2>1 DEF IInv, InProgressIsStack
  <2>4. frames[i].module \notin component
    <3> SUFFICES ASSUME NEW k \in (q + 1)..s, frames[i].module = stack[k] PROVE FALSE
      BY <1>3
    <3>1. dfsIndex[m] \in Nat /\ dfsIndex[frames[i].module] \in Nat
      BY <1>1, <2>1 DEF IInv, SearchTypes
    <3> QED
      BY <1>3, <2>2, <3>1
  <2> QED
    BY <1>9, <2>1, <2>3, <2>4
<1>11. outer = <<>> => n = 1 /\ q = 0
  <2> SUFFICES ASSUME outer = <<>> PROVE n = 1 /\ q = 0
    OBVIOUS
  <2>1. n = 1
    <3>1. Len(outer) = 0
      OBVIOUS
    <3> QED
      BY <1>1, <1>4, <3>1
  <2>2. frames # <<>>
    BY DEF IInv, Indexed
  <2>3. dfsIndex[m] = 0
    BY <1>1, <2>1, <2>2 DEF IInv, Indexed
  <2> QED
    BY <1>3, <2>1, <2>3
<1>12. outer # <<>> =>
         /\ n >= 2
         /\ frames' \in Seq(Frames) /\ frames' # <<>> /\ DOMAIN frames' = 1..(n - 1)
         /\ \A i \in 1..(n - 1) : frames'[i].module = frames[i].module
  <2> SUFFICES ASSUME outer # <<>>
               PROVE  /\ n >= 2
                      /\ frames' \in Seq(Frames) /\ frames' # <<>> /\ DOMAIN frames' = 1..(n - 1)
                      /\ \A i \in 1..(n - 1) : frames'[i].module = frames[i].module
    OBVIOUS
  <2>1. n - 1 # 0
    BY <1>4, EmptySeq
  <2>2. frames' = NextRequest(outer)
    BY <1>5
  <2>3. /\ NextRequest(outer) \in Seq(Frames) /\ NextRequest(outer) # <<>>
        /\ DOMAIN NextRequest(outer) = 1..(n - 1)
        /\ \A i \in 1..(n - 1) : NextRequest(outer)[i].module = outer[i].module
    BY <1>4, NextRequestKeeps
  <2> QED
    BY <1>1, <1>4, <2>1, <2>2, <2>3
<1>13. /\ dfsAncestorIndex' \in [Modules -> Nat]
       /\ \A k \in Modules : dfsAncestorIndex'[k] <= dfsAncestorIndex[k]
  <2>1. CASE outer = <<>>
    BY <1>5, <2>1 DEF IInv, SearchTypes
  <2>2. CASE outer # <<>>
    <3>1. Last(outer) = outer[n - 1] /\ n - 1 \in 1..(n - 1)
      BY <1>1, <1>4, <1>12, <2>2 DEF Last
    <3>2. Last(outer).module \in Modules
      BY <1>4, <1>10, <3>1
    <3> QED
      BY <1>1, <1>5, <2>2, <3>2, AbsorbLowers DEF IInv, SearchTypes
  <2> QED
    BY <2>1, <2>2
<1>14. done \in Statuses /\ done \notin InProgress
  BY StatusesDiffer DEF Statuses, InProgress, LINKED, EVALUATED, LINKING, EVALUATING
<1>15. SearchTypes'
  <2>1. status' \in [Modules -> Statuses]
    BY <1>5, <1>14 DEF IInv, SearchTypes
  <2>2. frames' \in Seq(Frames) /\ index' \in Nat /\ call' \in Calls
    <3>1. CASE outer = <<>>
      BY <1>5, <3>1 DEF Calls
    <3>2. CASE outer # <<>>
      BY <1>5, <1>12, <3>2 DEF IInv, SearchTypes
    <3> QED
      BY <3>1, <3>2
  <2> QED
    BY <1>5, <1>6, <1>13, <2>1, <2>2 DEF IInv, SearchTypes
<1>16. InProgressIsStack'
  <2>1. {k \in Modules : status'[k] \in {LINKING, EVALUATING}} = ToSet(stack')
    BY <1>5, <1>9, <1>14 DEF IInv, InProgressIsStack, InProgress
  <2>2. ASSUME NEW i \in 1..q
        PROVE  /\ status'[stack'[i]] = IF call'.op = "link" THEN LINKING ELSE EVALUATING
               /\ dfsAncestorIndex'[stack'[i]] <= dfsIndex'[stack'[i]]
               /\ \A j \in 1..(i - 1) : dfsIndex'[stack'[j]] < dfsIndex'[stack'[i]]
    <3>1. i \in 1..s /\ stack'[i] = stack[i] /\ stack[i] \in Modules /\ stack[i] \notin component
      BY <1>2, <1>6, <1>8
    <3>2. call' = call
      BY <1>5, <1>11
    <3>3. status'[stack[i]] = IF call.op = "link" THEN LINKING ELSE EVALUATING
      BY <1>2, <1>5, <3>1 DEF IInv, InProgressIsStack
    <3>4. dfsAncestorIndex'[stack[i]] <= dfsIndex[stack[i]]
      <4>1. dfsAncestorIndex[stack[i]] <= dfsIndex[stack[i]]
        BY <1>2, <3>1 DEF IInv, InProgressIsStack
      <4> QED
        BY <1>13, <3>1, <4>1 DEF IInv, SearchTypes
    <3>5. \A j \in 1..(i - 1) : dfsIndex[stack'[j]] < dfsIndex[stack[i]]
      <4> TAKE j \in 1..(i - 1)
      <4>1. j \in 1..q
        OBVIOUS
      <4> QED
        BY <1>6, <1>7, <3>1, <4>1
    <3> QED
      BY <1>5, <3>1, <3>2, <3>3, <3>4, <3>5
  <2>3. {frames'[i].module : i \in DOMAIN frames'} \subseteq ToSet(stack')
    <3>1. CASE outer = <<>>
      BY <1>5, <3>1
    <3>2. CASE outer # <<>>
      BY <1>10, <1>12, <3>2
    <3> QED
      BY <3>1, <3>2
  <2>4. call' = Idle => stack' = <<>>
    BY <1>5, <1>6, <1>11
  <2> QED
    BY <1>6, <2>1, <2>2, <2>3, <2>4 DEF InProgressIsStack
<1>17. Indexed'
  <2>1. CASE outer = <<>>
    BY <1>5, <1>6, <1>11, <2>1 DEF Indexed
  <2>2. CASE outer # <<>>
    <3>1. ASSUME NEW i \in 1..q PROVE dfsIndex'[stack'[i]] < index'
      <4>1. i \in 1..s /\ stack'[i] = stack[i]
        BY <1>6
      <4>2. dfsIndex[stack[i]] < index
        BY <1>2, <4>1 DEF IInv, Indexed
      <4> QED
        BY <1>5, <2>2, <4>1, <4>2
    <3>2. ASSUME NEW i \in 1..(n - 1), NEW j \in 1..(i - 1)
          PROVE  dfsIndex'[frames'[j].module] < dfsIndex'[frames'[i].module]
      <4>1. i \in 1..n /\ j \in 1..(n - 1)
        BY <1>1
      <4>2. dfsIndex[frames[j].module] < dfsIndex[frames[i].module]
        BY <1>1, <4>1 DEF IInv, Indexed
      <4> QED
        BY <1>5, <1>12, <2>2, <4>1, <4>2
    <3>3. dfsIndex'[frames'[1].module] = 0
      <4>1. 1 \in 1..(n - 1) /\ frames # <<>>
        BY <1>1, <1>12, <2>2 DEF IInv, Indexed
      <4> QED
        BY <1>5, <1>12, <2>2, <4>1 DEF IInv, Indexed
    <3>4. call' # Idle /\ frames' # <<>>
      BY <1>5, <1>12, <2>2
    <3> QED
      BY <1>6, <1>12, <2>2, <3>1, <3>2, <3>3, <3>4 DEF Indexed
  <2> QED
    BY <2>1, <2>2
<1> QED
  BY <1>15, <1>16, <1>17 DEF IInv

-----------------------------------------------------------------------------
(* The actions.                                                            *)

\* What leaves the search alone.
LEMMA QuietIInv ==
  ASSUME IInv,
         UNCHANGED <<records, status, dfsIndex, dfsAncestorIndex, call, frames, stack, index>>
  PROVE  IInv'
<1>1. SearchTypes'
  BY DEF IInv, SearchTypes
<1>2. InProgressIsStack'
  BY DEF IInv, InProgressIsStack
<1>3. Indexed'
  BY DEF IInv, Indexed
<1> QED
  BY <1>1, <1>2, <1>3 DEF IInv

\* A failed link resets every module in the search.
LEMMA FailLinkIInv ==
  ASSUME IInv, call.op = "link", NEW error, FailLink(error), UNCHANGED records
  PROVE  IInv'
<1>1. \A m \in Modules : status[m] \in InProgress => m \in ToSet(stack) /\ status[m] = LINKING
  <2> TAKE m \in Modules
  <2> HAVE status[m] \in InProgress
  <2>1. m \in ToSet(stack)
    BY DEF IInv, InProgressIsStack, InProgress
  <2> QED
    BY <2>1 DEF IInv, InProgressIsStack, ToSet
<1> DEFINE reset == {m \in ToSet(stack) : status[m] = LINKING}
<1>2. /\ status' = [m \in Modules |-> IF m \in reset THEN UNLINKED ELSE status[m]]
      /\ dfsIndex' = [m \in Modules |-> IF m \in reset THEN Undefined ELSE dfsIndex[m]]
      /\ dfsAncestorIndex' =
           [m \in Modules |-> IF m \in reset THEN Undefined ELSE dfsAncestorIndex[m]]
      /\ Unwind(Thrown(error))
  BY DEF FailLink
<1>3. UNLINKED \in Statuses /\ UNLINKED \notin InProgress /\ Undefined \in Nat
  BY DEF Statuses, InProgress, UNLINKED, LINKING, EVALUATING, Undefined
<1>4. status' \in [Modules -> Statuses] /\ \A m \in Modules : status'[m] \notin InProgress
  BY <1>1, <1>2, <1>3 DEF IInv, SearchTypes
<1>5. dfsIndex' \in [Modules -> Nat] /\ dfsAncestorIndex' \in [Modules -> Nat]
  BY <1>2, <1>3 DEF IInv, SearchTypes
<1> QED
  BY <1>2, <1>4, <1>5, UnwindIInv

\* A failed evaluation records the error for every module in the search.
LEMMA FailEvaluateIInv ==
  ASSUME IInv, call # Idle, call.op = "evaluate", NEW error, FailEvaluate(error),
         UNCHANGED records
  PROVE  IInv'
<1>1. \A m \in Modules : status[m] \in InProgress =>
        m \in ToSet(stack) /\ status[m] # EVALUATED_ERROR
  BY StatusesDiffer DEF IInv, InProgressIsStack, InProgress
<1> DEFINE failed == {m \in ToSet(stack) : status[m] # EVALUATED_ERROR}
<1>2. /\ status' = [m \in Modules |-> IF m \in failed THEN EVALUATED_ERROR ELSE status[m]]
      /\ dfsIndex' = dfsIndex /\ dfsAncestorIndex' = dfsAncestorIndex
      /\ Unwind(error)
  BY DEF FailEvaluate
<1>3. EVALUATED_ERROR \in Statuses /\ EVALUATED_ERROR \notin InProgress
  BY StatusesDiffer DEF Statuses, InProgress
<1>4. status' \in [Modules -> Statuses] /\ \A m \in Modules : status'[m] \notin InProgress
  BY <1>1, <1>2, <1>3 DEF IInv, SearchTypes
<1> QED
  BY <1>2, <1>4, UnwindIInv DEF IInv, SearchTypes

LEMMA NextIInv == IInv /\ [Next]_vars => IInv'
<1> SUFFICES ASSUME IInv, [Next]_vars PROVE IInv'
  OBVIOUS
<1>1. ASSUME NEW m \in Modules, Load(m) PROVE IInv'
  BY <1>1, QuietIInv DEF Load
<1>2. ASSUME NEW m \in Modules, ModuleInstantiate(m) PROVE IInv'
  <2>1. UNCHANGED records /\ call = Idle
    BY <1>2 DEF ModuleInstantiate, tables
  <2>2. CASE status[m] = UNLINKED /\ call' = [op |-> "link", module |-> m] /\ Enter(m, LINKING)
    <3>1. status[m] \notin InProgress
      BY <2>2, StatusesDiffer DEF InProgress
    <3>2. call' \in Calls \ {Idle} /\ call'.op = "link"
      BY <2>2 DEF Calls, Idle
    <3> QED
      BY <2>1, <2>2, <3>1, <3>2, EnterIInv
  <2>3. CASE UNCHANGED <<status, dfsIndex, dfsAncestorIndex, search>>
    BY <2>1, <2>3, QuietIInv DEF search
  <2> QED
    BY <1>2, <2>2, <2>3 DEF ModuleInstantiate
<1>3. ASSUME NEW m \in Modules, ModuleEvaluate(m) PROVE IInv'
  <2>1. UNCHANGED records /\ call = Idle
    BY <1>3 DEF ModuleEvaluate, tables
  <2>2. CASE status[m] = LINKED /\ call' = [op |-> "evaluate", module |-> m]
             /\ Enter(m, EVALUATING)
    <3>1. status[m] \notin InProgress
      BY <2>2, StatusesDiffer DEF InProgress
    <3>2. call' \in Calls \ {Idle} /\ call'.op # "link"
      BY <2>2 DEF Calls, Idle
    <3> QED
      BY <2>1, <2>2, <3>1, <3>2, EnterIInv
  <2>3. CASE UNCHANGED <<status, dfsIndex, dfsAncestorIndex, search>>
    BY <2>1, <2>3, QuietIInv DEF search
  <2> QED
    BY <1>3, <2>2, <2>3 DEF ModuleEvaluate
<1>4. CASE LinkRequest
  <2>1. call # Idle /\ call.op = "link" /\ HasRequest /\ UNCHANGED records
    BY <1>4 DEF LinkRequest, Idle, tables
  <2>2. Requested \in Modules
    BY <2>1, RequestedIsModule
  <2>3. ASSUME NEW error, FailLink(error) PROVE IInv'
    BY <2>1, <2>3, FailLinkIInv
  <2>4. CASE status[Requested] = UNLINKED /\ Enter(Requested, LINKING) /\ UNCHANGED call
    <3>1. status[Requested] \notin InProgress
      BY <2>4, StatusesDiffer DEF InProgress
    <3>2. call' \in Calls \ {Idle} /\ call'.op = "link" /\ call' = call
      BY <2>1, <2>4 DEF IInv, SearchTypes
    <3> QED
      BY <2>1, <2>2, <2>4, <3>1, <3>2, EnterIInv
  <2>5. CASE Meet(Requested, LINKING) /\ UNCHANGED call
    BY <2>1, <2>2, <2>5, MeetIInv
  <2> QED
    BY <1>4, <2>3, <2>4, <2>5 DEF LinkRequest
<1>5. CASE LinkFinish
  <2>1. call # Idle /\ call.op = "link" /\ UNCHANGED records
    BY <1>5 DEF LinkFinish, Idle, tables
  <2>2. ASSUME NEW error, FailLink(error) PROVE IInv'
    BY <2>1, <2>2, FailLinkIInv
  <2>3. CASE Complete(Top.module, LINKED)
    BY <2>1, <2>3, CompleteIInv
  <2> QED
    BY <1>5, <2>2, <2>3 DEF LinkFinish
<1>6. CASE EvaluateRequest
  <2>1. call # Idle /\ call.op = "evaluate" /\ HasRequest /\ UNCHANGED records
    BY <1>6 DEF EvaluateRequest, Idle, tables
  <2>2. Requested \in Modules
    BY <2>1, RequestedIsModule
  <2>3. ASSUME NEW error, FailEvaluate(error) PROVE IInv'
    BY <2>1, <2>3, FailEvaluateIInv
  <2>4. CASE status[Requested] = LINKED /\ Enter(Requested, EVALUATING) /\ UNCHANGED call
    <3>1. status[Requested] \notin InProgress
      BY <2>4, StatusesDiffer DEF InProgress
    <3>2. call' \in Calls \ {Idle} /\ call'.op # "link" /\ call' = call
      BY <2>1, <2>4 DEF IInv, SearchTypes
    <3> QED
      BY <2>1, <2>2, <2>4, <3>1, <3>2, EnterIInv
  <2>5. CASE Meet(Requested, EVALUATING) /\ UNCHANGED call
    BY <2>1, <2>2, <2>5, MeetIInv
  <2> QED
    BY <1>6, <2>3, <2>4, <2>5 DEF EvaluateRequest
<1>7. CASE EvaluateFinish
  <2>1. call # Idle /\ call.op = "evaluate" /\ UNCHANGED records
    BY <1>7 DEF EvaluateFinish, Idle, tables
  <2>2. ASSUME NEW error, FailEvaluate(error) PROVE IInv'
    BY <2>1, <2>2, FailEvaluateIInv
  <2>3. CASE Complete(Top.module, EVALUATED)
    BY <2>1, <2>3, CompleteIInv
  <2> QED
    BY <1>7, <2>2, <2>3 DEF EvaluateFinish
<1>8. CASE UNCHANGED vars
  BY <1>8, QuietIInv DEF vars
<1> QED
  BY <1>1, <1>2, <1>3, <1>4, <1>5, <1>6, <1>7, <1>8 DEF Next

LEMMA InitIInv == Init => IInv
<1> SUFFICES ASSUME Init PROVE IInv
  OBVIOUS
<1>1. frames = <<>> /\ stack = <<>> /\ index = 0 /\ call = Idle
  BY DEF Init
<1>2. SearchTypes
  <2>1. records \in [Modules -> Records]
    BY GraphsAssumption DEF Init
  <2>2. UNLINKED \in Statuses /\ Undefined \in Nat
    BY DEF Statuses, Undefined
  <2> QED
    BY <1>1, <2>1, <2>2 DEF Init, SearchTypes, Calls
<1>3. ToSet(stack) = {} /\ DOMAIN stack = {} /\ DOMAIN frames = {}
  BY <1>1 DEF ToSet
<1>4. InProgressIsStack
  BY <1>1, <1>3, StatusesDiffer DEF Init, InProgressIsStack
<1>5. Indexed
  BY <1>1, <1>3 DEF Indexed
<1> QED
  BY <1>2, <1>4, <1>5 DEF IInv

\* The invariant holds in every reachable state.
LEMMA Invariant == Spec => []IInv
BY InitIInv, NextIInv, PTL DEF Spec

-----------------------------------------------------------------------------
\* The assertions of InnerModuleLinking() and InnerModuleEvaluation() hold for
\* every graph of modules: what is in progress is what is on the stack, in the
\* order of the indices, and when a call is over, however it ended, nothing is.
THEOREM SearchIsExact == Spec => []InProgressIsStack
<1>1. IInv => InProgressIsStack
  BY DEF IInv
<1> QED
  BY <1>1, Invariant, PTL

-----------------------------------------------------------------------------
(***************************************************************************)
(* What the search finds: Tarjan's argument, for modules that may be done  *)
(* before it starts and for searches that are given up half way.           *)
(***************************************************************************)

\* y can be reached from x in some number of requests.
Leads(x, y) == y = x \/ y \in ReachableFrom(x)

\* The requests of a module that the search has been through.
Handled(m) ==
  {Requests(m)[k] : k \in {k \in DOMAIN Requests(m) :
     \A i \in DOMAIN frames : frames[i].module = m => k < frames[i].next}}

\* A module the running call has nothing more to do with.
Settled(m) ==
  IF call.op = "evaluate" THEN status[m] = EVALUATED ELSE status[m] >= LINKED

\* Each activation was called for the request its caller is at.
CalledFor ==
  /\ call # Idle => frames[1].module = call.module
  /\ \A i \in DOMAIN frames : i + 1 \in DOMAIN frames =>
       /\ frames[i].next \in DOMAIN Requests(frames[i].module)
       /\ frames[i + 1].module = Requests(frames[i].module)[frames[i].next]

\* A module on the stack leads to all that are above it, and to an activation
\* that is not.
Connected ==
  /\ \A x, y \in ToSet(stack) : dfsIndex[x] <= dfsIndex[y] => Leads(x, y)
  /\ \A y \in ToSet(stack) : \E i \in DOMAIN frames :
       dfsIndex[frames[i].module] <= dfsIndex[y] /\ Leads(y, frames[i].module)

\* An ancestor index is that of a module on the stack, which can be reached.
AncestorReached ==
  \A x \in ToSet(stack) : \E z \in ToSet(stack) :
    dfsIndex[z] = dfsAncestorIndex[x] /\ Leads(x, z)

\* What a module on the stack has requested is settled or on the stack too, and
\* an activation between the two knows of it.
RequestsKnown ==
  \A y \in ToSet(stack) : \A z \in Handled(y) :
    \/ Settled(z)
    \/ /\ z \in ToSet(stack)
       /\ \A i \in DOMAIN frames : dfsIndex[frames[i].module] <= dfsIndex[y] =>
            \E j \in DOMAIN frames :
              /\ i <= j
              /\ dfsIndex[frames[j].module] <= dfsIndex[y]
              /\ dfsAncestorIndex[frames[j].module] <= dfsIndex[z]

\* What is linked or evaluated has requested only what is.
SettledIsClosed ==
  \A m \in Modules : \A k \in ToSet(Requests(m)) :
    /\ status[m] >= LINKED => status[k] >= LINKED
    /\ status[m] = EVALUATED => status[k] = EVALUATED

MetIsLoaded == \A m \in Modules : status[m] # UNLINKED => m \in loaded

SearchInv ==
  /\ CalledFor /\ Connected /\ AncestorReached /\ RequestsKnown /\ SettledIsClosed
  /\ MetIsLoaded

-----------------------------------------------------------------------------
(* Lemmas about what is reached.                                           *)

\* Closure() is the least set that holds S and every step from its members.
LEMMA ClosureIsLeast ==
  ASSUME NEW D, NEW step \in [D -> SUBSET D], NEW S \in SUBSET D
  PROVE  /\ Closure(step, S) \subseteq D /\ S \subseteq Closure(step, S)
         /\ \A x \in Closure(step, S) : step[x] \subseteq Closure(step, S)
         /\ \A T \in SUBSET D : (S \subseteq T /\ \A x \in T : step[x] \subseteq T)
              => Closure(step, S) \subseteq T
<1> DEFINE closed == {T \in SUBSET DOMAIN step :
                        S \subseteq T /\ \A x \in T : step[x] \subseteq T}
<1>1. Closure(step, S) = {x \in D : \A T \in closed : x \in T}
  BY DEF Closure
<1>2. ASSUME NEW x \in D, \A T \in closed : x \in T, NEW y \in step[x], NEW T \in closed
      PROVE  y \in T
  BY <1>2
<1>3. \A x \in D : step[x] \subseteq D
  OBVIOUS
<1> QED
  BY <1>1, <1>2, <1>3

\* Requests are modules, and what they lead to is reached; a set of modules that
\* holds the requests of its members holds all they reach.
LEMMA Reaching ==
  ASSUME records \in [Modules -> Records]
  PROVE  /\ \A m \in Modules : /\ Requests(m) \in Seq(Modules)
                                /\ ToSet(Requests(m)) \subseteq ReachableFrom(m)
                                /\ ReachableFrom(m) \subseteq Modules
         /\ \A m \in Modules : \A x \in ReachableFrom(m) :
              ReachableFrom(x) \subseteq ReachableFrom(m)
         /\ \A T \in SUBSET Modules : (\A x \in T : ToSet(Requests(x)) \subseteq T)
              => \A x \in T : ReachableFrom(x) \subseteq T
<1> DEFINE step == [k \in Modules |-> ToSet(Requests(k))]
<1>1. \A m \in Modules : Requests(m) \in Seq(Modules) /\ ToSet(Requests(m)) \in SUBSET Modules
  BY ElementOfSeq DEF Requests, Records, ToSet
<1>2. step \in [Modules -> SUBSET Modules]
  BY <1>1
<1>3. \A m \in Modules : step[m] = ToSet(Requests(m)) /\ ReachableFrom(m) = Closure(step, step[m])
  BY DEF ReachableFrom
<1> HIDE DEF step
<1>4. ASSUME NEW m \in Modules
      PROVE  /\ ReachableFrom(m) \subseteq Modules /\ step[m] \subseteq ReachableFrom(m)
             /\ \A x \in ReachableFrom(m) : step[x] \subseteq ReachableFrom(m)
             /\ \A T \in SUBSET Modules : (step[m] \subseteq T /\ \A x \in T : step[x] \subseteq T)
                  => ReachableFrom(m) \subseteq T
  <2>1. step[m] \in SUBSET Modules
    BY <1>2
  <2> QED
    BY <1>2, <1>3, <2>1, ClosureIsLeast
<1>5. ASSUME NEW m \in Modules, NEW x \in ReachableFrom(m)
      PROVE  ReachableFrom(x) \subseteq ReachableFrom(m)
  BY <1>4
<1>6. ASSUME NEW T \in SUBSET Modules, \A x \in T : ToSet(Requests(x)) \subseteq T, NEW x \in T
      PROVE  ReachableFrom(x) \subseteq T
  BY <1>3, <1>4, <1>6
<1> QED
  BY <1>1, <1>3, <1>4, <1>5, <1>6

\* A module leads to itself, to its requests and to all that they lead to.
LEMMA Leading ==
  ASSUME records \in [Modules -> Records]
  PROVE  /\ \A x \in Modules : Leads(x, x)
         /\ \A x \in Modules : \A y \in ToSet(Requests(x)) : y \in Modules /\ Leads(x, y)
         /\ \A x, y, z \in Modules : Leads(x, y) /\ Leads(y, z) => Leads(x, z)
BY Reaching DEF Leads

\* The requests never change.
LEMMA SameRequests ==
  ASSUME UNCHANGED records
  PROVE  /\ \A m : Requests(m)' = Requests(m) /\ ReachableFrom(m)' = ReachableFrom(m)
         /\ \A x, y : Leads(x, y)' <=> Leads(x, y)
<1>1. \A m : Requests(m)' = Requests(m)
  BY DEF Requests
<1>2. \A m : ReachableFrom(m)' = ReachableFrom(m)
  BY DEF ReachableFrom, Requests
<1> QED
  BY <1>1, <1>2 DEF Leads

-----------------------------------------------------------------------------
(* Lemmas about the search.                                                *)

\* Indices tell the modules on the stack and the activations apart.
LEMMA SearchFacts ==
  ASSUME IInv
  PROVE  /\ Len(frames) \in Nat /\ DOMAIN frames = 1..Len(frames)
         /\ \A i \in DOMAIN frames : /\ frames[i] \in Frames
                                     /\ frames[i].module \in ToSet(stack)
         /\ \A i, j \in DOMAIN frames : i < j =>
              dfsIndex[frames[i].module] < dfsIndex[frames[j].module]
         /\ \A i, j \in DOMAIN frames : frames[i].module = frames[j].module => i = j
         /\ \A x \in ToSet(stack) :
              /\ x \in Modules /\ dfsIndex[x] \in Nat /\ dfsAncestorIndex[x] \in Nat
              /\ dfsAncestorIndex[x] <= dfsIndex[x] /\ dfsIndex[x] < index
              /\ status[x] = IF call.op = "link" THEN LINKING ELSE EVALUATING
         /\ \A x, y \in ToSet(stack) : dfsIndex[x] = dfsIndex[y] => x = y
<1>1. Len(frames) \in Nat /\ DOMAIN frames = 1..Len(frames)
  BY DEF IInv, SearchTypes
<1>2. \A i \in DOMAIN frames : frames[i] \in Frames
  BY <1>1, ElementOfSeq DEF IInv, SearchTypes
<1>3. \A i \in DOMAIN frames : frames[i].module \in ToSet(stack)
  BY DEF IInv, InProgressIsStack
<1>4. /\ Len(stack) \in Nat /\ DOMAIN stack = 1..Len(stack)
      /\ \A i \in DOMAIN stack : stack[i] \in Modules
      /\ ToSet(stack) = {stack[i] : i \in DOMAIN stack}
  BY ElementOfSeq DEF IInv, SearchTypes, ToSet
<1>5. \A x \in ToSet(stack) :
        /\ x \in Modules /\ dfsIndex[x] \in Nat /\ dfsAncestorIndex[x] \in Nat
        /\ dfsAncestorIndex[x] <= dfsIndex[x] /\ dfsIndex[x] < index
        /\ status[x] = IF call.op = "link" THEN LINKING ELSE EVALUATING
  BY <1>4 DEF IInv, SearchTypes, InProgressIsStack, Indexed
<1>6. ASSUME NEW i \in DOMAIN frames, NEW j \in DOMAIN frames, i < j
      PROVE  dfsIndex[frames[i].module] < dfsIndex[frames[j].module]
  <2>1. i \in 1..(j - 1)
    BY <1>1, <1>6
  <2> QED
    BY <2>1 DEF IInv, Indexed
<1>7. ASSUME NEW i \in DOMAIN frames, NEW j \in DOMAIN frames,
             frames[i].module = frames[j].module
      PROVE  i = j
  <2>1. dfsIndex[frames[i].module] \in Nat
    BY <1>3, <1>5
  <2>2. ~(i < j) /\ ~(j < i)
    BY <1>6, <1>7, <2>1
  <2> QED
    BY <1>1, <2>2
<1>8. ASSUME NEW i \in DOMAIN stack, NEW j \in DOMAIN stack, dfsIndex[stack[i]] = dfsIndex[stack[j]]
      PROVE  stack[i] = stack[j]
  <2>1. \A k \in 1..(i - 1) : dfsIndex[stack[k]] < dfsIndex[stack[i]]
    BY DEF IInv, InProgressIsStack
  <2>2. \A k \in 1..(j - 1) : dfsIndex[stack[k]] < dfsIndex[stack[j]]
    BY DEF IInv, InProgressIsStack
  <2>3. dfsIndex[stack[i]] \in Nat /\ dfsIndex[stack[j]] \in Nat
    BY <1>4, <1>5
  <2>4. j \notin 1..(i - 1) /\ i \notin 1..(j - 1)
    BY <1>8, <2>1, <2>2, <2>3
  <2>5. i = j
    BY <1>4, <2>4
  <2> QED
    BY <2>5
<1>9. \A x, y \in ToSet(stack) : dfsIndex[x] = dfsIndex[y] => x = y
  BY <1>4, <1>8
<1> QED
  BY <1>1, <1>2, <1>3, <1>5, <1>6, <1>7, <1>9

\* Every module on the stack leads to the innermost activation.
LEMMA AllLeadToTop ==
  ASSUME IInv, Connected, call # Idle
  PROVE  \A x \in ToSet(stack) : Leads(x, Top.module)
<1>1. TAKE x \in ToSet(stack)
<1>2. PICK i \in DOMAIN frames :
        dfsIndex[frames[i].module] <= dfsIndex[x] /\ Leads(x, frames[i].module)
  BY DEF Connected
<1>3. /\ Len(frames) \in DOMAIN frames /\ Top = frames[Len(frames)]
      /\ Top.module \in ToSet(stack) /\ frames[i].module \in ToSet(stack)
  BY TopOnStack, SearchFacts
<1>4. dfsIndex[frames[i].module] <= dfsIndex[Top.module]
  <2>1. i = Len(frames) \/ i < Len(frames)
    BY SearchFacts
  <2> QED
    BY <1>3, <2>1, SearchFacts
<1>5. Leads(frames[i].module, Top.module)
  BY <1>3, <1>4 DEF Connected
<1>6. x \in Modules /\ frames[i].module \in Modules /\ Top.module \in Modules
  BY <1>3, SearchFacts
<1> QED
  BY <1>2, <1>5, <1>6, Leading DEF IInv, SearchTypes

\* The requests that have been handled are requests, and all of them once the
\* last has returned.
LEMMA HandledRequests ==
  ASSUME IInv
  PROVE  /\ \A m \in Modules : Handled(m) \subseteq ToSet(Requests(m))
         /\ \A m \in Modules : (\A i \in DOMAIN frames : frames[i].module # m)
              => Handled(m) = ToSet(Requests(m))
         /\ (call # Idle /\ ~HasRequest) => Handled(Top.module) = ToSet(Requests(Top.module))
<1>1. \A m \in Modules : /\ Len(Requests(m)) \in Nat
                         /\ DOMAIN Requests(m) = 1..Len(Requests(m))
                         /\ ToSet(Requests(m)) = {Requests(m)[k] : k \in DOMAIN Requests(m)}
  BY Reaching DEF IInv, SearchTypes, ToSet
<1>2. ASSUME NEW m \in Modules PROVE Handled(m) \subseteq ToSet(Requests(m))
  BY <1>1 DEF Handled
<1>3. ASSUME NEW m \in Modules, \A i \in DOMAIN frames : frames[i].module # m
      PROVE  Handled(m) = ToSet(Requests(m))
  BY <1>1, <1>3 DEF Handled
<1>4. ASSUME call # Idle, ~HasRequest PROVE Handled(Top.module) = ToSet(Requests(Top.module))
  <2> DEFINE n == Len(frames)
             m == Top.module
  <2>1. n \in DOMAIN frames /\ Top = frames[n] /\ frames[n] \in Frames /\ m \in Modules
    BY <1>4, TopOnStack
  <2>2. frames[n].next \in Nat /\ ~(frames[n].next <= Len(Requests(m)))
    BY <1>4, <2>1 DEF HasRequest, Frames
  <2>3. \A i \in DOMAIN frames : frames[i].module = m => i = n
    BY <2>1, SearchFacts
  <2> HIDE DEF n, m
  <2>4. \A k \in DOMAIN Requests(m) : \A i \in DOMAIN frames :
          frames[i].module = m => k < frames[i].next
    BY <1>1, <2>1, <2>2, <2>3 DEF m
  <2>5. Handled(m) = ToSet(Requests(m))
    BY <1>1, <2>1, <2>4 DEF Handled, m
  <2> QED
    BY <2>5 DEF m
<1> QED
  BY <1>2, <1>3, <1>4

\* The module requested next is one of the requests.
LEMMA RequestedIsRequest ==
  ASSUME IInv, call # Idle, HasRequest
  PROVE  Requested \in ToSet(Requests(Top.module)) /\ Leads(Top.module, Requested)
<1>1. Top.module \in Modules /\ Top.next \in Nat \ {0}
  BY TopOnStack DEF Frames
<1>2. Requests(Top.module) \in Seq(Modules)
  BY <1>1, Reaching DEF IInv, SearchTypes
<1>3. Top.next \in DOMAIN Requests(Top.module)
  BY <1>1, <1>2 DEF HasRequest
<1>4. Requested \in ToSet(Requests(Top.module))
  BY <1>3 DEF Requested, ToSet
<1> QED
  BY <1>1, <1>4, Leading DEF IInv, SearchTypes

-----------------------------------------------------------------------------
(* One lemma for each way the search goes on.                              *)

\* The numbers behind the names of the slots.
LEMMA StatusOrder ==
  /\ ~(UNLINKED >= LINKED) /\ ~(LINKING >= LINKED) /\ LINKED >= LINKED
  /\ EVALUATING >= LINKED /\ EVALUATED >= LINKED /\ EVALUATED_ERROR >= LINKED
  /\ UNLINKED # LINKING /\ UNLINKED # EVALUATED /\ LINKED # EVALUATED /\ LINKED # UNLINKED
  /\ EVALUATED_ERROR # EVALUATED /\ EVALUATED_ERROR # UNLINKED /\ EVALUATED # UNLINKED
  /\ EVALUATED_ERROR # LINKED
BY DEF UNLINKED, LINKING, LINKED, EVALUATING, EVALUATED, EVALUATED_ERROR

\* A module enters the search.
LEMMA EnterSearch ==
  ASSUME IInv, SearchInv, NEW m \in Modules, m \in loaded,
         call' \in Calls \ {Idle}, UNCHANGED tables,
         call # Idle => call' = call /\ HasRequest /\ m = Requested,
         call = Idle => call'.module = m,
         status[m] = IF call'.op = "link" THEN UNLINKED ELSE LINKED,
         Enter(m, IF call'.op = "link" THEN LINKING ELSE EVALUATING)
  PROVE  SearchInv'
<1> DEFINE n == Len(frames)
           inProgress == IF call'.op = "link" THEN LINKING ELSE EVALUATING
           Stack == ToSet(stack)
<1>1. status[m] \notin InProgress /\ m \notin Stack
  <2>1. status[m] \notin InProgress
    BY StatusesDiffer DEF InProgress
  <2> QED
    BY <2>1 DEF IInv, InProgressIsStack, InProgress
<1>2. ToSet(stack') = Stack \cup {m}
  <2>1. stack \in Seq(Modules) /\ stack' = Append(stack, m)
    BY DEF IInv, SearchTypes, Enter
  <2>2. Len(stack) \in Nat /\ DOMAIN stack = 1..Len(stack) /\ DOMAIN stack' = 1..(Len(stack) + 1)
        /\ stack'[Len(stack) + 1] = m /\ \A i \in 1..Len(stack) : stack'[i] = stack[i]
    BY <2>1
  <2> QED
    BY <2>2 DEF ToSet
<1>3. /\ status' = [status EXCEPT ![m] = inProgress]
      /\ dfsIndex' = [dfsIndex EXCEPT ![m] = index]
      /\ dfsAncestorIndex' = [dfsAncestorIndex EXCEPT ![m] = index]
      /\ frames' = Append(frames, [module |-> m, next |-> 1])
      /\ UNCHANGED <<records, loaded>>
  BY DEF Enter, tables
<1>4. /\ n \in Nat /\ DOMAIN frames = 1..n /\ DOMAIN frames' = 1..(n + 1)
      /\ \A i \in 1..n : frames'[i] = frames[i] /\ frames[i].module \in Stack /\ frames[i].module # m
      /\ frames'[n + 1] = [module |-> m, next |-> 1]
  <2>1. frames \in Seq(Frames) /\ [module |-> m, next |-> 1] \in Frames
    BY DEF IInv, SearchTypes, Frames
  <2>2. \A i \in DOMAIN frames : frames[i].module \in Stack
    BY SearchFacts
  <2> QED
    BY <1>1, <1>3, <2>1, <2>2
<1>5. \A x \in Stack : /\ x \in Modules /\ x # m /\ dfsIndex'[x] = dfsIndex[x]
                       /\ dfsAncestorIndex'[x] = dfsAncestorIndex[x]
                       /\ dfsIndex[x] < index /\ dfsIndex[x] \in Nat
                       /\ dfsAncestorIndex[x] \in Nat
  BY <1>1, <1>3, SearchFacts DEF IInv, SearchTypes
<1>6. dfsIndex'[m] = index /\ dfsAncestorIndex'[m] = index /\ index \in Nat
  BY <1>3 DEF IInv, SearchTypes
<1>7. /\ \A k : Requests(k)' = Requests(k)
      /\ \A x, y : Leads(x, y)' <=> Leads(x, y)
      /\ \A x \in Modules : Leads(x, x)
      /\ \A x, y, z \in Modules : Leads(x, y) /\ Leads(y, z) => Leads(x, z)
  BY <1>3, SameRequests, Leading DEF IInv, SearchTypes
<1>8. ASSUME call = Idle
      PROVE CalledFor' /\ Connected' /\ AncestorReached' /\ RequestsKnown'
  <2>1. n = 0 /\ Stack = {}
    BY <1>8 DEF IInv, Indexed, InProgressIsStack, ToSet
  <2> HIDE DEF n, Stack
  <2>2. CalledFor'
    BY <1>4, <1>8, <2>1 DEF CalledFor
  <2>3. Connected' /\ AncestorReached'
    BY <1>2, <1>4, <1>6, <1>7, <2>1 DEF Connected, AncestorReached
  <2>4. Handled(m)' = {}
    <3>1. \A k \in DOMAIN Requests(m) : ~(k < 1)
      BY Reaching DEF IInv, SearchTypes
    <3> QED
      BY <1>4, <1>7, <2>1, <3>1 DEF Handled
  <2>5. RequestsKnown'
    BY <1>2, <2>1, <2>4 DEF RequestsKnown
  <2> QED
    BY <2>2, <2>3, <2>5
<1>9. ASSUME call # Idle
      PROVE CalledFor' /\ Connected' /\ AncestorReached' /\ RequestsKnown'
  <2>1. /\ n \in 1..n /\ Top = frames[n] /\ Top.module \in Stack /\ call' = call
        /\ HasRequest /\ m = Requested /\ Leads(Top.module, m)
        /\ \A x \in Stack : Leads(x, Top.module)
    BY <1>9, TopOnStack, AllLeadToTop, RequestedIsRequest DEF SearchInv
  <2>2. \A x \in Stack : Leads(x, m)
    BY <1>5, <1>7, <2>1
  <2>3. CalledFor'
    <3>1. Top.next \in DOMAIN Requests(Top.module)
      BY <1>9, <2>1, TopOnStack, Reaching DEF HasRequest, Frames, IInv, SearchTypes
    <3>2. ASSUME NEW i \in 1..(n + 1), i + 1 \in 1..(n + 1)
          PROVE  /\ frames'[i].next \in DOMAIN Requests(frames'[i].module)
                 /\ frames'[i + 1].module = Requests(frames'[i].module)[frames'[i].next]
      <4>1. CASE i = n
        BY <1>4, <2>1, <3>1, <4>1 DEF Requested
      <4>2. CASE i # n
        <5>1. i \in 1..n /\ i + 1 \in 1..n
          BY <1>4, <3>2, <4>2
        <5> QED
          BY <1>4, <5>1 DEF SearchInv, CalledFor
      <4> QED
        BY <4>1, <4>2
    <3>3. frames'[1].module = call'.module
      <4>1. 1 \in 1..n
        BY <1>4, <2>1
      <4> QED
        BY <1>4, <1>9, <2>1, <4>1 DEF SearchInv, CalledFor
    <3>4. \A i \in DOMAIN frames' : i + 1 \in DOMAIN frames' =>
            /\ frames'[i].next \in DOMAIN (Requests(frames[i].module)')
            /\ frames'[i + 1].module = Requests(frames[i].module)'[frames'[i].next]
      BY <1>4, <1>7, <3>2
    <3> QED
      BY <3>3, <3>4 DEF CalledFor
  <2> HIDE DEF n, Stack
  <2>4. Connected'
    <3>1. ASSUME NEW x \in Stack \cup {m}, NEW y \in Stack \cup {m}, dfsIndex'[x] <= dfsIndex'[y]
          PROVE  Leads(x, y)
      <4>1. CASE x \in Stack /\ y \in Stack
        BY <1>5, <3>1, <4>1 DEF SearchInv, Connected, Stack
      <4>2. CASE x = m /\ y \in Stack
        BY <1>5, <1>6, <3>1, <4>2
      <4>3. CASE y = m
        BY <1>7, <2>2, <4>3
      <4> QED
        BY <4>1, <4>2, <4>3
    <3>2. ASSUME NEW y \in Stack \cup {m}
          PROVE  \E i \in 1..(n + 1) : /\ dfsIndex'[frames'[i].module] <= dfsIndex'[y]
                                       /\ Leads(y, frames'[i].module)
      <4>1. CASE y = m
        <5>1. n + 1 \in 1..(n + 1)
          BY <1>4
        <5> QED
          BY <1>4, <1>6, <1>7, <4>1, <5>1
      <4>2. CASE y \in Stack
        <5>1. PICK i \in 1..n : dfsIndex[frames[i].module] <= dfsIndex[y] /\ Leads(y, frames[i].module)
          BY <1>4, <4>2 DEF SearchInv, Connected, Stack
        <5>2. i \in 1..(n + 1)
          BY <1>4
        <5> QED
          BY <1>4, <1>5, <4>2, <5>1, <5>2
      <4> QED
        BY <4>1, <4>2
    <3> QED
      BY <1>2, <1>4, <1>7, <3>1, <3>2 DEF Connected
  <2>5. AncestorReached'
    <3>1. ASSUME NEW x \in Stack \cup {m}
          PROVE  \E z \in Stack \cup {m} : dfsIndex'[z] = dfsAncestorIndex'[x] /\ Leads(x, z)
      <4>1. CASE x = m
        BY <1>6, <1>7, <4>1
      <4>2. CASE x \in Stack
        <5>1. PICK z \in Stack : dfsIndex[z] = dfsAncestorIndex[x] /\ Leads(x, z)
          BY <4>2 DEF SearchInv, AncestorReached, Stack
        <5> QED
          BY <1>5, <4>2, <5>1
      <4> QED
        BY <4>1, <4>2
    <3> QED
      BY <1>2, <1>7, <3>1 DEF AncestorReached
  <2>6. Handled(m)' = {}
    <3>1. \A k \in DOMAIN Requests(m) : ~(k < 1)
      BY Reaching DEF IInv, SearchTypes
    <3>2. n + 1 \in DOMAIN frames' /\ frames'[n + 1].module = m /\ frames'[n + 1].next = 1
      BY <1>4
    <3> QED
      BY <1>7, <3>1, <3>2 DEF Handled
  <2>7. \A y \in Stack : Handled(y)' \subseteq Handled(y)
    BY <1>4, <1>7 DEF Handled
  <2>8. \A z \in Modules : Settled(z) => Settled(z)'
    BY <1>3, <2>1, StatusOrder DEF Settled, IInv, SearchTypes
  <2>9. RequestsKnown'
    <3>1. ASSUME NEW y \in Stack, NEW z \in Handled(y)', ~Settled(z)'
          PROVE  /\ z \in Stack \cup {m}
                 /\ \A i \in 1..(n + 1) : dfsIndex'[frames'[i].module] <= dfsIndex'[y] =>
                      \E j \in 1..(n + 1) :
                        /\ i <= j
                        /\ dfsIndex'[frames'[j].module] <= dfsIndex'[y]
                        /\ dfsAncestorIndex'[frames'[j].module] <= dfsIndex'[z]
      <4>1. z \in Handled(y) /\ z \in Modules /\ ~Settled(z)
        BY <1>5, <2>7, <2>8, <3>1, HandledRequests, Leading DEF IInv, SearchTypes
      <4>2. /\ z \in Stack
            /\ \A i \in 1..n : dfsIndex[frames[i].module] <= dfsIndex[y] =>
                 \E j \in 1..n : /\ i <= j
                                 /\ dfsIndex[frames[j].module] <= dfsIndex[y]
                                 /\ dfsAncestorIndex[frames[j].module] <= dfsIndex[z]
        BY <1>4, <4>1 DEF SearchInv, RequestsKnown, Stack
      <4>3. ASSUME NEW i \in 1..(n + 1), dfsIndex'[frames'[i].module] <= dfsIndex'[y]
            PROVE  \E j \in 1..(n + 1) :
                     /\ i <= j
                     /\ dfsIndex'[frames'[j].module] <= dfsIndex'[y]
                     /\ dfsAncestorIndex'[frames'[j].module] <= dfsIndex'[z]
        <5>1. i # n + 1
          BY <1>4, <1>5, <1>6, <4>3
        <5>2. i \in 1..n
          BY <1>4, <5>1
        <5>3. PICK j \in 1..n : /\ i <= j
                                /\ dfsIndex[frames[j].module] <= dfsIndex[y]
                                /\ dfsAncestorIndex[frames[j].module] <= dfsIndex[z]
          BY <1>4, <1>5, <4>2, <4>3, <5>2
        <5>4. j \in 1..(n + 1) /\ frames'[j] = frames[j] /\ frames[j].module \in Stack
          BY <1>4
        <5>5. /\ dfsIndex'[frames[j].module] = dfsIndex[frames[j].module]
              /\ dfsAncestorIndex'[frames[j].module] = dfsAncestorIndex[frames[j].module]
              /\ dfsIndex'[y] = dfsIndex[y] /\ dfsIndex'[z] = dfsIndex[z]
          BY <1>5, <4>2, <5>4
        <5> QED
          BY <5>3, <5>4, <5>5
      <4> QED
        BY <4>2, <4>3
    <3> QED
      BY <1>2, <1>4, <2>6, <3>1 DEF RequestsKnown
  <2> QED
    BY <2>3, <2>4, <2>5, <2>9
<1>10. SettledIsClosed'
  <2>1. \A k \in Modules : /\ status'[k] >= LINKED <=> status[k] >= LINKED
                           /\ status'[k] = EVALUATED <=> status[k] = EVALUATED
    BY <1>3, StatusOrder, StatusesDiffer DEF IInv, SearchTypes
  <2>2. \A x \in Modules : \A k \in ToSet(Requests(x)) : k \in Modules
    BY Leading DEF IInv, SearchTypes
  <2> QED
    BY <1>7, <2>1, <2>2 DEF SearchInv, SettledIsClosed
<1>11. MetIsLoaded'
  BY <1>3 DEF SearchInv, MetIsLoaded, IInv, SearchTypes
<1> QED
  BY <1>8, <1>9, <1>10, <1>11 DEF SearchInv

\* A request for a module that was met before is passed.
LEMMA MeetSearch ==
  ASSUME IInv, SearchInv, call # Idle, HasRequest, UNCHANGED tables, UNCHANGED call,
         Settled(Requested) \/ Requested \in ToSet(stack),
         Meet(Requested, IF call.op = "link" THEN LINKING ELSE EVALUATING)
  PROVE  SearchInv'
<1> DEFINE n == Len(frames)
           p == Top.module
           m == Requested
           Stack == ToSet(stack)
           known == status[m] = IF call.op = "link" THEN LINKING ELSE EVALUATING
<1>1. /\ n \in Nat /\ n \in 1..n /\ DOMAIN frames = 1..n
      /\ Top = frames[n] /\ p \in Stack /\ p \in Modules /\ Top \in Frames
  BY TopOnStack
<1>2. m \in Modules /\ Leads(p, m) /\ (m \in Stack => known)
  <2>1. m \in Modules /\ Leads(p, m)
    BY <1>1, RequestedIsModule, RequestedIsRequest
  <2> QED
    BY <2>1, SearchFacts
<1>3. /\ UNCHANGED <<records, loaded, call, status, dfsIndex, index, stack>>
      /\ frames' = NextRequest(frames)
      /\ dfsAncestorIndex' = Absorb(p, m, known)
  BY DEF Meet, tables
<1>4. /\ DOMAIN frames' = 1..n
      /\ \A i \in 1..n : frames'[i].module = frames[i].module
      /\ \A i \in 1..n : i # n => frames'[i] = frames[i]
      /\ frames'[n].next = frames[n].next + 1
  <2>1. frames[n] \in [module : Modules, next : Nat \ {0}]
    BY <1>1 DEF Frames
  <2> QED
    BY <1>1, <1>3, <2>1 DEF NextRequest
<1>5. /\ \A k : Requests(k)' = Requests(k)
      /\ \A x, y : Leads(x, y)' <=> Leads(x, y)
      /\ \A x \in Modules : Leads(x, x)
      /\ \A x, y, z \in Modules : Leads(x, y) /\ Leads(y, z) => Leads(x, z)
  BY <1>3, SameRequests, Leading DEF IInv, SearchTypes
<1>6. \A x \in Stack : x \in Modules /\ dfsIndex[x] \in Nat /\ dfsAncestorIndex[x] \in Nat
  BY SearchFacts
<1> HIDE DEF n, p, m, Stack, known
<1>7. /\ \A x \in Stack : dfsAncestorIndex'[x] \in Nat /\ dfsAncestorIndex'[x] <= dfsAncestorIndex[x]
      /\ \A x \in Stack : x # p => dfsAncestorIndex'[x] = dfsAncestorIndex[x]
      /\ m \in Stack => /\ dfsAncestorIndex'[p] <= dfsAncestorIndex[m]
                        /\ dfsAncestorIndex'[p] \in {dfsAncestorIndex[p], dfsAncestorIndex[m]}
      /\ m \notin Stack => dfsAncestorIndex'[p] = dfsAncestorIndex[p]
  <2>1. ~known => m \notin Stack
    BY <1>2
  <2>2. known => m \in Stack
    <3>1. known => status[m] \in InProgress
      BY DEF known, InProgress
    <3> QED
      BY <1>2, <3>1 DEF IInv, InProgressIsStack, InProgress, Stack
  <2>3. dfsAncestorIndex \in [Modules -> Nat]
    BY DEF IInv, SearchTypes
  <2>4. CASE known
    <3> DEFINE low == Min({dfsAncestorIndex[p], dfsAncestorIndex[m]})
    <3>1. dfsAncestorIndex' = [dfsAncestorIndex EXCEPT ![p] = low]
      BY <1>3, <2>4 DEF Absorb
    <3>2. /\ low \in {dfsAncestorIndex[p], dfsAncestorIndex[m]} /\ low \in Nat
          /\ low <= dfsAncestorIndex[p] /\ low <= dfsAncestorIndex[m]
      BY <1>1, <1>2, <2>3, MinOfTwo
    <3> HIDE DEF low
    <3> QED
      BY <1>1, <1>2, <1>6, <2>2, <2>3, <2>4, <3>1, <3>2
  <2>5. CASE ~known
    BY <1>1, <1>3, <1>6, <2>1, <2>5 DEF Absorb
  <2> QED
    BY <2>4, <2>5
<1>8. CalledFor'
  <2>1. frames'[1].module = call'.module
    BY <1>1, <1>3, <1>4 DEF SearchInv, CalledFor
  <2>2. ASSUME NEW i \in 1..n, i + 1 \in 1..n
        PROVE  /\ frames'[i].next \in DOMAIN Requests(frames'[i].module)
               /\ frames'[i + 1].module = Requests(frames'[i].module)[frames'[i].next]
    <3>1. i # n
      BY <1>1, <2>2
    <3> QED
      BY <1>1, <1>4, <2>2, <3>1 DEF SearchInv, CalledFor
  <2>3. \A i \in DOMAIN frames' : i + 1 \in DOMAIN frames' =>
          /\ frames'[i].next \in DOMAIN (Requests(frames[i].module)')
          /\ frames'[i + 1].module = Requests(frames[i].module)'[frames'[i].next]
    BY <1>4, <1>5, <2>2
  <2> QED
    BY <2>1, <2>3 DEF CalledFor
<1>9. Connected'
  <2>1. ToSet(stack') = Stack
    BY <1>3 DEF Stack
  <2>2. \A x, y \in Stack : dfsIndex[x] <= dfsIndex[y] => Leads(x, y)
    BY DEF SearchInv, Connected, Stack
  <2>3. \A y \in Stack : \E i \in 1..n :
          dfsIndex[frames'[i].module] <= dfsIndex[y] /\ Leads(y, frames'[i].module)
    BY <1>1, <1>4 DEF SearchInv, Connected, Stack
  <2> QED
    BY <1>3, <1>4, <1>5, <2>1, <2>2, <2>3 DEF Connected
<1>10. AncestorReached'
  <2>1. ASSUME NEW x \in Stack
        PROVE  \E z \in Stack : dfsIndex[z] = dfsAncestorIndex'[x] /\ Leads(x, z)
    <3>1. \A y \in Stack : \E z \in Stack : dfsIndex[z] = dfsAncestorIndex[y] /\ Leads(y, z)
      BY DEF SearchInv, AncestorReached, Stack
    <3>2. CASE dfsAncestorIndex'[x] = dfsAncestorIndex[x]
      BY <3>1, <3>2
    <3>3. CASE x = p /\ m \in Stack /\ dfsAncestorIndex'[p] = dfsAncestorIndex[m]
      <4>1. PICK z \in Stack : dfsIndex[z] = dfsAncestorIndex[m] /\ Leads(m, z)
        BY <3>1, <3>3
      <4> QED
        BY <1>1, <1>2, <1>5, <1>6, <3>3, <4>1
    <3> QED
      BY <1>7, <3>2, <3>3
  <2> QED
    BY <1>3, <1>5, <2>1 DEF AncestorReached, Stack
<1>11. RequestsKnown'
  <2>1. ASSUME NEW y \in Stack, NEW z \in Handled(y)'
        PROVE  z \in Handled(y) \/ (y = p /\ z = m)
    <3>1. PICK k \in DOMAIN Requests(y) :
            z = Requests(y)[k] /\ \A i \in 1..n : frames'[i].module = y => k < frames'[i].next
      BY <1>4, <1>5 DEF Handled
    <3>2. CASE \A i \in 1..n : frames[i].module = y => k < frames[i].next
      BY <1>1, <3>1, <3>2 DEF Handled
    <3>3. CASE \E i \in 1..n : frames[i].module = y /\ ~(k < frames[i].next)
      <4>1. PICK i \in 1..n : frames[i].module = y /\ ~(k < frames[i].next)
        BY <3>3
      <4>2. i = n /\ y = p
        BY <1>1, <1>4, <3>1, <4>1 DEF p
      <4>3. k \in Nat /\ frames[n].next \in Nat
        <5>1. Requests(y) \in Seq(Modules)
          BY <1>6, Reaching DEF IInv, SearchTypes
        <5>2. k \in Nat
          BY <5>1
        <5> QED
          BY <1>1, <5>2 DEF Frames
      <4>4. k = frames[n].next
        BY <1>4, <3>1, <4>1, <4>2, <4>3
      <4> QED
        BY <1>1, <3>1, <4>2, <4>4 DEF m, p, Requested
    <3> QED
      BY <3>2, <3>3
  <2>2. \A z : Settled(z)' <=> Settled(z)
    BY <1>3 DEF Settled
  <2>3. ASSUME NEW y \in Stack, NEW z \in Handled(y)', ~Settled(z),
               NEW i \in 1..n, dfsIndex[frames[i].module] <= dfsIndex[y]
        PROVE  /\ z \in Stack
               /\ \E j \in 1..n : /\ i <= j
                                  /\ dfsIndex[frames[j].module] <= dfsIndex[y]
                                  /\ dfsAncestorIndex'[frames[j].module] <= dfsIndex[z]
    <3>1. CASE z \in Handled(y)
      <4>1. z \in Stack
        BY <2>3, <3>1 DEF SearchInv, RequestsKnown, Stack
      <4>2. PICK j \in 1..n : /\ i <= j
                              /\ dfsIndex[frames[j].module] <= dfsIndex[y]
                              /\ dfsAncestorIndex[frames[j].module] <= dfsIndex[z]
        BY <1>1, <2>3, <3>1 DEF SearchInv, RequestsKnown, Stack
      <4>3. frames[j].module \in Stack
        BY <1>1, SearchFacts DEF Stack
      <4>4. /\ dfsAncestorIndex'[frames[j].module] <= dfsAncestorIndex[frames[j].module]
            /\ dfsAncestorIndex'[frames[j].module] \in Nat
            /\ dfsAncestorIndex[frames[j].module] \in Nat /\ dfsIndex[z] \in Nat
        BY <1>6, <1>7, <4>1, <4>3
      <4>5. dfsAncestorIndex'[frames[j].module] <= dfsIndex[z]
        BY <4>2, <4>4
      <4> QED
        BY <4>1, <4>2, <4>5
    <3>2. CASE y = p /\ z = m
      <4>1. m \in Stack
        BY <2>3, <3>2 DEF m, Stack
      <4>2. dfsAncestorIndex[m] <= dfsIndex[m] /\ dfsAncestorIndex'[p] <= dfsAncestorIndex[m]
        BY <1>7, <4>1, SearchFacts DEF Stack
      <4>3. dfsAncestorIndex'[p] <= dfsIndex[m]
        BY <1>1, <1>6, <1>7, <4>1, <4>2
      <4>4. frames[n].module = p /\ i <= n /\ n \in 1..n /\ dfsIndex[p] <= dfsIndex[p]
        BY <1>1, <1>6 DEF p
      <4> QED
        BY <3>2, <4>1, <4>3, <4>4
    <3> QED
      BY <2>1, <2>3, <3>1, <3>2
  <2>4. ASSUME NEW y \in Stack, NEW z \in Handled(y)', ~Settled(z) PROVE z \in Stack
    <3>1. CASE z \in Handled(y)
      BY <2>4, <3>1 DEF SearchInv, RequestsKnown, Stack
    <3>2. CASE z = m
      BY <2>4, <3>2 DEF m, Stack
    <3> QED
      BY <2>1, <2>4, <3>1, <3>2
  <2>5. \A y \in Stack : \A z \in Handled(y)' :
          \/ Settled(z)'
          \/ /\ z \in Stack
             /\ \A i \in 1..n : dfsIndex[frames'[i].module] <= dfsIndex[y] =>
                  \E j \in 1..n : /\ i <= j
                                  /\ dfsIndex[frames'[j].module] <= dfsIndex[y]
                                  /\ dfsAncestorIndex'[frames'[j].module] <= dfsIndex[z]
    BY <1>4, <2>2, <2>3, <2>4
  <2> QED
    BY <1>3, <1>4, <2>5 DEF RequestsKnown, Stack
<1>12. SettledIsClosed'
  BY <1>3, <1>5 DEF SearchInv, SettledIsClosed
<1>13. MetIsLoaded'
  BY <1>3 DEF SearchInv, MetIsLoaded
<1> QED
  BY <1>8, <1>9, <1>10, <1>11, <1>12, <1>13 DEF SearchInv

-----------------------------------------------------------------------------
(* The end of a module: what its component is.                             *)

\* A component is what is on the stack from its root on.
LEMMA ComponentIsSuffix ==
  ASSUME IInv, NEW m \in ToSet(stack), dfsAncestorIndex[m] = dfsIndex[m]
  PROVE  Component(m) = {x \in ToSet(stack) : dfsIndex[m] <= dfsIndex[x]}
<1>1. /\ Len(stack) \in Nat /\ DOMAIN stack = 1..Len(stack)
      /\ ToSet(stack) = {stack[i] : i \in DOMAIN stack}
  BY DEF IInv, SearchTypes, ToSet
<1>2. \A i, j \in DOMAIN stack : i < j => dfsIndex[stack[i]] < dfsIndex[stack[j]]
  <2> TAKE i, j \in DOMAIN stack
  <2> HAVE i < j
  <2>1. i \in 1..(j - 1)
    BY <1>1
  <2> QED
    BY <2>1 DEF IInv, InProgressIsStack
<1>3. \A i \in DOMAIN stack : dfsIndex[stack[i]] \in Nat
  BY <1>1, SearchFacts
<1>4. PICK p \in DOMAIN stack : stack[p] = m
  BY <1>1
<1>5. \A j \in DOMAIN stack : (\E k \in 1..j : stack[k] = m) <=> dfsIndex[m] <= dfsIndex[stack[j]]
  <2> TAKE j \in DOMAIN stack
  <2>1. ASSUME NEW k \in 1..j, stack[k] = m PROVE dfsIndex[m] <= dfsIndex[stack[j]]
    <3>1. k \in DOMAIN stack /\ (k = j \/ k < j)
      BY <1>1
    <3> QED
      BY <1>2, <1>3, <2>1, <3>1
  <2>2. ASSUME dfsIndex[m] <= dfsIndex[stack[j]] PROVE p \in 1..j
    <3>1. ~(j < p)
      BY <1>2, <1>3, <1>4, <2>2
    <3> QED
      BY <1>1, <3>1
  <2> QED
    BY <1>4, <2>1, <2>2
<1>6. Component(m) = {stack[i] : i \in {j \in DOMAIN stack : \E k \in 1..j : stack[k] = m}}
  BY DEF Component
<1> QED
  BY <1>1, <1>5, <1>6

\* What a component has requested is settled or is in it.
LEMMA ComponentIsClosed ==
  ASSUME IInv, SearchInv, call # Idle, ~HasRequest,
         dfsAncestorIndex[Top.module] = dfsIndex[Top.module]
  PROVE  \A x \in Component(Top.module) : \A k \in ToSet(Requests(x)) :
           Settled(k) \/ k \in Component(Top.module)
<1> DEFINE n == Len(frames)
           m == Top.module
<1>1. /\ n \in Nat /\ n \in DOMAIN frames /\ DOMAIN frames = 1..n
      /\ m = frames[n].module /\ m \in ToSet(stack)
  BY TopOnStack
<1>2. Component(m) = {x \in ToSet(stack) : dfsIndex[m] <= dfsIndex[x]}
  BY <1>1, ComponentIsSuffix
<1>3. TAKE x \in Component(Top.module)
<1>4. x \in ToSet(stack) /\ dfsIndex[m] <= dfsIndex[x]
  BY <1>2
<1>5. x \in Modules /\ dfsIndex[x] \in Nat /\ dfsIndex[m] \in Nat
  BY <1>1, <1>4, SearchFacts
<1>6. Handled(x) = ToSet(Requests(x))
  <2>1. CASE x = m
    BY <2>1, HandledRequests
  <2>2. CASE x # m
    <3>1. ASSUME NEW i \in DOMAIN frames, frames[i].module = x PROVE FALSE
      <4>1. i < n
        BY <1>1, <2>2, <3>1
      <4>2. dfsIndex[x] < dfsIndex[m]
        BY <1>1, <3>1, <4>1, SearchFacts
      <4> QED
        BY <1>4, <1>5, <4>2
    <3> QED
      BY <1>5, <3>1, HandledRequests
  <2> QED
    BY <2>1, <2>2
<1>7. ASSUME NEW k \in ToSet(Requests(x)), ~Settled(k) PROVE k \in Component(Top.module)
  <2>1. k \in Handled(x)
    BY <1>6
  <2>2. /\ k \in ToSet(stack)
        /\ \A i \in DOMAIN frames : dfsIndex[frames[i].module] <= dfsIndex[x] =>
             \E j \in DOMAIN frames :
               /\ i <= j
               /\ dfsIndex[frames[j].module] <= dfsIndex[x]
               /\ dfsAncestorIndex[frames[j].module] <= dfsIndex[k]
    BY <1>4, <1>7, <2>1 DEF SearchInv, RequestsKnown
  <2>3. PICK j \in DOMAIN frames : n <= j /\ dfsAncestorIndex[frames[j].module] <= dfsIndex[k]
    BY <1>1, <1>4, <2>2
  <2>4. j = n
    BY <1>1, <2>3
  <2> QED
    BY <1>1, <1>2, <2>2, <2>3, <2>4
<1> QED
  BY <1>7

\* The modules of a component are those on a cycle with any one of them.
LEMMA ComponentIsCycle ==
  ASSUME IInv, SearchInv, call # Idle, ~HasRequest
  PROVE  \A x \in Component(Top.module) : Component(Top.module) = CycleOf(x)
<1> DEFINE m == Top.module
           component == Component(m)
<1> SUFFICES ASSUME NEW x \in component PROVE component = CycleOf(x)
  OBVIOUS
<1>1. m \in ToSet(stack) /\ m \in Modules /\ records \in [Modules -> Records]
  BY TopOnStack DEF IInv, SearchTypes
<1>2. dfsAncestorIndex[m] = dfsIndex[m]
  BY DEF Component
<1>3. component = {y \in ToSet(stack) : dfsIndex[m] <= dfsIndex[y]}
  BY <1>1, <1>2, ComponentIsSuffix
<1>4. \A y \in component : y \in Modules /\ Leads(y, m) /\ Leads(m, y)
  <2>1. \A y \in ToSet(stack) : y \in Modules /\ Leads(y, m)
    BY AllLeadToTop, SearchFacts DEF SearchInv
  <2>2. \A y \in component : Leads(m, y)
    BY <1>1, <1>3 DEF SearchInv, Connected
  <2> QED
    BY <1>3, <2>1, <2>2
<1>5. \A k \in ToSet(stack) : k \in Modules /\ ~Settled(k)
  <2>1. \A k \in ToSet(stack) : k \in Modules /\
          status[k] = IF call.op = "link" THEN LINKING ELSE EVALUATING
    BY SearchFacts
  <2>2. call.op = "link" \/ call.op = "evaluate"
    BY TopOnStack
  <2> QED
    BY <2>1, <2>2, StatusOrder, StatusesDiffer DEF Settled
<1> DEFINE known == component \cup {k \in Modules : Settled(k)}
<1>6. \A k \in known : ToSet(Requests(k)) \subseteq known
  <2>1. ASSUME NEW k \in component, NEW r \in ToSet(Requests(k)) PROVE r \in known
    <3>1. Settled(r) \/ r \in component
      BY <1>2, ComponentIsClosed
    <3>2. r \in Modules
      BY <1>1, <1>4, Leading
    <3> QED
      BY <3>1, <3>2
  <2>2. ASSUME NEW k \in Modules, Settled(k), NEW r \in ToSet(Requests(k)) PROVE r \in known
    <3>1. r \in Modules
      BY <1>1, Leading
    <3>2. Settled(r)
      BY <2>2 DEF Settled, SearchInv, SettledIsClosed
    <3> QED
      BY <3>1, <3>2
  <2> QED
    BY <2>1, <2>2
<1>7. \A k \in known : ReachableFrom(k) \subseteq known
  <2>1. known \in SUBSET Modules
    BY <1>4
  <2> HIDE DEF known
  <2> QED
    BY <1>1, <1>6, <2>1, Reaching
<1> HIDE DEF component
<1>8. ASSUME NEW k \in component PROVE k \in CycleOf(x)
  <2>1. Leads(x, k) /\ Leads(k, x)
    BY <1>1, <1>4, Leading
  <2> QED
    BY <2>1 DEF Leads, CycleOf
<1>9. ASSUME NEW k \in ReachableFrom(x), x \in ReachableFrom(k) PROVE k \in component
  <2>1. k \in known
    BY <1>7
  <2>2. CASE Settled(k) /\ k \in Modules
    <3>1. \A r \in {s \in Modules : Settled(s)} :
            ToSet(Requests(r)) \subseteq {s \in Modules : Settled(s)}
      <4>1. \A r \in Modules : \A s \in ToSet(Requests(r)) : s \in Modules
        BY <1>1, Leading
      <4>2. \A r \in Modules : \A s \in ToSet(Requests(r)) : Settled(r) => Settled(s)
        BY DEF Settled, SearchInv, SettledIsClosed
      <4> QED
        BY <4>1, <4>2
    <3>2. Settled(x)
      BY <1>1, <1>9, <2>2, <3>1, Reaching
    <3> QED
      BY <1>3, <1>5, <3>2
  <2> QED
    BY <2>1, <2>2
<1> QED
  BY <1>8, <1>9 DEF CycleOf

\* A module ends: a component is settled, or its caller takes over what it knows.
LEMMA CompleteSearch ==
  ASSUME IInv, SearchInv, call # Idle, ~HasRequest, UNCHANGED tables,
         Complete(Top.module, IF call.op = "link" THEN LINKED ELSE EVALUATED)
  PROVE  SearchInv'
<1> DEFINE n == Len(frames)
           m == Top.module
           Stack == ToSet(stack)
           component == Component(m)
           outer == Front(frames)
           done == IF call.op = "link" THEN LINKED ELSE EVALUATED
           low == dfsAncestorIndex[m]
<1>1. /\ n \in Nat /\ n \in 1..n /\ DOMAIN frames = 1..n /\ m = frames[n].module
      /\ m \in Stack /\ m \in Modules /\ Top = frames[n] /\ frames \in Seq(Frames)
      /\ call.op \in {"link", "evaluate"}
  BY TopOnStack DEF IInv, SearchTypes
<1>2. \A i \in 1..n : frames[i] \in Frames /\ frames[i].module \in Stack
  BY <1>1, SearchFacts
<1>3. \A i \in 1..n : i < n => dfsIndex[frames[i].module] < dfsIndex[m]
  BY <1>1, SearchFacts
<1>4. \A x \in Stack : /\ x \in Modules /\ dfsIndex[x] \in Nat /\ dfsAncestorIndex[x] \in Nat
                       /\ dfsAncestorIndex[x] <= dfsIndex[x]
                       /\ status[x] = IF call.op = "link" THEN LINKING ELSE EVALUATING
  BY SearchFacts
<1>5. /\ outer \in Seq(Frames) /\ Len(outer) = n - 1 /\ DOMAIN outer = 1..(n - 1)
      /\ \A i \in 1..(n - 1) : outer[i] = frames[i]
      /\ outer = <<>> <=> n = 1
  <2>1. /\ outer \in Seq(Frames) /\ Len(outer) = n - 1 /\ DOMAIN outer = 1..(n - 1)
        /\ \A i \in 1..(n - 1) : outer[i] = frames[i]
    BY <1>1 DEF Front
  <2>2. outer = <<>> <=> Len(outer) = 0
    BY <2>1, EmptySeq
  <2> QED
    BY <1>1, <2>1, <2>2
<1>6. /\ status' = [x \in Modules |-> IF x \in component THEN done ELSE status[x]]
      /\ dfsIndex' = dfsIndex /\ UNCHANGED <<records, loaded>>
      /\ \/ /\ outer = <<>> /\ frames' = <<>> /\ call' = Idle
            /\ dfsAncestorIndex' = dfsAncestorIndex
         \/ /\ outer # <<>> /\ frames' = NextRequest(outer) /\ call' = call
            /\ dfsAncestorIndex' = Absorb(Last(outer).module, m, component = {})
  BY DEF Complete, tables
<1>7. /\ \A k : Requests(k)' = Requests(k)
      /\ \A x, y : Leads(x, y)' <=> Leads(x, y)
      /\ \A x \in Modules : Leads(x, x)
      /\ \A x, y, z \in Modules : Leads(x, y) /\ Leads(y, z) => Leads(x, z)
      /\ \A x \in Modules : \A k \in ToSet(Requests(x)) : k \in Modules
  BY <1>6, SameRequests, Leading DEF IInv, SearchTypes
<1>8. /\ component \subseteq Stack
      /\ component # {} => /\ component = {x \in Stack : dfsIndex[m] <= dfsIndex[x]}
                           /\ low = dfsIndex[m] /\ m \in component
      /\ component = {} => low < dfsIndex[m]
  <2>1. CASE low = dfsIndex[m]
    <3>1. component = {x \in Stack : dfsIndex[m] <= dfsIndex[x]}
      BY <1>1, <2>1, ComponentIsSuffix
    <3> QED
      BY <1>1, <1>4, <2>1, <3>1
  <2>2. CASE low # dfsIndex[m]
    <3>1. component = {}
      BY <2>2 DEF Component
    <3> QED
      BY <1>1, <1>4, <2>2, <3>1
  <2> QED
    BY <2>1, <2>2
<1>9. \A x \in component : \A k \in ToSet(Requests(x)) : Settled(k) \/ k \in component
  BY <1>8, ComponentIsClosed
<1>10. ToSet(stack') = Stack \ component
  <2>1. IInv'
    BY <1>6, CompleteIInv
  <2>2. ToSet(stack') = {k \in Modules : status'[k] \in {LINKING, EVALUATING}}
    BY <2>1 DEF IInv, InProgressIsStack
  <2>3. Stack = {k \in Modules : status[k] \in {LINKING, EVALUATING}}
    BY DEF IInv, InProgressIsStack
  <2> QED
    BY <1>6, <2>2, <2>3, StatusesDiffer
<1> HIDE DEF n, m, Stack, component, outer, low, done
<1>11. /\ done >= LINKED /\ (call.op = "link" => done # EVALUATED)
       /\ done = EVALUATED <=> call.op = "evaluate"
       /\ done # UNLINKED
  BY <1>1, StatusOrder DEF done
<1>12. \A k \in Modules : /\ k \in component => status'[k] = done
                          /\ k \notin component => status'[k] = status[k]
  BY <1>6
<1>13. SettledIsClosed'
  <2>1. ASSUME NEW x \in Modules, NEW k \in ToSet(Requests(x))
        PROVE  /\ status'[x] >= LINKED => status'[k] >= LINKED
               /\ status'[x] = EVALUATED => status'[k] = EVALUATED
    <3>1. k \in Modules
      BY <1>7
    <3>2. status'[x] >= LINKED => status'[k] >= LINKED
      <4>1. status[k] >= LINKED => status'[k] >= LINKED
        BY <1>11, <1>12, <3>1
      <4>2. CASE x \in component
        <5>1. CASE k \in component
          BY <1>11, <1>12, <3>1, <5>1
        <5>2. CASE Settled(k)
          BY <4>1, <5>2, StatusOrder DEF Settled
        <5> QED
          BY <1>9, <4>2, <5>1, <5>2
      <4>3. CASE x \notin component
        BY <1>12, <4>1, <4>3 DEF SearchInv, SettledIsClosed
      <4> QED
        BY <4>2, <4>3
    <3>3. status'[x] = EVALUATED => status'[k] = EVALUATED
      <4>1. status[k] = EVALUATED => status'[k] = EVALUATED
        <5>1. k \in component => status[k] # EVALUATED
          BY <1>4, <1>8, StatusesDiffer
        <5> QED
          BY <1>12, <3>1, <5>1
      <4>2. CASE x \in component /\ call.op = "evaluate"
        <5>1. CASE k \in component
          BY <1>11, <1>12, <3>1, <4>2, <5>1
        <5>2. CASE Settled(k)
          BY <4>1, <4>2, <5>2 DEF Settled
        <5> QED
          BY <1>9, <4>2, <5>1, <5>2
      <4>3. CASE x \in component /\ call.op # "evaluate"
        BY <1>11, <1>12, <4>3
      <4>4. CASE x \notin component
        BY <1>12, <4>1, <4>4 DEF SearchInv, SettledIsClosed
      <4> QED
        BY <4>2, <4>3, <4>4
    <3> QED
      BY <3>2, <3>3
  <2> QED
    BY <1>7, <2>1 DEF SettledIsClosed
<1>14. MetIsLoaded'
  <2>1. ASSUME NEW k \in Modules, status'[k] # UNLINKED PROVE k \in loaded
    <3>1. CASE k \in component
      BY <1>4, <1>8, <3>1, StatusesDiffer DEF SearchInv, MetIsLoaded
    <3>2. CASE k \notin component
      BY <1>12, <2>1, <3>2 DEF SearchInv, MetIsLoaded
    <3> QED
      BY <3>1, <3>2
  <2> QED
    BY <1>6, <2>1 DEF MetIsLoaded
<1>15. ASSUME n = 1
       PROVE  CalledFor' /\ Connected' /\ AncestorReached' /\ RequestsKnown'
  <2>1. frames' = <<>> /\ call' = Idle
    BY <1>5, <1>6, <1>15
  <2>2. IInv'
    BY <1>6, CompleteIInv DEF m, done
  <2>3. ToSet(stack') = {} /\ DOMAIN frames' = {}
    BY <2>1, <2>2 DEF IInv, InProgressIsStack, ToSet
  <2> QED
    BY <2>1, <2>3 DEF CalledFor, Connected, AncestorReached, RequestsKnown
<1>16. ASSUME n # 1
       PROVE  CalledFor' /\ Connected' /\ AncestorReached' /\ RequestsKnown'
  <2> DEFINE p == frames[n - 1].module
  <2>1. /\ n - 1 \in 1..n /\ n - 1 \in 1..(n - 1) /\ n - 1 < n /\ (n - 1) + 1 = n
        /\ frames' = NextRequest(outer) /\ call' = call
        /\ Last(outer) = frames[n - 1]
        /\ dfsAncestorIndex' = Absorb(p, m, component = {})
    <3>1. n - 1 \in 1..n /\ n - 1 \in 1..(n - 1) /\ n - 1 < n /\ (n - 1) + 1 = n
      BY <1>1, <1>16
    <3>2. Last(outer) = frames[n - 1]
      BY <1>5, <3>1 DEF Last
    <3> QED
      BY <1>5, <1>6, <1>16, <3>1, <3>2
  <2>2. /\ DOMAIN frames' = 1..(n - 1)
        /\ \A i \in 1..(n - 1) : i \in 1..n /\ i < n
        /\ \A i \in 1..(n - 1) : frames'[i].module = frames[i].module
        /\ \A i \in 1..(n - 1) : i # n - 1 => frames'[i] = frames[i]
        /\ frames'[n - 1].next = frames[n - 1].next + 1
    <3>1. frames[n - 1] \in [module : Modules, next : Nat \ {0}]
      BY <1>2, <2>1 DEF Frames
    <3>2. NextRequest(outer) = [outer EXCEPT ![n - 1].next = @ + 1]
      BY <1>5 DEF NextRequest
    <3>3. \A i \in 1..(n - 1) : i \in 1..n /\ i < n
      BY <1>1
    <3>4. frames' = [outer EXCEPT ![n - 1].next = @ + 1]
      BY <2>1, <3>2
    <3>5. DOMAIN frames' = 1..(n - 1)
      BY <1>5, <3>4
    <3>6. frames'[n - 1] = [frames[n - 1] EXCEPT !.next = @ + 1]
      BY <1>5, <2>1, <3>4
    <3>7. \A i \in 1..(n - 1) : i # n - 1 => frames'[i] = frames[i]
      BY <1>5, <3>4
    <3>8. frames'[n - 1].module = frames[n - 1].module /\ frames'[n - 1].next = frames[n - 1].next + 1
      BY <3>1, <3>6
    <3> QED
      BY <3>3, <3>5, <3>7, <3>8
  <2>3. p \in Stack /\ p \in Modules /\ dfsIndex[p] < dfsIndex[m] /\ Leads(p, m)
    <3>1. p \in Stack /\ p \in Modules /\ dfsIndex[p] < dfsIndex[m]
      BY <1>2, <1>3, <1>4, <2>1
    <3>2. dfsIndex[p] <= dfsIndex[m]
      BY <1>1, <1>4, <3>1
    <3> QED
      BY <1>1, <3>1, <3>2 DEF SearchInv, Connected, Stack
  <2>4. \A i \in 1..(n - 1) : frames[i].module \in Stack \ component
    <3> TAKE i \in 1..(n - 1)
    <3>1. frames[i].module \in Stack /\ dfsIndex[frames[i].module] < dfsIndex[m]
      BY <1>2, <1>3, <2>2
    <3>2. ~(dfsIndex[m] <= dfsIndex[frames[i].module])
      BY <1>1, <1>4, <3>1
    <3> QED
      BY <1>8, <3>1, <3>2
  <2> HIDE DEF p
  <2>5. /\ \A x \in Stack : dfsAncestorIndex'[x] \in Nat /\ dfsAncestorIndex'[x] <= dfsAncestorIndex[x]
        /\ \A x \in Stack : x # p => dfsAncestorIndex'[x] = dfsAncestorIndex[x]
        /\ component # {} => dfsAncestorIndex'[p] = dfsAncestorIndex[p]
        /\ component = {} => dfsAncestorIndex'[p] <= low
        /\ dfsAncestorIndex'[p] \in {dfsAncestorIndex[p], low}
    <3>1. dfsAncestorIndex \in [Modules -> Nat]
      BY DEF IInv, SearchTypes
    <3>2. CASE component = {}
      <4> DEFINE min == Min({dfsAncestorIndex[p], dfsAncestorIndex[m]})
      <4>1. dfsAncestorIndex' = [dfsAncestorIndex EXCEPT ![p] = min]
        BY <2>1, <3>2 DEF Absorb
      <4>2. /\ min \in {dfsAncestorIndex[p], low} /\ min \in Nat
            /\ min <= dfsAncestorIndex[p] /\ min <= low
        BY <1>1, <2>3, <3>1, MinOfTwo DEF low
      <4> HIDE DEF min
      <4> QED
        BY <1>4, <2>3, <3>1, <3>2, <4>1, <4>2
    <3>3. CASE component # {}
      <4>1. dfsAncestorIndex' = dfsAncestorIndex
        BY <2>1, <3>3 DEF Absorb
      <4> QED
        BY <1>4, <3>3, <4>1
    <3> QED
      BY <3>2, <3>3
  <2>6. CalledFor'
    <3>1. frames'[1].module = call'.module
      <4>1. 1 \in 1..(n - 1)
        BY <1>1, <1>16
      <4> QED
        BY <1>1, <2>1, <2>2, <4>1 DEF SearchInv, CalledFor
    <3>2. ASSUME NEW i \in 1..(n - 1), i + 1 \in 1..(n - 1)
          PROVE  /\ frames'[i].next \in DOMAIN Requests(frames'[i].module)
                 /\ frames'[i + 1].module = Requests(frames'[i].module)[frames'[i].next]
      <4>1. i # n - 1 /\ i \in 1..n /\ i + 1 \in 1..n
        BY <1>1, <3>2
      <4>2. /\ frames[i].next \in DOMAIN Requests(frames[i].module)
            /\ frames[i + 1].module = Requests(frames[i].module)[frames[i].next]
        BY <1>1, <4>1 DEF SearchInv, CalledFor
      <4> QED
        BY <2>2, <3>2, <4>1, <4>2
    <3>3. \A i \in DOMAIN frames' : i + 1 \in DOMAIN frames' =>
            /\ frames'[i].next \in DOMAIN (Requests(frames[i].module)')
            /\ frames'[i + 1].module = Requests(frames[i].module)'[frames'[i].next]
      BY <1>7, <2>2, <3>2
    <3> QED
      BY <3>1, <3>3 DEF CalledFor
  <2>7. Connected'
    <3>1. \A x, y \in Stack : dfsIndex[x] <= dfsIndex[y] => Leads(x, y)
      BY DEF SearchInv, Connected, Stack
    <3>2. ASSUME NEW y \in Stack \ component
          PROVE  \E i \in 1..(n - 1) :
                   dfsIndex[frames[i].module] <= dfsIndex[y] /\ Leads(y, frames[i].module)
      <4>1. PICK i \in 1..n : dfsIndex[frames[i].module] <= dfsIndex[y] /\ Leads(y, frames[i].module)
        BY <1>1 DEF SearchInv, Connected, Stack
      <4>2. CASE i # n
        <5>1. i \in 1..(n - 1)
          BY <1>1, <4>2
        <5> QED
          BY <4>1, <5>1
      <4>3. CASE i = n /\ component # {}
        BY <1>1, <1>8, <4>1, <4>3
      <4>4. CASE i = n /\ component = {}
        <5>1. PICK z \in Stack : dfsIndex[z] = low /\ Leads(m, z)
          BY <1>1 DEF SearchInv, AncestorReached, Stack, low
        <5>2. PICK j \in 1..n :
                dfsIndex[frames[j].module] <= dfsIndex[z] /\ Leads(z, frames[j].module)
          BY <1>1 DEF SearchInv, Connected, Stack
        <5>3. /\ dfsIndex[frames[j].module] \in Nat /\ dfsIndex[m] \in Nat
              /\ dfsIndex[z] \in Nat /\ dfsIndex[y] \in Nat /\ frames[j].module \in Modules
          BY <1>1, <1>2, <1>4
        <5>4. low < dfsIndex[m] /\ dfsIndex[m] <= dfsIndex[y]
          BY <1>1, <1>8, <4>1, <4>4
        <5>5. j # n
          BY <1>1, <5>1, <5>2, <5>3, <5>4
        <5>6. j \in 1..(n - 1)
          BY <1>1, <5>5
        <5>7. Leads(y, frames[j].module)
          <6>1. Leads(y, m)
            BY <1>1, <4>1, <4>4
          <6>2. Leads(y, z)
            BY <1>1, <1>4, <1>7, <5>1, <6>1
          <6> QED
            BY <1>4, <1>7, <5>2, <5>3, <6>2
        <5>8. dfsIndex[frames[j].module] <= dfsIndex[y]
          BY <5>1, <5>2, <5>3, <5>4
        <5> QED
          BY <5>6, <5>7, <5>8
      <4> QED
        BY <4>2, <4>3, <4>4
    <3>3. \A y \in Stack \ component : \E i \in 1..(n - 1) :
            dfsIndex[frames'[i].module] <= dfsIndex[y] /\ Leads(y, frames'[i].module)
      BY <2>2, <3>2
    <3> QED
      BY <1>6, <1>7, <1>10, <2>2, <3>1, <3>3 DEF Connected
  <2>8. AncestorReached'
    <3>1. \A y \in Stack : \E z \in Stack : dfsIndex[z] = dfsAncestorIndex[y] /\ Leads(y, z)
      BY DEF SearchInv, AncestorReached, Stack
    <3>2. ASSUME NEW x \in Stack \ component
          PROVE  \E z \in Stack \ component : dfsIndex[z] = dfsAncestorIndex'[x] /\ Leads(x, z)
      <4>1. CASE dfsAncestorIndex'[x] = dfsAncestorIndex[x]
        <5>1. PICK z \in Stack : dfsIndex[z] = dfsAncestorIndex[x] /\ Leads(x, z)
          BY <3>1
        <5>2. dfsIndex[z] <= dfsIndex[x]
          BY <1>4, <5>1
        <5>3. z \notin component
          BY <1>1, <1>4, <1>8, <5>2
        <5> QED
          BY <4>1, <5>1, <5>3
      <4>2. CASE dfsAncestorIndex'[x] # dfsAncestorIndex[x]
        <5>1. x = p /\ component = {} /\ dfsAncestorIndex'[p] = low
          BY <2>5, <4>2
        <5>2. PICK z \in Stack : dfsIndex[z] = low /\ Leads(m, z)
          BY <1>1, <3>1 DEF low
        <5>3. Leads(p, z)
          BY <1>1, <1>4, <1>7, <2>3, <5>2
        <5> QED
          BY <5>1, <5>2, <5>3
      <4> QED
        BY <4>1, <4>2
    <3> QED
      BY <1>6, <1>7, <1>10, <3>2 DEF AncestorReached
  <2>9. RequestsKnown'
    <3>1. \A z \in Modules : Settled(z) \/ z \in component => Settled(z)'
      <4> TAKE z \in Modules
      <4>1. CASE z \in component
        BY <1>1, <1>11, <1>12, <2>1, <4>1 DEF Settled
      <4>2. CASE z \notin component
        BY <1>12, <2>1, <4>2 DEF Settled
      <4> QED
        BY <4>1, <4>2
    <3>2. ASSUME NEW y \in Stack, NEW z \in Handled(y)'
          PROVE  z \in Handled(y) \/ (y = p /\ z = m)
      <4>1. PICK k \in DOMAIN Requests(y) :
              /\ z = Requests(y)[k]
              /\ \A i \in 1..(n - 1) : frames'[i].module = y => k < frames'[i].next
        BY <1>7, <2>2 DEF Handled
      <4>2. k \in Nat /\ Requests(y) \in Seq(Modules)
        <5>1. Requests(y) \in Seq(Modules)
          BY <1>4, Reaching DEF IInv, SearchTypes
        <5> QED
          BY <5>1
      <4>3. CASE \A i \in 1..n : frames[i].module = y => k < frames[i].next
        BY <1>1, <4>1, <4>3 DEF Handled
      <4>4. CASE \E i \in 1..n : frames[i].module = y /\ ~(k < frames[i].next)
        <5>1. PICK i \in 1..n : frames[i].module = y /\ ~(k < frames[i].next)
          BY <4>4
        <5>2. frames[i].next \in Nat
          BY <1>2 DEF Frames
        <5>3. i # n
          <6> SUFFICES ASSUME i = n PROVE FALSE
            OBVIOUS
          <6>1. z \in ToSet(Requests(m)) /\ y = m
            BY <1>1, <4>1, <5>1 DEF ToSet
          <6>2. ~(frames[n].next <= Len(Requests(m)))
            BY <1>1 DEF HasRequest
          <6>3. k \in 1..Len(Requests(m)) /\ Len(Requests(m)) \in Nat
            BY <4>2, <6>1
          <6> QED
            BY <5>1, <5>2, <6>2, <6>3
        <5>4. i \in 1..(n - 1)
          BY <1>1, <5>3
        <5>5. i = n - 1
          BY <2>2, <4>1, <5>1, <5>4
        <5>6. y = p /\ k = frames[n - 1].next
          BY <2>1, <2>2, <4>1, <4>2, <5>1, <5>2, <5>5 DEF p
        <5>7. frames[n].module = Requests(p)[frames[n - 1].next]
          BY <1>1, <2>1 DEF SearchInv, CalledFor, p
        <5> QED
          BY <1>1, <4>1, <5>6, <5>7
      <4> QED
        BY <4>3, <4>4
    <3>3. ASSUME NEW y \in Stack \ component, NEW z \in Handled(y)', ~Settled(z)'
          PROVE  /\ z \in Stack \ component
                 /\ \A i \in 1..(n - 1) : dfsIndex[frames[i].module] <= dfsIndex[y] =>
                      \E j \in 1..(n - 1) :
                        /\ i <= j
                        /\ dfsIndex[frames[j].module] <= dfsIndex[y]
                        /\ dfsAncestorIndex'[frames[j].module] <= dfsIndex[z]
      <4>1. CASE z \in Handled(y)
        <5>1. z \in Modules
          BY <1>4, <1>7, <4>1, HandledRequests
        <5>2. z \in Stack \ component
          BY <3>1, <3>3, <4>1, <5>1 DEF SearchInv, RequestsKnown, Stack
        <5>3. ASSUME NEW i \in 1..(n - 1), dfsIndex[frames[i].module] <= dfsIndex[y]
              PROVE  \E j \in 1..(n - 1) :
                       /\ i <= j
                       /\ dfsIndex[frames[j].module] <= dfsIndex[y]
                       /\ dfsAncestorIndex'[frames[j].module] <= dfsIndex[z]
          <6>1. i \in 1..n /\ ~Settled(z) /\ y \in Stack
            BY <2>2, <3>1, <3>3, <5>1
          <6>2. PICK j \in 1..n : /\ i <= j
                                  /\ dfsIndex[frames[j].module] <= dfsIndex[y]
                                  /\ dfsAncestorIndex[frames[j].module] <= dfsIndex[z]
            BY <1>1, <4>1, <5>3, <6>1 DEF SearchInv, RequestsKnown, Stack
          <6>3. CASE j # n
            <7>1. j \in 1..(n - 1)
              BY <1>1, <6>3
            <7>2. frames[j].module \in Stack
              BY <1>2
            <7>3. dfsAncestorIndex'[frames[j].module] <= dfsIndex[z]
              BY <1>4, <2>5, <5>2, <6>2, <7>2
            <7> QED
              BY <6>2, <7>1, <7>3
          <6>4. CASE j = n
            <7>1. dfsIndex[m] <= dfsIndex[y] /\ low <= dfsIndex[z]
              BY <1>1, <6>2, <6>4 DEF low
            <7>2. component = {}
              BY <1>8, <7>1
            <7>3. dfsAncestorIndex'[p] <= dfsIndex[z]
              BY <1>1, <1>4, <2>3, <2>5, <5>2, <7>1, <7>2 DEF low
            <7>4. dfsIndex[p] <= dfsIndex[y]
              BY <1>1, <1>4, <2>3, <7>1
            <7>5. i <= n - 1 /\ n - 1 \in 1..(n - 1)
              BY <1>1, <2>1
            <7> QED
              BY <7>3, <7>4, <7>5 DEF p
          <6> QED
            BY <6>3, <6>4
        <5> QED
          BY <5>2, <5>3
      <4>2. CASE y = p /\ z = m
        <5>1. component = {} /\ m \in Stack
          BY <1>1, <1>8, <3>1, <3>3, <4>2
        <5>2. low \in Nat /\ low <= dfsIndex[m]
          BY <1>1, <1>4 DEF low
        <5>3. dfsAncestorIndex'[p] <= dfsIndex[m]
          BY <1>1, <1>4, <2>3, <2>5, <5>1, <5>2
        <5>4. dfsIndex[p] <= dfsIndex[p] /\ n - 1 \in 1..(n - 1) /\ \A i \in 1..(n - 1) : i <= n - 1
          BY <1>1, <1>4, <2>1, <2>3
        <5> QED
          BY <4>2, <5>1, <5>3, <5>4 DEF p
      <4> QED
        BY <3>2, <3>3, <4>1, <4>2
    <3>4. \A y \in Stack \ component : \A z \in Handled(y)' :
            \/ Settled(z)'
            \/ /\ z \in Stack \ component
               /\ \A i \in 1..(n - 1) : dfsIndex'[frames'[i].module] <= dfsIndex'[y] =>
                    \E j \in 1..(n - 1) :
                      /\ i <= j
                      /\ dfsIndex'[frames'[j].module] <= dfsIndex'[y]
                      /\ dfsAncestorIndex'[frames'[j].module] <= dfsIndex'[z]
      BY <1>6, <2>2, <3>3
    <3> QED
      BY <1>10, <2>2, <3>4 DEF RequestsKnown
  <2> QED
    BY <2>6, <2>7, <2>8, <2>9
<1> QED
  BY <1>13, <1>14, <1>15, <1>16 DEF SearchInv

\* A call ends with an exception and has not changed what is settled.
LEMMA UnwindSearch ==
  ASSUME SearchInv, NEW error, Unwind(error), UNCHANGED tables,
         \A k \in Modules : /\ status'[k] >= LINKED <=> status[k] >= LINKED
                            /\ status'[k] = EVALUATED <=> status[k] = EVALUATED
                            /\ status'[k] # UNLINKED => status[k] # UNLINKED,
         records \in [Modules -> Records]
  PROVE  SearchInv'
<1>1. frames' = <<>> /\ stack' = <<>> /\ call' = Idle /\ UNCHANGED <<records, loaded>>
  BY DEF Unwind, tables
<1>2. ToSet(stack') = {} /\ DOMAIN frames' = {}
  BY <1>1 DEF ToSet
<1>3. CalledFor' /\ Connected' /\ AncestorReached' /\ RequestsKnown'
  BY <1>1, <1>2 DEF CalledFor, Connected, AncestorReached, RequestsKnown
<1>4. /\ \A k : Requests(k)' = Requests(k)
      /\ \A x \in Modules : \A k \in ToSet(Requests(x)) : k \in Modules
  BY <1>1, SameRequests, Leading
<1>5. SettledIsClosed'
  BY <1>4 DEF SearchInv, SettledIsClosed
<1>6. MetIsLoaded'
  BY <1>1 DEF SearchInv, MetIsLoaded
<1> QED
  BY <1>3, <1>5, <1>6 DEF SearchInv

\* What leaves the search alone.
LEMMA QuietSearch ==
  ASSUME SearchInv, loaded \subseteq loaded',
         UNCHANGED <<records, status, dfsIndex, dfsAncestorIndex, call, frames, stack>>
  PROVE  SearchInv'
<1>1. /\ \A k : Requests(k)' = Requests(k)
      /\ \A x, y : Leads(x, y)' <=> Leads(x, y)
  BY SameRequests
<1>2. (\A k : Handled(k)' = Handled(k)) /\ \A k : Settled(k)' <=> Settled(k)
  BY <1>1 DEF Handled, Settled
<1>3. CalledFor'
  BY <1>1 DEF SearchInv, CalledFor
<1>4. Connected' /\ AncestorReached'
  BY <1>1 DEF SearchInv, Connected, AncestorReached
<1>5. RequestsKnown'
  BY <1>2 DEF SearchInv, RequestsKnown
<1>6. SettledIsClosed' /\ MetIsLoaded'
  BY <1>1 DEF SearchInv, SettledIsClosed, MetIsLoaded
<1> QED
  BY <1>3, <1>4, <1>5, <1>6 DEF SearchInv

-----------------------------------------------------------------------------
(***************************************************************************)
(* What evaluation leaves behind: the bodies that have run, and errors.    *)
(***************************************************************************)

HasActivation(m) == \E i \in DOMAIN frames : frames[i].module = m

\* The body of a module has run and not thrown.
Executed(m) ==
  status[m] = EVALUATED \/ (status[m] = EVALUATING /\ ~HasActivation(m))

\* Bodies have run of modules that are evaluated, have failed or are done with
\* but for the rest of their component, and of all that are evaluated.
RanIsKnown ==
  /\ ran \in Seq([module : Modules, threw : BOOLEAN])
  /\ \A m \in Modules : \A threw \in BOOLEAN :
       [module |-> m, threw |-> threw] \in ToSet(ran) =>
         Executed(m) \/ status[m] = EVALUATED_ERROR
  /\ \A m \in Modules : Executed(m) => [module |-> m, threw |-> FALSE] \in ToSet(ran)

\* A module that has failed keeps the exception of a body it leads to.
ErrorIsReal(m, error) ==
  \E k \in Modules : /\ Leads(m, k) /\ error = BodyError(k)
                     /\ [module |-> k, threw |-> TRUE] \in ToSet(ran)

ErrorsAreReal ==
  \A m \in Modules : status[m] = EVALUATED_ERROR => ErrorIsReal(m, evaluationError[m])

Strong ==
  IInv /\ SearchInv /\ RanIsKnown /\ ErrorsAreReal /\ BodiesRunInOrder

\* The exception of a body is not the absence of one.
LEMMA BodyErrorIsError == \A k : BodyError(k) # NoError
BY DEF BodyError, NoError

LEMMA AppendToSet ==
  ASSUME NEW S, NEW s \in Seq(S), NEW e \in S
  PROVE  ToSet(Append(s, e)) = ToSet(s) \cup {e}
<1>1. /\ Len(s) \in Nat /\ DOMAIN s = 1..Len(s) /\ DOMAIN Append(s, e) = 1..(Len(s) + 1)
      /\ \A i \in 1..Len(s) : Append(s, e)[i] = s[i]
      /\ Append(s, e)[Len(s) + 1] = e
  OBVIOUS
<1> QED
  BY <1>1 DEF ToSet

\* What a module requests that is being evaluated is loaded and linked: the hook
\* of the host has no reason to throw.
LEMMA RequestsAreReady ==
  ASSUME Strong, call.op = "evaluate", call # Idle, HasRequest
  PROVE  /\ Requested \in Modules
         /\ HookError(Requested, LINKED) = "none"
         /\ status[Requested] >= LINKED
<1>1. Requested \in Modules /\ Requested \in ToSet(Requests(Top.module))
  BY RequestedIsModule, RequestedIsRequest DEF Strong
<1>2. Top.module \in Modules /\ status[Top.module] = EVALUATING
  BY TopOnStack, SearchFacts DEF Strong
<1>3. status[Requested] >= LINKED
  BY <1>1, <1>2, StatusOrder DEF Strong, SearchInv, SettledIsClosed
<1>4. Requested \in loaded
  BY <1>1, <1>3, StatusOrder DEF Strong, SearchInv, MetIsLoaded
<1>5. ~(status[Requested] < LINKED)
  <2>1. status[Requested] \in Statuses
    BY <1>1 DEF Strong, IInv, SearchTypes
  <2> QED
    BY <1>3, <2>1 DEF Statuses, UNLINKED, LINKING, LINKED, EVALUATING, EVALUATED, EVALUATED_ERROR
<1> QED
  BY <1>1, <1>3, <1>4, <1>5 DEF HookError

\* Steps that execute no body and record no error.
LEMMA KeepBodies ==
  ASSUME RanIsKnown, ErrorsAreReal, BodiesRunInOrder,
         UNCHANGED <<records, ran, evaluationError>>,
         \A k \in Modules : /\ Executed(k)' <=> Executed(k)
                            /\ status'[k] = EVALUATED_ERROR <=> status[k] = EVALUATED_ERROR
  PROVE  RanIsKnown' /\ ErrorsAreReal' /\ BodiesRunInOrder'
<1>1. /\ \A k : Requests(k)' = Requests(k) /\ ReachableFrom(k)' = ReachableFrom(k)
      /\ \A x, y : Leads(x, y)' <=> Leads(x, y)
  BY SameRequests
<1>2. \A k : CycleOf(k)' = CycleOf(k)
  BY <1>1 DEF CycleOf
<1>3. RanIsKnown'
  BY DEF RanIsKnown
<1>4. ErrorsAreReal'
  BY <1>1 DEF ErrorsAreReal, ErrorIsReal
<1>5. \A m \in Modules : status'[m] = EVALUATED => [module |-> m, threw |-> FALSE] \in ToSet(ran)
  BY DEF RanIsKnown, Executed
<1>6. BodiesRunInOrder'
  BY <1>1, <1>2, <1>5 DEF BodiesRunInOrder
<1> QED
  BY <1>3, <1>4, <1>6

\* The body that runs next has not run, and those it needs have.
LEMMA NextBodyInOrder ==
  ASSUME Strong, call # Idle, call.op = "evaluate", ~HasRequest, UNCHANGED records,
         NEW threw \in BOOLEAN,
         ran' = Append(ran, [module |-> Top.module, threw |-> threw]),
         \A m \in Modules : status'[m] = EVALUATED =>
           [module |-> m, threw |-> FALSE] \in ToSet(ran')
  PROVE  BodiesRunInOrder'
<1> DEFINE m == Top.module
           l == Len(ran)
<1>1. /\ m \in Modules /\ m \in ToSet(stack) /\ status[m] = EVALUATING /\ HasActivation(m)
      /\ records \in [Modules -> Records]
  BY TopOnStack, SearchFacts DEF Strong, HasActivation, IInv, SearchTypes
<1>2. /\ ran \in Seq([module : Modules, threw : BOOLEAN])
      /\ [module |-> m, threw |-> threw] \in [module : Modules, threw : BOOLEAN]
  BY <1>1 DEF Strong, RanIsKnown
<1>3. /\ l \in Nat /\ DOMAIN ran = 1..l /\ DOMAIN ran' = 1..(l + 1)
      /\ \A i \in 1..l : ran'[i] = ran[i]
      /\ ran'[l + 1] = [module |-> m, threw |-> threw]
  BY <1>2
<1>4. /\ \A k : Requests(k)' = Requests(k) /\ ReachableFrom(k)' = ReachableFrom(k)
      /\ \A k : CycleOf(k)' = CycleOf(k)
  BY SameRequests DEF CycleOf
<1>5. \A i \in 1..l : ran[i].module # m
  <2> SUFFICES ASSUME NEW i \in 1..l, ran[i].module = m PROVE FALSE
    OBVIOUS
  <2>1. ran[i] \in [module : Modules, threw : BOOLEAN] /\ ran[i] \in ToSet(ran)
    BY <1>2, <1>3, ElementOfSeq DEF ToSet
  <2>2. ran[i] = [module |-> m, threw |-> ran[i].threw] /\ ran[i].threw \in BOOLEAN
    BY <2>1
  <2>3. Executed(m) \/ status[m] = EVALUATED_ERROR
    BY <1>1, <2>1, <2>2 DEF Strong, RanIsKnown
  <2> QED
    BY <1>1, <2>3, StatusesDiffer DEF Executed
<1>6. ASSUME NEW r \in ToSet(Requests(m)) \ CycleOf(m), NEW k \in ReachableFrom(r) \cup {r}
      PROVE  \E j \in 1..l : ran[j] = [module |-> k, threw |-> FALSE]
  <2>1. r \in Modules /\ r \in Handled(m) /\ Leads(m, r) /\ r \in ReachableFrom(m)
    BY <1>1, HandledRequests, Leading, Reaching DEF Strong
  <2>2. r \notin ToSet(stack)
    <3>1. r \in ToSet(stack) => Leads(r, m)
      BY AllLeadToTop DEF Strong, SearchInv
    <3>2. Leads(r, m) => r \in CycleOf(m)
      BY <2>1 DEF Leads, CycleOf
    <3> QED
      BY <1>6, <3>1, <3>2
  <2>3. status[r] = EVALUATED
    BY <1>1, <2>1, <2>2 DEF Strong, SearchInv, RequestsKnown, Settled
  <2>4. status[k] = EVALUATED /\ k \in Modules
    <3> DEFINE evaluated == {x \in Modules : status[x] = EVALUATED}
    <3>1. \A x \in evaluated : ToSet(Requests(x)) \subseteq evaluated
      <4>1. \A x \in Modules : \A y \in ToSet(Requests(x)) : y \in Modules
        BY <1>1, Leading
      <4> QED
        BY <4>1 DEF Strong, SearchInv, SettledIsClosed
    <3>2. ReachableFrom(r) \subseteq evaluated
      BY <1>1, <2>1, <2>3, <3>1, Reaching
    <3> QED
      BY <2>1, <2>3, <3>2
  <2>5. [module |-> k, threw |-> FALSE] \in ToSet(ran)
    BY <2>4 DEF Strong, RanIsKnown, Executed
  <2> QED
    BY <1>3, <2>5 DEF ToSet
<1> HIDE DEF l, m
<1>7. ASSUME NEW i \in 1..(l + 1)
      PROVE  /\ \A j \in 1..(i - 1) : ran'[j].module # ran'[i].module
             /\ \A r \in ToSet(Requests(ran'[i].module)) \ CycleOf(ran'[i].module) :
                  \A k \in ReachableFrom(r) \cup {r} :
                    \E j \in 1..(i - 1) : ran'[j] = [module |-> k, threw |-> FALSE]
  <2>1. CASE i = l + 1
    <3>1. (l + 1) - 1 = l
      BY <1>3
    <3>2. ran'[i].module = m
      BY <1>3, <2>1
    <3>3. \A j \in 1..(i - 1) : j \in 1..l
      BY <2>1, <3>1
    <3>4. \A j \in 1..(i - 1) : ran'[j].module # m
      BY <1>3, <1>5, <3>3
    <3>5. ASSUME NEW r \in ToSet(Requests(m)) \ CycleOf(m), NEW k \in ReachableFrom(r) \cup {r}
          PROVE  \E j \in 1..(i - 1) : ran'[j] = [module |-> k, threw |-> FALSE]
      <4>1. PICK j \in 1..l : ran[j] = [module |-> k, threw |-> FALSE]
        BY <1>6, <3>5
      <4>2. ran'[j] = [module |-> k, threw |-> FALSE] /\ j \in 1..(i - 1)
        BY <1>3, <2>1, <3>1, <4>1
      <4> QED
        BY <4>2
    <3> QED
      BY <3>2, <3>4, <3>5
  <2>2. CASE i # l + 1
    <3>1. i \in 1..l /\ \A j \in 1..(i - 1) : j \in 1..l
      BY <1>3, <2>2
    <3>2. /\ \A j \in 1..(i - 1) : ran[j].module # ran[i].module
          /\ \A r \in ToSet(Requests(ran[i].module)) \ CycleOf(ran[i].module) :
               \A k \in ReachableFrom(r) \cup {r} :
                 \E j \in 1..(i - 1) : ran[j] = [module |-> k, threw |-> FALSE]
      BY <1>3, <3>1 DEF Strong, BodiesRunInOrder
    <3>3. ran'[i] = ran[i] /\ \A j \in 1..(i - 1) : ran'[j] = ran[j]
      BY <1>3, <3>1
    <3>4. \A j \in 1..(i - 1) : ran'[j].module # ran'[i].module
      BY <3>2, <3>3
    <3>5. ASSUME NEW r \in ToSet(Requests(ran[i].module)) \ CycleOf(ran[i].module),
                 NEW k \in ReachableFrom(r) \cup {r}
          PROVE  \E j \in 1..(i - 1) : ran'[j] = [module |-> k, threw |-> FALSE]
      <4>1. PICK j \in 1..(i - 1) : ran[j] = [module |-> k, threw |-> FALSE]
        BY <3>2
      <4> QED
        BY <3>3, <4>1
    <3> QED
      BY <3>3, <3>4, <3>5
  <2> QED
    BY <2>1, <2>2
<1>8. \A i \in DOMAIN ran' :
        /\ \A j \in 1..(i - 1) : ran'[j].module # ran'[i].module
        /\ \A r \in ToSet(Requests(ran[i].module)') \ CycleOf(ran[i].module)' :
             \A k \in ReachableFrom(r)' \cup {r} :
               \E j \in 1..(i - 1) : ran'[j] = [module |-> k, threw |-> FALSE]
  <2> TAKE i \in DOMAIN ran'
  <2>1. i \in 1..(l + 1)
    BY <1>3
  <2>2. Requests(ran[i].module)' = Requests(ran'[i].module)
    BY <1>4
  <2>3. CycleOf(ran[i].module)' = CycleOf(ran'[i].module)
    BY <1>4
  <2>4. \A r : ReachableFrom(r)' = ReachableFrom(r)
    BY <1>4
  <2> QED
    BY <1>7, <2>1, <2>2, <2>3, <2>4
<1> QED
  BY <1>8 DEF BodiesRunInOrder

\* A failed evaluation records an exception that each module on the stack leads to.
LEMMA FailEvaluateBodies ==
  ASSUME Strong, call # Idle, call.op = "evaluate", UNCHANGED records,
         NEW k \in Modules, Leads(Top.module, k), FailEvaluate(BodyError(k)),
         ran' \in Seq([module : Modules, threw : BOOLEAN]),
         ToSet(ran) \subseteq ToSet(ran'),
         ToSet(ran') \subseteq ToSet(ran) \cup {[module |-> Top.module, threw |-> TRUE]},
         [module |-> k, threw |-> TRUE] \in ToSet(ran')
  PROVE  RanIsKnown' /\ ErrorsAreReal'
<1> DEFINE Stack == ToSet(stack)
<1>1. /\ Top.module \in Modules /\ Top.module \in Stack
      /\ \A x \in Stack : x \in Modules /\ status[x] = EVALUATING /\ Leads(x, Top.module)
  BY TopOnStack, SearchFacts, AllLeadToTop DEF Strong, SearchInv
<1>2. \A x, y : Leads(x, y)' <=> Leads(x, y)
  BY SameRequests
<1>3. /\ frames' = <<>>
      /\ \A x \in Modules : /\ x \in Stack => status'[x] = EVALUATED_ERROR
                            /\ x \notin Stack => status'[x] = status[x]
      /\ \A x \in Modules : evaluationError'[x] = IF x \in Stack THEN BodyError(k)
                                                  ELSE evaluationError[x]
  BY <1>1, StatusesDiffer DEF FailEvaluate, Unwind
<1>4. \A x \in Modules : status[x] = EVALUATING => x \in Stack
  BY DEF Strong, IInv, InProgressIsStack
<1>5. \A x \in Modules : Executed(x)' => status[x] = EVALUATED /\ status'[x] = EVALUATED
  BY <1>3, <1>4, StatusOrder, StatusesDiffer DEF Executed
<1>6. \A x \in Modules : Executed(x) => Executed(x)' \/ status'[x] = EVALUATED_ERROR
  BY <1>3, <1>4, StatusesDiffer DEF Executed
<1>7. RanIsKnown'
  <2>1. ASSUME NEW x \in Modules, NEW threw \in BOOLEAN,
               [module |-> x, threw |-> threw] \in ToSet(ran')
        PROVE  Executed(x)' \/ status'[x] = EVALUATED_ERROR
    <3>1. CASE [module |-> x, threw |-> threw] \in ToSet(ran)
      <4>1. Executed(x) \/ status[x] = EVALUATED_ERROR
        BY <3>1 DEF Strong, RanIsKnown
      <4> QED
        BY <1>3, <1>6, <4>1
    <3>2. CASE x = Top.module
      BY <1>1, <1>3, <3>2
    <3> QED
      BY <2>1, <3>1, <3>2
  <2>2. \A x \in Modules : Executed(x)' => [module |-> x, threw |-> FALSE] \in ToSet(ran')
    BY <1>5 DEF Strong, RanIsKnown, Executed
  <2> QED
    BY <2>1, <2>2 DEF RanIsKnown
<1>8. ErrorsAreReal'
  <2>1. ASSUME NEW x \in Modules, status'[x] = EVALUATED_ERROR
        PROVE  \E y \in Modules : /\ Leads(x, y) /\ evaluationError'[x] = BodyError(y)
                                  /\ [module |-> y, threw |-> TRUE] \in ToSet(ran')
    <3>1. CASE x \in Stack
      <4>1. Leads(x, k)
        BY <1>1, <3>1, Leading DEF Strong, IInv, SearchTypes
      <4> QED
        BY <1>3, <3>1, <4>1
    <3>2. CASE x \notin Stack
      BY <1>3, <2>1, <3>2 DEF Strong, ErrorsAreReal, ErrorIsReal
    <3> QED
      BY <3>1, <3>2
  <2> QED
    BY <1>2, <2>1 DEF ErrorsAreReal, ErrorIsReal
<1> QED
  BY <1>7, <1>8

\* What is left of the activations when a module ends.
LEMMA CompleteActivations ==
  ASSUME IInv, call # Idle, NEW done, Complete(Top.module, done)
  PROVE  \A k : HasActivation(k)' <=>
           \E i \in DOMAIN frames : i < Len(frames) /\ frames[i].module = k
<1> DEFINE n == Len(frames)
           outer == Front(frames)
<1>1. /\ n \in Nat /\ n >= 1 /\ DOMAIN frames = 1..n /\ frames \in Seq(Frames)
  BY TopOnStack DEF IInv, SearchTypes
<1>2. /\ outer \in Seq(Frames) /\ DOMAIN outer = 1..(n - 1) /\ Len(outer) = n - 1
      /\ \A i \in 1..(n - 1) : outer[i] = frames[i]
  BY <1>1 DEF Front
<1>3. frames' = IF outer = <<>> THEN <<>> ELSE NextRequest(outer)
  BY DEF Complete
<1>4. DOMAIN frames' = 1..(n - 1) /\ \A i \in 1..(n - 1) : frames'[i].module = frames[i].module
  <2>1. CASE outer = <<>>
    <3>1. n - 1 = 0
      BY <1>2, <2>1
    <3>2. frames' = <<>> /\ DOMAIN frames' = {}
      BY <1>3, <2>1
    <3> HIDE DEF n
    <3>3. 1..(n - 1) = {}
      BY <1>1, <3>1
    <3> QED
      BY <3>2, <3>3
  <2>2. CASE outer # <<>>
    BY <1>2, <1>3, <2>2, NextRequestKeeps
  <2> QED
    BY <2>1, <2>2
<1>5. \A i : i \in 1..(n - 1) <=> i \in 1..n /\ i < n
  BY <1>1
<1> QED
  BY <1>1, <1>4, <1>5 DEF HasActivation

\* The body of a module has run: its component, whose bodies have all run, is
\* evaluated.
LEMMA CompleteBodies ==
  ASSUME Strong, call # Idle, call.op = "evaluate", UNCHANGED <<records, evaluationError>>,
         ran' = Append(ran, [module |-> Top.module, threw |-> FALSE]),
         Complete(Top.module, EVALUATED)
  PROVE  RanIsKnown' /\ ErrorsAreReal'
<1> SUFFICES ASSUME NEW m \in Modules, m = Top.module PROVE RanIsKnown' /\ ErrorsAreReal'
  BY TopOnStack DEF Strong
<1> DEFINE n == Len(frames)
           component == Component(m)
           Entry == [module : Modules, threw : BOOLEAN]
<1>1. /\ n \in Nat /\ n \in DOMAIN frames /\ DOMAIN frames = 1..n /\ m = frames[n].module
      /\ m \in Modules /\ m \in ToSet(stack)
  BY TopOnStack DEF Strong
<1>2. ran \in Seq(Entry) /\ [module |-> m, threw |-> FALSE] \in Entry
  BY DEF Strong, RanIsKnown
<1>3. /\ ran' \in Seq(Entry)
      /\ ToSet(ran') = ToSet(ran) \cup {[module |-> m, threw |-> FALSE]}
  <2> DEFINE e == [module |-> m, threw |-> FALSE]
  <2>1. ran' = Append(ran, e)
    OBVIOUS
  <2> HIDE DEF Entry, e
  <2>2. ran \in Seq(Entry) /\ e \in Entry
    BY <1>2 DEF e
  <2>3. ToSet(Append(ran, e)) = ToSet(ran) \cup {e}
    BY <2>2, AppendToSet
  <2>4. ran' \in Seq(Entry)
    BY <2>1, <2>2
  <2> QED
    BY <2>1, <2>3, <2>4 DEF e
<1>4. \A x \in Modules : status'[x] = IF x \in component THEN EVALUATED ELSE status[x]
  BY DEF Complete
<1>5. \A x : HasActivation(x) <=> HasActivation(x)' \/ x = m
  <2>1. \A x : HasActivation(x)' <=> \E i \in DOMAIN frames : i < n /\ frames[i].module = x
    BY CompleteActivations DEF Strong
  <2>2. \A i \in DOMAIN frames : i < n \/ i = n
    BY <1>1
  <2> QED
    BY <1>1, <2>1, <2>2 DEF HasActivation
<1>6. ~HasActivation(m)'
  <2>1. \A i \in DOMAIN frames : frames[i].module = m => i = n
    BY <1>1, SearchFacts DEF Strong
  <2> QED
    BY <1>1, <2>1, CompleteActivations DEF Strong
<1>7. \A x \in component : /\ x \in Modules /\ status[x] = EVALUATING
                           /\ x # m => ~HasActivation(x)
  <2> TAKE x \in component
  <2>1. dfsAncestorIndex[m] = dfsIndex[m]
    BY DEF Component
  <2>2. x \in ToSet(stack) /\ dfsIndex[m] <= dfsIndex[x]
    BY <1>1, <2>1, ComponentIsSuffix DEF Strong
  <2>3. x \in Modules /\ status[x] = EVALUATING /\ dfsIndex[x] \in Nat /\ dfsIndex[m] \in Nat
    BY <1>1, <2>2, TopOnStack, SearchFacts DEF Strong
  <2>4. ASSUME x # m, NEW i \in DOMAIN frames, frames[i].module = x PROVE FALSE
    <3>1. i < n
      BY <1>1, <2>4
    <3>2. dfsIndex[x] < dfsIndex[m]
      BY <1>1, <2>4, <3>1, SearchFacts DEF Strong
    <3> QED
      BY <2>2, <2>3, <3>2
  <2> QED
    BY <2>3, <2>4 DEF HasActivation
<1> HIDE DEF n, component
<1>8. ASSUME NEW x \in Modules PROVE Executed(x)' <=> Executed(x) \/ x = m
  <2>1. CASE x = m
    <3>1. status[m] = EVALUATING
      BY <1>1, TopOnStack, SearchFacts DEF Strong
    <3> QED
      BY <1>4, <1>6, <2>1, <3>1 DEF Executed
  <2>2. CASE x # m /\ x \in component
    BY <1>4, <1>7, <2>2 DEF Executed
  <2>3. CASE x # m /\ x \notin component
    BY <1>4, <1>5, <2>3 DEF Executed
  <2> QED
    BY <2>1, <2>2, <2>3
<1>9. RanIsKnown'
  <2>1. ASSUME NEW x \in Modules, NEW threw \in BOOLEAN,
               [module |-> x, threw |-> threw] \in ToSet(ran')
        PROVE  Executed(x)' \/ status'[x] = EVALUATED_ERROR
    <3>1. CASE [module |-> x, threw |-> threw] \in ToSet(ran)
      <4>1. Executed(x) \/ status[x] = EVALUATED_ERROR
        BY <3>1 DEF Strong, RanIsKnown
      <4>2. status[x] = EVALUATED_ERROR => status'[x] = EVALUATED_ERROR
        BY <1>4, <1>7, StatusesDiffer
      <4> QED
        BY <1>8, <4>1, <4>2
    <3>2. CASE x = m
      BY <1>8, <3>2
    <3> QED
      BY <1>3, <2>1, <3>1, <3>2
  <2>2. \A x \in Modules : Executed(x)' => [module |-> x, threw |-> FALSE] \in ToSet(ran')
    BY <1>3, <1>8 DEF Strong, RanIsKnown
  <2> QED
    BY <1>3, <2>1, <2>2 DEF RanIsKnown
<1>10. ErrorsAreReal'
  <2>1. \A x, y : Leads(x, y)' <=> Leads(x, y)
    BY SameRequests
  <2>2. \A x \in Modules : status'[x] = EVALUATED_ERROR => status[x] = EVALUATED_ERROR
    BY <1>4, StatusOrder
  <2> QED
    BY <1>3, <2>1, <2>2 DEF Strong, ErrorsAreReal, ErrorIsReal
<1> QED
  BY <1>9, <1>10

-----------------------------------------------------------------------------
(* The actions again, for all of it.                                       *)

\* While modules are linked none is being evaluated.
LEMMA LinkingExecutes ==
  ASSUME IInv, call.op # "evaluate" PROVE \A k \in Modules : status[k] # EVALUATING
<1>1. CASE call = Idle
  BY <1>1 DEF IInv, InProgressIsStack, ToSet
<1>2. CASE call # Idle
  <2>1. call.op = "link"
    BY <1>2, TopOnStack
  <2> QED
    BY <2>1, SearchFacts, StatusesDiffer DEF IInv, InProgressIsStack
<1> QED
  BY <1>1, <1>2

\* A module enters the search.
LEMMA EnterStrong ==
  ASSUME Strong, NEW m \in Modules, m \in loaded,
         call' \in Calls \ {Idle}, UNCHANGED <<tables, ran, evaluationError>>,
         call # Idle => call' = call /\ HasRequest /\ m = Requested,
         call = Idle => call'.module = m,
         status[m] = IF call'.op = "link" THEN UNLINKED ELSE LINKED,
         Enter(m, IF call'.op = "link" THEN LINKING ELSE EVALUATING)
  PROVE  Strong'
<1> DEFINE n == Len(frames)
           inProgress == IF call'.op = "link" THEN LINKING ELSE EVALUATING
<1>1. status[m] \notin InProgress
  BY StatusesDiffer DEF InProgress
<1>2. UNCHANGED <<records, loaded, ran, evaluationError>>
  BY DEF tables
<1>3. IInv'
  BY <1>1, <1>2, EnterIInv DEF Strong
<1>4. SearchInv'
  BY <1>2, EnterSearch DEF Strong
<1>5. \A k : HasActivation(k)' <=> HasActivation(k) \/ k = m
  <2>1. frames \in Seq(Frames) /\ [module |-> m, next |-> 1] \in Frames
        /\ frames' = Append(frames, [module |-> m, next |-> 1])
    BY DEF Strong, IInv, SearchTypes, Frames, Enter
  <2>2. /\ n \in Nat /\ DOMAIN frames = 1..n /\ DOMAIN frames' = 1..(n + 1)
        /\ \A i \in 1..n : frames'[i] = frames[i]
        /\ frames'[n + 1].module = m
    BY <2>1
  <2>3. \A i : i \in 1..(n + 1) <=> i \in 1..n \/ i = n + 1
    BY <2>2
  <2> QED
    BY <2>2, <2>3 DEF HasActivation
<1>6. status' = [status EXCEPT ![m] = inProgress] /\ status \in [Modules -> Statuses]
  BY DEF Enter, Strong, IInv, SearchTypes
<1>7. \A k \in Modules : /\ Executed(k)' <=> Executed(k)
                         /\ status'[k] = EVALUATED_ERROR <=> status[k] = EVALUATED_ERROR
  <2> TAKE k \in Modules
  <2>1. CASE k = m
    BY <1>5, <1>6, <2>1, StatusesDiffer, StatusOrder DEF Executed
  <2>2. CASE k # m
    BY <1>5, <1>6, <2>2 DEF Executed
  <2> QED
    BY <2>1, <2>2
<1> QED
  BY <1>2, <1>3, <1>4, <1>7, KeepBodies DEF Strong

\* A request for a module that was met before is passed.
LEMMA MeetStrong ==
  ASSUME Strong, call # Idle, HasRequest, UNCHANGED <<tables, call, ran, evaluationError>>,
         Settled(Requested) \/ Requested \in ToSet(stack),
         Meet(Requested, IF call.op = "link" THEN LINKING ELSE EVALUATING)
  PROVE  Strong'
<1>1. UNCHANGED <<records, loaded, call, ran, evaluationError, status>>
  BY DEF tables, Meet
<1>2. IInv'
  BY <1>1, RequestedIsModule, MeetIInv DEF Strong
<1>3. SearchInv'
  BY <1>1, MeetSearch DEF Strong
<1>4. \A k : HasActivation(k)' <=> HasActivation(k)
  <2>1. frames \in Seq(Frames) /\ frames # <<>> /\ frames' = NextRequest(frames)
    BY DEF Strong, IInv, SearchTypes, Indexed, Meet
  <2> QED
    BY <2>1, NextRequestKeeps DEF HasActivation
<1>5. \A k \in Modules : Executed(k)' <=> Executed(k)
  BY <1>1, <1>4 DEF Executed
<1> QED
  BY <1>1, <1>2, <1>3, <1>5, KeepBodies DEF Strong

\* A link fails, for whatever reason.
LEMMA FailLinkStrong ==
  ASSUME Strong, call # Idle, call.op = "link", NEW error, FailLink(error),
         UNCHANGED <<tables, ran, evaluationError>>
  PROVE  Strong'
<1>1. UNCHANGED <<records, loaded, ran, evaluationError>> /\ Unwind(Thrown(error))
  BY DEF tables, FailLink
<1>2. IInv'
  BY <1>1, FailLinkIInv DEF Strong
<1>3. \A k \in Modules : \/ status'[k] = status[k]
                         \/ status[k] = LINKING /\ status'[k] = UNLINKED
  BY DEF FailLink
<1>4. SearchInv'
  <2>1. \A k \in Modules : /\ status'[k] >= LINKED <=> status[k] >= LINKED
                           /\ status'[k] = EVALUATED <=> status[k] = EVALUATED
                           /\ status'[k] # UNLINKED => status[k] # UNLINKED
    BY <1>3, StatusOrder, StatusesDiffer
  <2> QED
    BY <1>1, <2>1, UnwindSearch DEF Strong, IInv, SearchTypes
<1>5. \A k \in Modules : /\ Executed(k)' <=> Executed(k)
                         /\ status'[k] = EVALUATED_ERROR <=> status[k] = EVALUATED_ERROR
  <2>1. \A k \in Modules : status[k] # EVALUATING /\ status'[k] # EVALUATING
    BY <1>3, LinkingExecutes, StatusesDiffer DEF Strong
  <2> QED
    BY <1>3, <2>1, StatusOrder, StatusesDiffer DEF Executed
<1> QED
  BY <1>1, <1>2, <1>4, <1>5, KeepBodies DEF Strong

\* An evaluation fails because a body throws, or has thrown before.
LEMMA FailEvaluateStrong ==
  ASSUME Strong, call # Idle, call.op = "evaluate", UNCHANGED tables,
         NEW k \in Modules, Leads(Top.module, k), FailEvaluate(BodyError(k)),
         ran' \in Seq([module : Modules, threw : BOOLEAN]),
         ToSet(ran) \subseteq ToSet(ran'),
         ToSet(ran') \subseteq ToSet(ran) \cup {[module |-> Top.module, threw |-> TRUE]},
         [module |-> k, threw |-> TRUE] \in ToSet(ran'),
         BodiesRunInOrder'
  PROVE  Strong'
<1>1. UNCHANGED <<records, loaded>> /\ Unwind(BodyError(k))
  BY DEF tables, FailEvaluate
<1>2. IInv'
  BY <1>1, FailEvaluateIInv DEF Strong
<1>3. \A x \in Modules : \/ status'[x] = status[x]
                         \/ status[x] = EVALUATING /\ status'[x] = EVALUATED_ERROR
  <2>1. \A x \in ToSet(stack) : status[x] = EVALUATING
    BY TopOnStack, SearchFacts DEF Strong
  <2> QED
    BY <2>1 DEF FailEvaluate
<1>4. SearchInv'
  <2>1. \A x \in Modules : /\ status'[x] >= LINKED <=> status[x] >= LINKED
                           /\ status'[x] = EVALUATED <=> status[x] = EVALUATED
                           /\ status'[x] # UNLINKED => status[x] # UNLINKED
    BY <1>3, StatusOrder, StatusesDiffer
  <2> QED
    BY <1>1, <2>1, UnwindSearch DEF Strong, IInv, SearchTypes
<1>5. RanIsKnown' /\ ErrorsAreReal'
  BY <1>1, FailEvaluateBodies
<1> QED
  BY <1>2, <1>4, <1>5 DEF Strong

\* A module is linked: its component is.
LEMMA CompleteLinkStrong ==
  ASSUME Strong, call # Idle, call.op = "link", ~HasRequest,
         UNCHANGED <<tables, ran, evaluationError>>, Complete(Top.module, LINKED)
  PROVE  Strong'
<1>1. UNCHANGED <<records, loaded, ran, evaluationError>>
  BY DEF tables
<1>2. IInv'
  BY <1>1, CompleteIInv DEF Strong
<1>3. SearchInv'
  BY CompleteSearch DEF Strong
<1>4. \A k \in Modules : \/ status'[k] = status[k]
                         \/ status[k] = LINKING /\ status'[k] = LINKED
  <2>1. \A x \in Component(Top.module) : x \in ToSet(stack)
    BY DEF Component, ToSet
  <2>2. \A x \in ToSet(stack) : status[x] = LINKING
    BY SearchFacts DEF Strong
  <2> QED
    BY <2>1, <2>2 DEF Complete
<1>5. \A k \in Modules : /\ Executed(k)' <=> Executed(k)
                         /\ status'[k] = EVALUATED_ERROR <=> status[k] = EVALUATED_ERROR
  <2>1. \A k \in Modules : status[k] # EVALUATING /\ status'[k] # EVALUATING
    BY <1>4, LinkingExecutes, StatusesDiffer DEF Strong
  <2> QED
    BY <1>4, <2>1, StatusOrder, StatusesDiffer DEF Executed
<1> QED
  BY <1>1, <1>2, <1>3, <1>5, KeepBodies DEF Strong

\* What leaves the search alone.
LEMMA QuietStrong ==
  ASSUME Strong, loaded \subseteq loaded',
         UNCHANGED <<records, status, dfsIndex, dfsAncestorIndex, call, frames, stack,
                     index, ran, evaluationError>>
  PROVE  Strong'
<1>1. \A k \in Modules : Executed(k)' <=> Executed(k)
  BY DEF Executed, HasActivation
<1> QED
  BY <1>1, QuietIInv, QuietSearch, KeepBodies DEF Strong

\* Linking meets a module that is settled or on the stack.
LEMMA LinkMeets ==
  ASSUME IInv, call.op = "link", NEW m \in Modules, status[m] # UNLINKED
  PROVE  Settled(m) \/ m \in ToSet(stack)
<1>1. status[m] \in Statuses
  BY DEF IInv, SearchTypes
<1>2. status[m] = LINKING \/ status[m] >= LINKED
  BY <1>1, StatusOrder DEF Statuses
<1> QED
  BY <1>2 DEF Settled, IInv, InProgressIsStack

\* So does evaluation, unless there is an error.
LEMMA EvaluateMeets ==
  ASSUME Strong, call.op = "evaluate", call # Idle, HasRequest,
         EvaluateRequestError(Requested) = NoError, status[Requested] # LINKED
  PROVE  Settled(Requested) \/ Requested \in ToSet(stack)
<1>1. /\ Requested \in Modules /\ HookError(Requested, LINKED) = "none"
      /\ status[Requested] >= LINKED /\ status[Requested] \in Statuses
  BY RequestsAreReady DEF Strong, IInv, SearchTypes
<1>2. status[Requested] # EVALUATED_ERROR
  <2> SUFFICES ASSUME status[Requested] = EVALUATED_ERROR PROVE FALSE
    OBVIOUS
  <2>1. evaluationError[Requested] = NoError
    BY <1>1 DEF EvaluateRequestError
  <2>2. PICK k \in Modules : evaluationError[Requested] = BodyError(k)
    BY <1>1 DEF Strong, ErrorsAreReal, ErrorIsReal
  <2> QED
    BY <2>1, <2>2, BodyErrorIsError
<1>3. status[Requested] \in {EVALUATING, EVALUATED}
  BY <1>1, <1>2, StatusOrder DEF Statuses
<1> QED
  BY <1>1, <1>3 DEF Settled, Strong, IInv, InProgressIsStack

\* An error of a request is that of a body the requesting module leads to.
LEMMA RequestErrorIsReal ==
  ASSUME Strong, call.op = "evaluate", call # Idle, HasRequest,
         EvaluateRequestError(Requested) # NoError
  PROVE  \E k \in Modules : /\ EvaluateRequestError(Requested) = BodyError(k)
                            /\ Leads(Top.module, k)
                            /\ [module |-> k, threw |-> TRUE] \in ToSet(ran)
<1>1. Requested \in Modules /\ HookError(Requested, LINKED) = "none"
  BY RequestsAreReady
<1>2. /\ status[Requested] = EVALUATED_ERROR
      /\ EvaluateRequestError(Requested) = evaluationError[Requested]
  BY <1>1 DEF EvaluateRequestError
<1>3. PICK k \in Modules : /\ Leads(Requested, k) /\ evaluationError[Requested] = BodyError(k)
                           /\ [module |-> k, threw |-> TRUE] \in ToSet(ran)
  BY <1>1, <1>2 DEF Strong, ErrorsAreReal, ErrorIsReal
<1>4. Leads(Top.module, k)
  BY <1>1, <1>3, TopOnStack, RequestedIsRequest, Leading DEF Strong, IInv, SearchTypes
<1> QED
  BY <1>2, <1>3, <1>4

\* A body has run and its module is evaluated, or waits for its component.
LEMMA CompleteEvaluateStrong ==
  ASSUME Strong, call # Idle, call.op = "evaluate", ~HasRequest,
         UNCHANGED <<tables, evaluationError>>,
         ran' = Append(ran, [module |-> Top.module, threw |-> FALSE]),
         Complete(Top.module, EVALUATED)
  PROVE  Strong'
<1>1. UNCHANGED <<records, loaded, evaluationError>> /\ call.op # "link"
  BY DEF tables
<1>2. IInv'
  BY <1>1, CompleteIInv DEF Strong
<1>3. SearchInv'
  BY <1>1, CompleteSearch DEF Strong
<1>4. RanIsKnown' /\ ErrorsAreReal'
  BY <1>1, CompleteBodies
<1>5. \A m \in Modules : status'[m] = EVALUATED => [module |-> m, threw |-> FALSE] \in ToSet(ran')
  BY <1>4 DEF RanIsKnown, Executed
<1>6. BodiesRunInOrder'
  BY <1>1, <1>5, NextBodyInOrder
<1> QED
  BY <1>2, <1>3, <1>4, <1>6 DEF Strong

\* A body has thrown: the evaluation fails with its exception.
LEMMA BodyThrowsStrong ==
  ASSUME Strong, call # Idle, call.op = "evaluate", ~HasRequest, UNCHANGED tables,
         ran' = Append(ran, [module |-> Top.module, threw |-> TRUE]),
         FailEvaluate(BodyError(Top.module))
  PROVE  Strong'
<1> DEFINE Entry == [module : Modules, threw : BOOLEAN]
<1>1. PICK k \in Modules : k = Top.module
  BY TopOnStack DEF Strong
<1>2. /\ ran' \in Seq(Entry)
      /\ ToSet(ran') = ToSet(ran) \cup {[module |-> k, threw |-> TRUE]}
  <2> DEFINE e == [module |-> k, threw |-> TRUE]
  <2>1. ran' = Append(ran, e) /\ ran \in Seq(Entry) /\ e \in Entry
    BY <1>1 DEF Strong, RanIsKnown
  <2> HIDE DEF Entry, e
  <2>2. ToSet(Append(ran, e)) = ToSet(ran) \cup {e} /\ Append(ran, e) \in Seq(Entry)
    BY <2>1, AppendToSet
  <2> QED
    BY <2>1, <2>2 DEF e
<1>3. Leads(Top.module, k)
  BY <1>1, Leading DEF Strong, IInv, SearchTypes
<1>4. UNCHANGED records
  BY DEF tables
<1>5. RanIsKnown' /\ ErrorsAreReal'
  BY <1>1, <1>2, <1>3, <1>4, FailEvaluateBodies
<1>6. \A m \in Modules : status'[m] = EVALUATED => [module |-> m, threw |-> FALSE] \in ToSet(ran')
  BY <1>5 DEF RanIsKnown, Executed
<1>7. BodiesRunInOrder'
  BY <1>4, <1>6, NextBodyInOrder
<1> QED
  BY <1>1, <1>2, <1>3, <1>7, FailEvaluateStrong

LEMMA NextStrong == Strong /\ [Next]_vars => Strong'
<1> SUFFICES ASSUME Strong, [Next]_vars PROVE Strong'
  OBVIOUS
<1>1. ASSUME NEW m \in Modules, Load(m) PROVE Strong'
  BY <1>1, QuietStrong DEF Load
<1>2. ASSUME NEW m \in Modules, ModuleInstantiate(m) PROVE Strong'
  <2>1. UNCHANGED <<tables, records, loaded, ran, evaluationError>> /\ call = Idle /\ m \in loaded
    BY <1>2 DEF ModuleInstantiate, tables
  <2>2. CASE status[m] = UNLINKED /\ call' = [op |-> "link", module |-> m] /\ Enter(m, LINKING)
    <3>1. call' \in Calls \ {Idle} /\ call'.op = "link" /\ call'.module = m
      BY <2>2 DEF Calls, Idle
    <3> QED
      BY <2>1, <2>2, <3>1, EnterStrong
  <2>3. CASE UNCHANGED <<status, dfsIndex, dfsAncestorIndex, search>>
    BY <2>1, <2>3, QuietStrong DEF search
  <2> QED
    BY <1>2, <2>2, <2>3 DEF ModuleInstantiate
<1>3. ASSUME NEW m \in Modules, ModuleEvaluate(m) PROVE Strong'
  <2>1. UNCHANGED <<tables, records, loaded, ran, evaluationError>> /\ call = Idle /\ m \in loaded
    BY <1>3 DEF ModuleEvaluate, tables
  <2>2. CASE status[m] = LINKED /\ call' = [op |-> "evaluate", module |-> m]
             /\ Enter(m, EVALUATING)
    <3>1. call' \in Calls \ {Idle} /\ call'.op # "link" /\ call'.module = m
      BY <2>2 DEF Calls, Idle
    <3> QED
      BY <2>1, <2>2, <3>1, EnterStrong
  <2>3. CASE UNCHANGED <<status, dfsIndex, dfsAncestorIndex, search>>
    BY <2>1, <2>3, QuietStrong DEF search
  <2> QED
    BY <1>3, <2>2, <2>3 DEF ModuleEvaluate
<1>4. CASE LinkRequest
  <2>1. /\ call # Idle /\ call.op = "link" /\ HasRequest /\ call \in Calls \ {Idle}
        /\ UNCHANGED <<tables, ran, evaluationError>>
    BY <1>4 DEF LinkRequest, Idle, Strong, IInv, SearchTypes
  <2>2. Requested \in Modules
    BY <2>1, RequestedIsModule DEF Strong
  <2>3. ASSUME NEW error, FailLink(error) PROVE Strong'
    BY <2>1, <2>3, FailLinkStrong
  <2>4. CASE /\ LinkRequestError(Requested) = "none" /\ status[Requested] = UNLINKED
             /\ Enter(Requested, LINKING) /\ UNCHANGED call
    <3>1. Requested \in loaded
      BY <2>4 DEF LinkRequestError, HookError
    <3>2. PICK m \in Modules : m = Requested
      BY <2>2
    <3>3. call' \in Calls \ {Idle} /\ call' = call /\ call'.op = "link"
      BY <2>1, <2>4
    <3> QED
      BY <2>1, <2>4, <3>1, <3>2, <3>3, EnterStrong
  <2>5. CASE status[Requested] # UNLINKED /\ Meet(Requested, LINKING) /\ UNCHANGED call
    <3>1. Settled(Requested) \/ Requested \in ToSet(stack)
      BY <2>1, <2>2, <2>5, LinkMeets DEF Strong
    <3> QED
      BY <2>1, <2>5, <3>1, MeetStrong
  <2> QED
    BY <1>4, <2>3, <2>4, <2>5 DEF LinkRequest
<1>5. CASE LinkFinish
  <2>1. /\ call # Idle /\ call.op = "link" /\ ~HasRequest
        /\ UNCHANGED <<tables, ran, evaluationError>>
    BY <1>5 DEF LinkFinish, Idle
  <2>2. ASSUME NEW error, FailLink(error) PROVE Strong'
    BY <2>1, <2>2, FailLinkStrong
  <2>3. CASE Complete(Top.module, LINKED)
    BY <2>1, <2>3, CompleteLinkStrong
  <2> QED
    BY <1>5, <2>2, <2>3 DEF LinkFinish
<1>6. CASE EvaluateRequest
  <2>1. /\ call # Idle /\ call.op = "evaluate" /\ HasRequest /\ call \in Calls \ {Idle}
        /\ UNCHANGED <<tables, records, ran>>
    BY <1>6 DEF EvaluateRequest, Idle, tables, Strong, IInv, SearchTypes
  <2>2. Requested \in Modules
    BY <2>1, RequestedIsModule DEF Strong
  <2>3. CASE /\ EvaluateRequestError(Requested) # NoError
             /\ FailEvaluate(EvaluateRequestError(Requested))
    <3>1. PICK k \in Modules : /\ EvaluateRequestError(Requested) = BodyError(k)
                               /\ Leads(Top.module, k)
                               /\ [module |-> k, threw |-> TRUE] \in ToSet(ran)
      BY <2>1, <2>3, RequestErrorIsReal
    <3>2. FailEvaluate(BodyError(k)) /\ ran' = ran
      BY <2>1, <2>3, <3>1
    <3>3. ran \in Seq([module : Modules, threw : BOOLEAN])
      BY DEF Strong, RanIsKnown
    <3>4. RanIsKnown' /\ ErrorsAreReal'
      BY <2>1, <3>1, <3>2, <3>3, FailEvaluateBodies
    <3>5. /\ \A x : Requests(x)' = Requests(x) /\ ReachableFrom(x)' = ReachableFrom(x)
          /\ \A x : CycleOf(x)' = CycleOf(x)
      BY <2>1, SameRequests DEF CycleOf
    <3>6. \A m \in Modules : status'[m] = EVALUATED =>
            [module |-> m, threw |-> FALSE] \in ToSet(ran)
      BY <3>2, <3>4 DEF RanIsKnown, Executed
    <3>7. BodiesRunInOrder'
      BY <3>2, <3>5, <3>6 DEF Strong, BodiesRunInOrder
    <3> QED
      BY <2>1, <3>1, <3>2, <3>3, <3>7, FailEvaluateStrong
  <2>4. CASE status[Requested] = LINKED /\ Enter(Requested, EVALUATING)
             /\ UNCHANGED <<evaluationError, call>>
    <3>1. Requested \in loaded
      BY <2>2, <2>4, StatusOrder DEF Strong, SearchInv, MetIsLoaded
    <3>2. PICK m \in Modules : m = Requested
      BY <2>2
    <3>3. call' \in Calls \ {Idle} /\ call' = call /\ call'.op # "link"
      BY <2>1, <2>4
    <3> QED
      BY <2>1, <2>4, <3>1, <3>2, <3>3, EnterStrong
  <2>5. CASE /\ EvaluateRequestError(Requested) = NoError /\ status[Requested] # LINKED
             /\ Meet(Requested, EVALUATING) /\ UNCHANGED <<evaluationError, call>>
    <3>1. Settled(Requested) \/ Requested \in ToSet(stack)
      BY <2>1, <2>5, EvaluateMeets
    <3> QED
      BY <2>1, <2>5, <3>1, MeetStrong
  <2> QED
    BY <1>6, <2>3, <2>4, <2>5 DEF EvaluateRequest
<1>7. CASE EvaluateFinish
  <2>1. call # Idle /\ call.op = "evaluate" /\ ~HasRequest /\ UNCHANGED tables
    BY <1>7 DEF EvaluateFinish, Idle
  <2>2. CASE /\ ran' = Append(ran, [module |-> Top.module, threw |-> FALSE])
             /\ Complete(Top.module, EVALUATED) /\ UNCHANGED evaluationError
    BY <2>1, <2>2, CompleteEvaluateStrong
  <2>3. CASE /\ ran' = Append(ran, [module |-> Top.module, threw |-> TRUE])
             /\ FailEvaluate(BodyError(Top.module))
    BY <2>1, <2>3, BodyThrowsStrong
  <2> QED
    BY <1>7, <2>2, <2>3 DEF EvaluateFinish
<1>8. CASE UNCHANGED vars
  BY <1>8, QuietStrong DEF vars
<1> QED
  BY <1>1, <1>2, <1>3, <1>4, <1>5, <1>6, <1>7, <1>8 DEF Next

LEMMA InitStrong == Init => Strong
<1> SUFFICES ASSUME Init PROVE Strong
  OBVIOUS
<1>1. IInv
  BY InitIInv
<1>2. /\ frames = <<>> /\ stack = <<>> /\ call = Idle /\ ran = <<>>
      /\ \A m \in Modules : status[m] = UNLINKED
  BY DEF Init
<1>3. ToSet(stack) = {} /\ DOMAIN frames = {} /\ ToSet(ran) = {} /\ DOMAIN ran = {}
  BY <1>2 DEF ToSet
<1>4. CalledFor /\ Connected /\ AncestorReached /\ RequestsKnown /\ MetIsLoaded
  BY <1>2, <1>3 DEF CalledFor, Connected, AncestorReached, RequestsKnown, MetIsLoaded
<1>5. SettledIsClosed
  BY <1>2, StatusOrder DEF SettledIsClosed
<1>6. RanIsKnown
  <2>1. ran \in Seq([module : Modules, threw : BOOLEAN])
    BY <1>2
  <2>2. \A m \in Modules : ~Executed(m)
    BY <1>2, StatusesDiffer, StatusOrder DEF Executed
  <2> QED
    BY <1>3, <2>1, <2>2 DEF RanIsKnown
<1>7. ErrorsAreReal
  BY <1>2, StatusOrder DEF ErrorsAreReal
<1>8. BodiesRunInOrder
  BY <1>2, <1>3, StatusOrder DEF BodiesRunInOrder
<1> QED
  BY <1>1, <1>4, <1>5, <1>6, <1>7, <1>8 DEF Strong, SearchInv

\* The strengthened invariant holds in every reachable state.
LEMMA AlwaysStrong == Spec => []Strong
BY InitStrong, NextStrong, PTL DEF Spec

-----------------------------------------------------------------------------
(* The properties.                                                         *)

\* Linking and evaluation never leave a finished module above an unfinished one:
\* whatever FailLink() resets and a failed evaluation marks, everything that a
\* linked module reaches is linked, and what an evaluated one reaches evaluated.
THEOREM FinishedStaysClosed == Spec => []FinishedIsClosed
<1>1. ASSUME Strong PROVE FinishedIsClosed
  <2> DEFINE L == {k \in Modules : status[k] >= LINKED}
             E == {k \in Modules : status[k] = EVALUATED}
  <2>1. \A m \in Modules : \A k \in ToSet(Requests(m)) : k \in Modules
    BY <1>1, Leading DEF Strong, IInv, SearchTypes
  <2>2. /\ \A x \in L : ToSet(Requests(x)) \subseteq L
        /\ \A x \in E : ToSet(Requests(x)) \subseteq E
    BY <1>1, <2>1 DEF Strong, SearchInv, SettledIsClosed
  <2>3. (\A x \in L : ReachableFrom(x) \subseteq L) /\ \A x \in E : ReachableFrom(x) \subseteq E
    <3>1. L \in SUBSET Modules /\ E \in SUBSET Modules /\ records \in [Modules -> Records]
      BY <1>1 DEF Strong, IInv, SearchTypes
    <3> HIDE DEF L, E
    <3> QED
      BY <2>2, <3>1, Reaching
  <2> QED
    BY <2>3 DEF FinishedIsClosed
<1> QED
  BY <1>1, AlwaysStrong, PTL

\* ExecuteModule() is called at most once for each module and only when all that
\* it needs has been executed without an exception, for every graph and every
\* sequence of calls, those after a failure included.
THEOREM BodiesRunOnceInOrder == Spec => []BodiesRunInOrder
<1>1. Strong => BodiesRunInOrder
  BY DEF Strong
<1> QED
  BY <1>1, AlwaysStrong, PTL

\* The modules that Complete() finishes are its component.
LEMMA CompleteFinishes ==
  ASSUME Strong, call # Idle, ~HasRequest, NEW done \in {LINKED, EVALUATED},
         Complete(Top.module, done)
  PROVE  LET D == {m \in Modules : /\ status[m] \in {LINKING, EVALUATING}
                                   /\ status'[m] \in {LINKED, EVALUATED}}
         IN  \A m \in D : D = CycleOf(m)
<1> DEFINE C == Component(Top.module)
           D == {m \in Modules : /\ status[m] \in {LINKING, EVALUATING}
                                 /\ status'[m] \in {LINKED, EVALUATED}}
<1>1. \A x \in C : x \in ToSet(stack)
  BY DEF Component, ToSet
<1>2. \A x \in C : x \in Modules /\ status[x] \in {LINKING, EVALUATING}
  BY <1>1 DEF Strong, IInv, InProgressIsStack
<1>3. \A x \in Modules : status'[x] = IF x \in C THEN done ELSE status[x]
  BY DEF Complete
<1>4. D = C
  BY <1>2, <1>3, StatusesDiffer, StatusOrder
<1>5. \A x \in C : C = CycleOf(x)
  BY ComponentIsCycle DEF Strong
<1> QED
  BY <1>4, <1>5

\* The searches of InnerModuleLinking() and InnerModuleEvaluation() take modules
\* off the stack exactly by strongly connected component, for every graph of
\* modules and whatever earlier calls, failed ones too, have left done.
THEOREM ComponentsFinishTogether == Spec => FinishByComponent
<1> DEFINE P == LET done == {m \in Modules : /\ status[m] \in {LINKING, EVALUATING}
                                             /\ status'[m] \in {LINKED, EVALUATED}}
                IN  \A m \in done : done = CycleOf(m)
<1>1. Strong /\ [Next]_vars => [P]_vars
  <2> SUFFICES ASSUME Strong, Next PROVE P
    OBVIOUS
  <2>1. CASE \A m \in Modules : status[m] \in {LINKING, EVALUATING} =>
               status'[m] \notin {LINKED, EVALUATED}
    BY <2>1
  <2>2. status \in [Modules -> Statuses]
    BY DEF Strong, IInv, SearchTypes
  <2>3. ASSUME NEW m \in Modules, NEW s \in {LINKING, EVALUATING}, Enter(m, s) PROVE P
    <3>1. \A x \in Modules : status'[x] = status[x] \/ status'[x] \in {LINKING, EVALUATING}
      BY <2>2, <2>3 DEF Enter
    <3> QED
      BY <2>1, <3>1, StatusesDiffer, StatusOrder
  <2>4. ASSUME UNCHANGED status PROVE P
    BY <2>1, <2>4, StatusesDiffer, StatusOrder
  <2>5. ASSUME NEW error, FailLink(error) PROVE P
    <3>1. \A x \in Modules : status'[x] = status[x] \/ status'[x] = UNLINKED
      BY <2>5 DEF FailLink
    <3> QED
      BY <2>1, <3>1, StatusesDiffer, StatusOrder
  <2>6. ASSUME NEW error, FailEvaluate(error) PROVE P
    <3>1. \A x \in Modules : status'[x] = status[x] \/ status'[x] = EVALUATED_ERROR
      BY <2>6 DEF FailEvaluate
    <3> QED
      BY <2>1, <3>1, StatusesDiffer, StatusOrder
  <2>7. ASSUME NEW m \in Modules, Load(m) \/ ModuleInstantiate(m) \/ ModuleEvaluate(m) PROVE P
    BY <2>3, <2>4, <2>7 DEF Load, ModuleInstantiate, ModuleEvaluate
  <2>8. CASE LinkRequest
    <3>1. Requested \in Modules
      BY <2>8, RequestedIsModule DEF LinkRequest, Idle, Strong
    <3> QED
      BY <2>3, <2>4, <2>5, <2>8, <3>1 DEF LinkRequest, Meet
  <2>9. CASE LinkFinish
    <3>1. call # Idle /\ ~HasRequest
      BY <2>9 DEF LinkFinish, Idle
    <3>2. CASE Complete(Top.module, LINKED)
      BY <3>1, <3>2, CompleteFinishes
    <3> QED
      BY <2>5, <2>9, <3>2 DEF LinkFinish
  <2>10. CASE EvaluateRequest
    <3>1. Requested \in Modules
      BY <2>10, RequestedIsModule DEF EvaluateRequest, Idle, Strong
    <3> QED
      BY <2>3, <2>4, <2>6, <2>10, <3>1 DEF EvaluateRequest, Meet
  <2>11. CASE EvaluateFinish
    <3>1. call # Idle /\ ~HasRequest
      BY <2>11 DEF EvaluateFinish, Idle
    <3>2. CASE Complete(Top.module, EVALUATED)
      BY <3>1, <3>2, CompleteFinishes
    <3> QED
      BY <2>6, <2>11, <3>2 DEF EvaluateFinish
  <2> QED
    BY <2>7, <2>8, <2>9, <2>10, <2>11 DEF Next
<1>2. Spec => [][P]_vars
  BY <1>1, AlwaysStrong, PTL DEF Spec
<1> QED
  BY <1>2, PTL DEF FinishByComponent

\* The module of a running call is in progress.
LEMMA CalledIsInProgress ==
  ASSUME Strong, call # Idle
  PROVE  call.module \in Modules => status[call.module] \in InProgress
<1>1. 1 \in DOMAIN frames
  BY TopOnStack, SearchFacts DEF Strong
<1>2. call.module \in ToSet(stack)
  BY <1>1, SearchFacts DEF Strong, SearchInv, CalledFor
<1> QED
  BY <1>2 DEF Strong, IInv, InProgressIsStack, InProgress

\* RecordModuleEvaluationError() is the last word on a module: what it records
\* is the exception of a body the module reaches, no later call changes it, and
\* every later evaluation of the module ends with it.
THEOREM ErrorsNeverChange == Spec => ErrorsStick
<1> DEFINE Evaluation(m) == [op |-> "evaluate", module |-> m]
           Kept(m) == /\ status'[m] = EVALUATED_ERROR
                      /\ evaluationError'[m] = evaluationError[m]
           Real(m) == \E k \in ReachableFrom(m) \cup {m} :
                        /\ evaluationError[m] = BodyError(k)
                        /\ [module |-> k, threw |-> TRUE] \in ToSet(ran)
           Answer(m) == (result' # result /\ result'.call = Evaluation(m))
                           => result'.error = evaluationError[m]
           P == \A m \in Modules : status[m] = EVALUATED_ERROR =>
                  /\ status'[m] = EVALUATED_ERROR
                  /\ evaluationError'[m] = evaluationError[m]
                  /\ \E k \in ReachableFrom(m) \cup {m} :
                       /\ evaluationError[m] = BodyError(k)
                       /\ [module |-> k, threw |-> TRUE] \in ToSet(ran)
                  /\ (result' # result /\ result'.call = [op |-> "evaluate", module |-> m])
                       => result'.error = evaluationError[m]
<1>1. Strong /\ [Next]_vars => [P]_vars
  <2> SUFFICES ASSUME Strong, Next, NEW m \in Modules, status[m] = EVALUATED_ERROR
               PROVE  Kept(m) /\ Real(m) /\ Answer(m)
    OBVIOUS
  <2>1. Real(m)
    BY DEF Strong, ErrorsAreReal, ErrorIsReal, Leads
  <2>2. /\ m \notin ToSet(stack) /\ status[m] \notin InProgress /\ status \in [Modules -> Statuses]
        /\ status[m] # UNLINKED /\ status[m] # LINKED
    BY StatusesDiffer, StatusOrder DEF Strong, IInv, SearchTypes, InProgressIsStack, InProgress
  <2>3. ASSUME call # Idle, result'.call = call PROVE Answer(m)
    BY <2>2, <2>3, CalledIsInProgress
  <2>4. ASSUME NEW x \in Modules, x # m, NEW s, Enter(x, s), UNCHANGED evaluationError
        PROVE  Kept(m)
    BY <2>2, <2>4 DEF Enter
  <2>5. ASSUME NEW error, FailLink(error), UNCHANGED evaluationError PROVE Kept(m)
    BY <2>2, <2>5 DEF FailLink
  <2>6. ASSUME NEW error, FailEvaluate(error) PROVE Kept(m)
    BY <2>2, <2>6 DEF FailEvaluate
  <2>7. ASSUME NEW s, Complete(Top.module, s), UNCHANGED evaluationError PROVE Kept(m)
    <3>1. m \notin Component(Top.module)
      BY <2>2 DEF Component, ToSet
    <3> QED
      BY <2>7, <3>1 DEF Complete
  <2>8. ASSUME UNCHANGED <<status, evaluationError>> PROVE Kept(m)
    BY <2>8
  <2>9. ASSUME NEW x \in Modules, Load(x) PROVE Kept(m) /\ Answer(m)
    <3>1. result'.call # Evaluation(m)
      BY <2>9 DEF Load, Idle
    <3> QED
      BY <2>8, <2>9, <3>1 DEF Load
  <2>10. ASSUME NEW x \in Modules, ModuleInstantiate(x) PROVE Kept(m) /\ Answer(m)
    <3>1. result' # result => result'.call # Evaluation(m)
      BY <2>10 DEF ModuleInstantiate
    <3> QED
      BY <2>2, <2>4, <2>8, <2>10, <3>1 DEF ModuleInstantiate
  <2>11. ASSUME NEW x \in Modules, ModuleEvaluate(x) PROVE Kept(m) /\ Answer(m)
    <3>1. CASE x = m
      <4>1. /\ result' = [call |-> Evaluation(m), error |-> evaluationError[m]]
            /\ UNCHANGED <<status, evaluationError>>
        BY <2>2, <2>11, <3>1, StatusOrder DEF ModuleEvaluate
      <4> QED
        BY <2>8, <4>1
    <3>2. CASE x # m
      <4>1. result' # result => result'.call # Evaluation(m)
        BY <2>11, <3>2 DEF ModuleEvaluate
      <4> QED
        BY <2>4, <2>8, <2>11, <3>2, <4>1 DEF ModuleEvaluate
    <3> QED
      BY <3>1, <3>2
  <2>12. CASE LinkRequest
    <3>1. call # Idle /\ Requested \in Modules
      BY <2>12, RequestedIsModule DEF LinkRequest, Idle, Strong
    <3>2. ASSUME NEW error, FailLink(error) PROVE Answer(m)
      BY <2>3, <3>1, <3>2 DEF FailLink, Unwind
    <3> QED
      BY <2>1, <2>2, <2>4, <2>5, <2>8, <2>12, <3>1, <3>2 DEF LinkRequest, Meet
  <2>13. CASE LinkFinish
    <3>1. call # Idle
      BY <2>13 DEF LinkFinish, Idle
    <3>2. ASSUME NEW error, FailLink(error) PROVE Answer(m)
      BY <2>3, <3>1, <3>2 DEF FailLink, Unwind
    <3>3. ASSUME Complete(Top.module, LINKED) PROVE Answer(m)
      BY <2>3, <3>1, <3>3 DEF Complete
    <3> QED
      BY <2>1, <2>5, <2>7, <2>13, <3>2, <3>3 DEF LinkFinish
  <2>14. CASE EvaluateRequest
    <3>1. call # Idle /\ Requested \in Modules
      BY <2>14, RequestedIsModule DEF EvaluateRequest, Idle, Strong
    <3>2. ASSUME NEW error, FailEvaluate(error) PROVE Answer(m)
      BY <2>3, <3>1, <3>2 DEF FailEvaluate, Unwind
    <3> QED
      BY <2>1, <2>2, <2>4, <2>6, <2>8, <2>14, <3>1, <3>2 DEF EvaluateRequest, Meet
  <2>15. CASE EvaluateFinish
    <3>1. call # Idle
      BY <2>15 DEF EvaluateFinish, Idle
    <3>2. ASSUME NEW error, FailEvaluate(error) PROVE Answer(m)
      BY <2>3, <3>1, <3>2 DEF FailEvaluate, Unwind
    <3>3. ASSUME Complete(Top.module, EVALUATED) PROVE Answer(m)
      BY <2>3, <3>1, <3>3 DEF Complete
    <3> QED
      BY <2>1, <2>6, <2>7, <2>15, <3>2, <3>3 DEF EvaluateFinish
  <2> QED
    BY <2>1, <2>9, <2>10, <2>11, <2>12, <2>13, <2>14, <2>15 DEF Next
<1>2. Spec => [][P]_vars
  BY <1>1, AlwaysStrong, PTL DEF Spec
<1> QED
  BY <1>2 DEF ErrorsStick

-----------------------------------------------------------------------------
(* Induction over the natural numbers, for a set: a theorem with a         *)
(* predicate as its parameter cannot be instantiated.                      *)

\* A set of numbers that holds 0 and every successor of a member holds all.
LEMMA AllNumbers ==
  ASSUME NEW T, 0 \in T, \A n \in Nat : n \in T => n + 1 \in T
  PROVE  \A n \in Nat : n \in T
<1> DEFINE less == {ss \in Nat \X Nat : ss[1] < ss[2]}
           rest == {n \in Nat : n \notin T}
<1> SUFFICES ASSUME rest # {} PROVE FALSE
  OBVIOUS
<1>1. IsWellFoundedOn(less, Nat)
  BY NatLessThanWellFounded DEF OpToRel
<1>2. \A x, y \in Nat : <<y, x>> \in less <=> y < x
  OBVIOUS
<1> HIDE DEF less
<1>3. PICK n \in rest : \A y \in rest : <<y, n>> \notin less
  <2>1. rest \subseteq Nat
    OBVIOUS
  <2> HIDE DEF rest
  <2> QED
    BY <1>1, <2>1, WFMin
<1>4. n \in Nat /\ n # 0
  BY <1>3
<1>5. n - 1 \in Nat /\ n - 1 < n /\ n - 1 + 1 = n
  BY <1>4
<1>6. n - 1 \notin T
  BY <1>3, <1>5
<1>7. n - 1 \in rest
  BY <1>5, <1>6
<1> QED
  BY <1>2, <1>3, <1>4, <1>5, <1>7

\* What is left of a set of numbers without the greatest.
LEMMA WithoutMax ==
  /\ \A j \in Nat : \A s \in SUBSET (1..(j + 1)) : s \ {Max(s)} \subseteq 1..j
  /\ \A i \in Nat \ {0} : Max(1..i) = i /\ (1..i) \ {i} = 1..(i - 1) /\ 1..i # {}
<1>1. ASSUME NEW j \in Nat, NEW s \in SUBSET (1..(j + 1)), j + 1 \in s
      PROVE  Max(s) = j + 1
  <2>1. \A y \in s : y \in Nat /\ j + 1 >= y
    OBVIOUS
  <2>2. \A x \in s : (\A y \in s : x >= y) => x = j + 1
    BY <1>1, <2>1
  <2> QED
    BY <1>1, <2>1, <2>2 DEF Max
<1>2. ASSUME NEW j \in Nat, NEW s \in SUBSET (1..(j + 1))
      PROVE  s \ {Max(s)} \subseteq 1..j
  <2> SUFFICES ASSUME NEW y \in s, y # Max(s) PROVE y \in 1..j
    OBVIOUS
  <2>1. y \in 1..(j + 1) /\ y # j + 1
    BY <1>1
  <2> QED
    BY <2>1
<1>3. ASSUME NEW i \in Nat \ {0} PROVE Max(1..i) = i /\ (1..i) \ {i} = 1..(i - 1) /\ 1..i # {}
  <2>1. i - 1 \in Nat /\ (i - 1) + 1 = i /\ i \in 1..i
    OBVIOUS
  <2>2. Max(1..((i - 1) + 1)) = (i - 1) + 1
    BY <1>1, <2>1
  <2>3. (1..i) \ {i} = 1..(i - 1)
    OBVIOUS
  <2> QED
    BY <2>1, <2>2, <2>3
<1> QED
  BY <1>2, <1>3

\* What a fold over star exports computes: one value after each of them.
LEMMA FoldStars ==
  ASSUME NEW allowed, NEW R, NEW name, NEW set, NEW seq \in Seq(Modules)
  PROVE  \E a : /\ a[0] = Outcome(Null, set)
                /\ \A i \in 1..Len(seq) : a[i] = VisitStar(allowed, R, name, a[i - 1], seq[i])
                /\ VisitStars(allowed, R, name, set, seq) = a[Len(seq)]
<1> DEFINE n == Len(seq)
           base == Outcome(Null, set)
           V(acc, from) == VisitStar(allowed, R, name, acc, from)
           Step(it, s) == IF s = {} THEN base ELSE V(it[s \ {Max(s)}], seq[Max(s)])
           fold == CHOOSE it : it = [s \in SUBSET DOMAIN seq |-> Step(it, s)]
<1>1. VisitStars(allowed, R, name, set, seq) = fold[DOMAIN seq]
  BY DEF VisitStars, FoldLeft, MapThenFoldSet
<1> HIDE DEF base
<1>2. DOMAIN seq = 1..n /\ n \in Nat
  OBVIOUS
<1> DEFINE Up(j) == \E it : \A s \in SUBSET (1..j) : it[s] = Step(it, s)
           T == {j \in Nat : Up(j)}
<1>3. Up(0)
  <2>1. \A s \in SUBSET (1..0) : s = {}
    OBVIOUS
  <2>2. [s \in {{}} |-> base][{}] = base
    OBVIOUS
  <2> QED
    BY <2>1, <2>2
<1>4. ASSUME NEW j \in Nat, Up(j) PROVE Up(j + 1)
  <2>1. PICK it : \A s \in SUBSET (1..j) : it[s] = Step(it, s)
    BY <1>4
  <2> DEFINE h == [s \in SUBSET (1..(j + 1)) |-> IF s \subseteq 1..j THEN it[s] ELSE Step(it, s)]
  <2>2. ASSUME NEW s \in SUBSET (1..(j + 1)) PROVE h[s] = Step(it, s)
    BY <2>1
  <2>3. ASSUME NEW s \in SUBSET (1..(j + 1)), s # {} PROVE h[s \ {Max(s)}] = it[s \ {Max(s)}]
    <3>1. s \ {Max(s)} \subseteq 1..j
      BY WithoutMax
    <3>2. s \ {Max(s)} \in SUBSET (1..(j + 1))
      OBVIOUS
    <3> QED
      BY <3>1, <3>2
  <2> HIDE DEF h, V
  <2>4. \A s \in SUBSET (1..(j + 1)) : h[s] = Step(h, s)
    BY <2>2, <2>3
  <2> QED
    BY <2>4
<1>5. Up(n)
  <2>1. \A j \in Nat : j \in T
    <3>1. 0 \in T
      BY <1>3
    <3>2. ASSUME NEW j \in Nat, j \in T PROVE j + 1 \in T
      <4>1. Up(j)
        BY <3>2
      <4>2. Up(j + 1)
        BY <1>4, <4>1
      <4> HIDE DEF Up
      <4> QED
        BY <4>2
    <3> HIDE DEF T
    <3> QED
      BY <3>1, <3>2, AllNumbers
  <2> QED
    BY <1>2, <2>1
<1>6. PICK it : \A s \in SUBSET DOMAIN seq : it[s] = Step(it, s)
  BY <1>2, <1>5
<1> DEFINE f == [s \in SUBSET DOMAIN seq |-> it[s]]
<1>7. f = [s \in SUBSET DOMAIN seq |-> Step(f, s)]
  <2> SUFFICES ASSUME NEW s \in SUBSET DOMAIN seq PROVE it[s] = Step(f, s)
    OBVIOUS
  <2>1. f[s \ {Max(s)}] = it[s \ {Max(s)}]
    OBVIOUS
  <2> HIDE DEF f, V
  <2> QED
    BY <1>6, <2>1
<1>8. fold = [s \in SUBSET DOMAIN seq |-> Step(fold, s)]
  <2> HIDE DEF f, V
  <2> QED
    BY <1>7
<1> HIDE DEF fold, f
<1> DEFINE a == [i \in 0..n |-> fold[1..i]]
<1>9. a[0] = base
  BY <1>2, <1>8
<1>10. ASSUME NEW i \in 1..n PROVE a[i] = V(a[i - 1], seq[i])
  <2>1. Max(1..i) = i /\ (1..i) \ {i} = 1..(i - 1) /\ 1..i # {}
    BY <1>2, WithoutMax
  <2>2. 1..i \in SUBSET DOMAIN seq /\ i \in 0..n /\ i - 1 \in 0..n
    BY <1>2
  <2> HIDE DEF V
  <2>3. fold[1..i] = V(fold[1..(i - 1)], seq[i])
    BY <1>8, <2>1, <2>2
  <2> QED
    BY <2>2, <2>3
<1>11. a[n] = fold[DOMAIN seq]
  BY <1>2
<1> HIDE DEF a
<1> QED
  BY <1>1, <1>9, <1>10, <1>11 DEF base

-----------------------------------------------------------------------------
(* Lemmas about the resolution of a name.                                  *)

Pairs == Modules \X Names

Queries == [module : Modules, name : Names, set : SUBSET Pairs]

PairOf(q) == <<q.module, q.name>>

\* The tables are of the right shape, and no module exports a name twice.
GoodTables ==
  /\ records \in [Modules -> Records]
  /\ \A m \in Modules : ExportsAreUnique(records[m])

\* The bindings at which pairs of S end.
Ends(S) == UNION {EndsAt(records, p) : p \in S}

\* A search that started with the pairs of S visited and stopped with those of T:
\* it has gone on from each new one, unless it has met two different bindings, and
\* `resolution' says what bindings there are at the new ones.
Finds(S, T, resolution) ==
  /\ S \subseteq T
  /\ \/ resolution = Ambiguous /\ \E b, c \in Ends(T \ S) : b # c
     \/ /\ \/ resolution = Null /\ Ends(T \ S) = {}
           \/ IsResolvedBinding(resolution) /\ Ends(T \ S) = {resolution}
        /\ \A p \in T \ S : LeadsTo(records, p) \subseteq T

\* What a call of resolveExport returns: it has visited its own pair, and nothing
\* that is not reached from it.
Answers(q, outcome) ==
  /\ outcome = Outcome(outcome.res, outcome.set)
  /\ PairOf(q) \in outcome.set
  /\ outcome.set \subseteq q.set \cup PairsFrom(records, PairOf(q))
  /\ Finds(q.set, outcome.set, outcome.res)

\* The three kinds of resolution differ.
LEMMA ResolutionsDiffer ==
  /\ Null # Ambiguous /\ ~IsResolvedBinding(Null) /\ ~IsResolvedBinding(Ambiguous)
  /\ \A m, n : IsResolvedBinding(Binding(m, n))
BY DEF Null, Ambiguous, IsResolvedBinding, Binding

\* Pairs end at bindings and lead to pairs.
LEMMA PairsLeadToPairs ==
  ASSUME GoodTables, NEW p \in Pairs
  PROVE  /\ LeadsTo(records, p) \subseteq Pairs
         /\ \A b \in EndsAt(records, p) : IsResolvedBinding(b)
         /\ EndsAt(records, p) # {} => LeadsTo(records, p) = {}
<1>1. PICK m \in Modules, n \in Names : p = <<m, n>>
  BY DEF Pairs
<1>2. records[m] \in Records /\ p[1] = m /\ p[2] = n
  BY <1>1 DEF GoodTables
<1>3. /\ \A s \in ToSet(records[m].stars) : s \in Modules
      /\ \A e \in ToSet(records[m].indirect) : e.from \in Modules /\ e.import \in Names \cup {Star}
  <2> DEFINE entries == [name : Names, from : Modules, import : Names \cup {Star}]
  <2>1. records[m].stars \in Seq(Modules) /\ records[m].indirect \in Seq(entries)
    BY <1>2 DEF Records
  <2>2. \A e \in entries : e.from \in Modules /\ e.import \in Names \cup {Star}
    OBVIOUS
  <2> HIDE DEF entries
  <2>3. \A e \in ToSet(records[m].indirect) : e \in entries
    BY <2>1, ElementOfSeq DEF ToSet
  <2>4. \A s \in ToSet(records[m].stars) : s \in Modules
    BY <2>1, ElementOfSeq DEF ToSet
  <2> QED
    BY <2>2, <2>3, <2>4
<1>4. \A b \in EndsAt(records, p) : IsResolvedBinding(b)
  BY ResolutionsDiffer DEF EndsAt
<1>5. ASSUME EndsAt(records, p) = {}, NEW e \in ToSet(records[m].indirect), e.name = n
      PROVE  e.import \in Names
  BY <1>2, <1>3, <1>5 DEF EndsAt
<1>6. ASSUME NEW r \in LeadsTo(records, p) PROVE r \in Pairs
  BY <1>2, <1>3, <1>5, <1>6 DEF LeadsTo, Pairs
<1> QED
  BY <1>4, <1>6 DEF LeadsTo

\* What is reached from a pair.
LEMMA PairsFromIsLeast ==
  ASSUME GoodTables, NEW p \in Pairs
  PROVE  /\ p \in PairsFrom(records, p) /\ PairsFrom(records, p) \subseteq Pairs
         /\ \A r \in PairsFrom(records, p) : LeadsTo(records, r) \subseteq PairsFrom(records, p)
         /\ \A T \in SUBSET Pairs : (p \in T /\ \A r \in T : LeadsTo(records, r) \subseteq T)
              => PairsFrom(records, p) \subseteq T
<1> DEFINE step == [r \in Modules \X Names |-> LeadsTo(records, r)]
<1>1. step \in [Pairs -> SUBSET Pairs]
  BY PairsLeadToPairs DEF Pairs
<1>2. \A r \in Pairs : step[r] = LeadsTo(records, r)
  BY DEF Pairs
<1>3. {p} \in SUBSET Pairs /\ PairsFrom(records, p) = Closure(step, {p})
  BY DEF PairsFrom
<1> HIDE DEF step
<1> DEFINE C == Closure(step, {p})
<1>4. /\ C \subseteq Pairs /\ {p} \subseteq C
      /\ \A x \in C : step[x] \subseteq C
      /\ \A T \in SUBSET Pairs : ({p} \subseteq T /\ \A x \in T : step[x] \subseteq T) => C \subseteq T
  BY <1>1, <1>3, ClosureIsLeast
<1> HIDE DEF C
<1>5. PairsFrom(records, p) = C
  BY <1>3 DEF C
<1> QED
  BY <1>2, <1>4, <1>5

LEMMA PairsFromNext ==
  ASSUME GoodTables, NEW p \in Pairs, NEW r \in LeadsTo(records, p)
  PROVE  r \in Pairs /\ PairsFrom(records, r) \subseteq PairsFrom(records, p)
<1>1. r \in Pairs
  BY PairsLeadToPairs
<1>2. r \in PairsFrom(records, p)
  BY PairsFromIsLeast
<1>3. PairsFrom(records, p) \in SUBSET Pairs
  BY PairsFromIsLeast
<1> QED
  BY <1>1, <1>2, <1>3, PairsFromIsLeast

\* The state of the loop over the star exports that has visited `set'.
LoopState(acc, set) ==
  \/ acc = Ended(Ambiguous, set)
  \/ acc = Outcome(acc.res, set) /\ acc.res # Ambiguous

LEMMA OutcomeFields ==
  ASSUME NEW resolution, NEW set
  PROVE  /\ Outcome(resolution, set).res = resolution /\ Outcome(resolution, set).set = set
         /\ ~Outcome(resolution, set).done
         /\ Ended(resolution, set).res = resolution /\ Ended(resolution, set).set = set
         /\ Ended(resolution, set).done
BY DEF Outcome, Ended

\* One search after another: what the second finds is merged with what the first has
\* found.
LEMMA MergeFinds ==
  ASSUME NEW S, NEW T, NEW U, NEW a, NEW b, Finds(S, T, a), a # Ambiguous, Finds(T, U, b),
         NEW m, m = MergeStar(Outcome(a, T), Outcome(b, U))
  PROVE  LoopState(m, U) /\ Finds(S, U, m.res)
<1> DEFINE acc == Outcome(a, T)
           sub == Outcome(b, U)
<1>0. acc.res = a /\ acc.set = T /\ sub.res = b /\ sub.set = U /\ m = MergeStar(acc, sub)
  BY OutcomeFields
<1> HIDE DEF acc, sub
<1>1. S \subseteq T /\ T \subseteq U /\ S \subseteq U
  BY DEF Finds
<1>2. Ends(U \ S) = Ends(T \ S) \cup Ends(U \ T)
  BY <1>1 DEF Ends
<1>3. (a = Null /\ Ends(T \ S) = {}) \/ (IsResolvedBinding(a) /\ Ends(T \ S) = {a})
  BY DEF Finds
<1> DEFINE Expanded == \A p \in U \ S : LeadsTo(records, p) \subseteq U
<1>4. b # Ambiguous => Expanded
  BY <1>1 DEF Finds
<1>5. CASE b = Ambiguous
  <2>1. b.kind = "ambiguous"
    BY <1>5 DEF Ambiguous
  <2>2. m = Ended(b, U) /\ m.res = b
    BY <1>0, <2>1, OutcomeFields DEF MergeStar
  <2>3. \E c, d \in Ends(U \ T) : c # d
    BY <1>5, ResolutionsDiffer DEF Finds
  <2> QED
    BY <1>1, <1>2, <1>5, <2>2, <2>3 DEF Finds, LoopState
<1>6. CASE b # Ambiguous /\ b = Null
  <2>1. b.kind = "null"
    BY <1>6 DEF Null
  <2>2. m = Outcome(a, U) /\ m.res = a
    BY <1>0, <1>6, <2>1, OutcomeFields DEF MergeStar
  <2>3. Ends(U \ T) = {}
    BY <1>6, ResolutionsDiffer DEF Finds
  <2>4. Finds(S, U, a)
    BY <1>1, <1>2, <1>3, <1>4, <1>6, <2>3 DEF Finds
  <2> QED
    BY <2>2, <2>4 DEF LoopState
<1>7. CASE b # Ambiguous /\ b # Null
  <2>1. IsResolvedBinding(b) /\ Ends(U \ T) = {b}
    BY <1>7 DEF Finds
  <2>2. b.kind = "binding"
    BY <2>1 DEF IsResolvedBinding
  <2>3. CASE a = Null \/ a = b
    <3>1. m = sub
      BY <1>0, <1>7, <2>2, <2>3 DEF MergeStar
    <3>2. Ends(U \ S) = {b}
      BY <1>2, <1>3, <2>1, <2>3, ResolutionsDiffer
    <3>3. Finds(S, U, b)
      BY <1>1, <1>4, <1>7, <2>1, <3>2 DEF Finds
    <3> QED
      BY <1>0, <1>7, <3>1, <3>3 DEF LoopState, sub
  <2>4. CASE a # Null /\ a # b
    <3>1. m = Ended(Ambiguous, U) /\ m.res = Ambiguous
      BY OutcomeFields, <1>0, <1>7, <2>2, <2>4 DEF MergeStar
    <3>2. Ends(U \ S) = {a, b}
      BY <1>2, <1>3, <2>1, <2>4
    <3>3. Finds(S, U, Ambiguous)
      BY <1>1, <2>4, <3>2 DEF Finds
    <3> QED
      BY <3>1, <3>3 DEF LoopState
  <2> QED
    BY <2>3, <2>4
<1> QED
  BY <1>5, <1>6, <1>7

\* The calls for which q, which has not been visited, may wait.
Later(q) == {c \in Queries : q.set \cup {PairOf(q)} \subseteq c.set}

\* The loop over the star exports of a module, entered with q's own pair visited.
LEMMA StarLoop ==
  ASSUME GoodTables, NEW R, NEW q \in Queries, PairOf(q) \notin q.set,
         \A c \in Later(q) : Answers(c, R[c]),
         NEW stars, stars = records[q.module].stars,
         LeadsTo(records, PairOf(q)) = {<<s, q.name>> : s \in ToSet(stars)},
         NEW set, set = q.set \cup {PairOf(q)},
         NEW a, a[0] = Outcome(Null, set),
         \A i \in 1..Len(stars) : a[i] = VisitStar(Modules, R, q.name, a[i - 1], stars[i])
  PROVE  \A i \in 0..Len(stars) :
           /\ LoopState(a[i], a[i].set)
           /\ a[i].set \subseteq q.set \cup PairsFrom(records, PairOf(q))
           /\ Finds(set, a[i].set, a[i].res)
           /\ a[i].res # Ambiguous => \A k \in 1..i : <<stars[k], q.name>> \in a[i].set
<1> DEFINE n == Len(stars)
           p == PairOf(q)
           L(i) == /\ LoopState(a[i], a[i].set)
                   /\ a[i].set \subseteq q.set \cup PairsFrom(records, PairOf(q))
                   /\ Finds(set, a[i].set, a[i].res)
                   /\ a[i].res # Ambiguous => \A k \in 1..i : <<stars[k], q.name>> \in a[i].set
<1>1. p \in Pairs /\ q.name \in Names /\ q.module \in Modules /\ q.set \in SUBSET Pairs
  BY DEF Queries, PairOf, Pairs
<1>2. stars \in Seq(Modules)
  BY <1>1 DEF GoodTables, Records
<1>3. n \in Nat /\ DOMAIN stars = 1..n
  BY <1>2
<1>4. L(0)
  <2>1. a[0] = Outcome(Null, set) /\ a[0].res = Null /\ a[0].set = set
    BY OutcomeFields
  <2>2. set \ set = {} /\ Ends({}) = {}
    BY DEF Ends
  <2>3. Finds(set, set, Null)
    BY <2>2 DEF Finds
  <2>4. p \in PairsFrom(records, p)
    BY <1>1, PairsFromIsLeast
  <2>5. LoopState(a[0], a[0].set)
    BY <2>1, ResolutionsDiffer DEF LoopState
  <2>6. \A k \in 1..0 : FALSE
    OBVIOUS
  <2> QED
    BY <2>1, <2>3, <2>4, <2>5, <2>6
<1>5. ASSUME NEW i \in 1..n, L(i - 1) PROVE L(i)
  <2> DEFINE s == stars[i]
             c == [module |-> s, name |-> q.name, set |-> a[i - 1].set]
             b == a[i - 1]
  <2>1. a[i] = VisitStar(Modules, R, q.name, b, s)
    OBVIOUS
  <2>2. CASE b.done
    <3>1. a[i] = b /\ b.res = Ambiguous
      BY <1>5, <2>1, <2>2, OutcomeFields DEF VisitStar, LoopState
    <3> QED
      BY <1>5, <3>1
  <2>3. CASE ~b.done
    <3>1. b.res # Ambiguous /\ b = Outcome(b.res, b.set)
      BY <1>5, <2>3, OutcomeFields DEF LoopState
    <3>2. s \in Modules /\ <<s, q.name>> \in LeadsTo(records, p)
      BY <1>2, <1>3, ElementOfSeq DEF ToSet
    <3>3. PairsFrom(records, p) \subseteq Pairs
      BY <1>1, PairsFromIsLeast
    <3>4. b.set \in SUBSET Pairs /\ set \subseteq b.set
      BY <1>1, <1>5, <3>3 DEF Finds
    <3>5. c \in Later(q) /\ c.set = b.set /\ PairOf(c) = <<s, q.name>>
      BY <1>1, <3>2, <3>4 DEF Later, Queries, PairOf
    <3>6. Answers(c, R[c])
      BY <3>5
    <3>7. CallResolve(Modules, R, s, q.name, b.set) = R[c]
      BY <3>2 DEF CallResolve
    <3>8. a[i] = MergeStar(b, R[c])
      BY <2>1, <2>3, <3>7 DEF VisitStar
    <3> DEFINE o == R[c]
    <3> HIDE DEF c, o, b
    <3>9. /\ o = Outcome(o.res, o.set) /\ PairOf(c) \in o.set
          /\ o.set \subseteq b.set \cup PairsFrom(records, PairOf(c))
          /\ Finds(b.set, o.set, o.res)
      BY <3>5, <3>6 DEF Answers, o
    <3>10. a[i] = MergeStar(Outcome(b.res, b.set), Outcome(o.res, o.set))
      BY <3>1, <3>8, <3>9 DEF o
    <3>11. /\ LoopState(a[i], o.set)
           /\ Finds(set, o.set, a[i].res)
      BY <1>5, <3>1, <3>9, <3>10, MergeFinds DEF b
    <3>12. a[i].set = o.set
      BY <3>11, OutcomeFields DEF LoopState
    <3>13. PairsFrom(records, PairOf(c)) \subseteq PairsFrom(records, p)
      BY <1>1, <3>2, <3>5, PairsFromNext
    <3>14. b.set \subseteq q.set \cup PairsFrom(records, PairOf(q)) /\ b.set \subseteq o.set
      BY <1>5, <3>9 DEF b, Finds
    <3>15. \A k \in 1..i : <<stars[k], q.name>> \in a[i].set
      <4>1. \A k \in 1..(i - 1) : <<stars[k], q.name>> \in b.set
        BY <1>5, <3>1 DEF b
      <4>2. <<stars[i], q.name>> \in o.set
        BY <3>5, <3>9
      <4> QED
        BY <1>3, <3>12, <3>14, <4>1, <4>2
    <3> QED
      BY <3>9, <3>11, <3>12, <3>13, <3>14, <3>15
  <2> QED
    BY <2>2, <2>3
<1> DEFINE T == {i \in Nat : i <= n => L(i)}
<1>6. \A i \in Nat : i \in T
  <2>1. 0 \in T
    BY <1>4
  <2>2. ASSUME NEW i \in Nat, i \in T PROVE i + 1 \in T
    <3>1. CASE i + 1 <= n
      <4>1. i + 1 \in 1..n /\ (i + 1) - 1 = i /\ i <= n
        BY <1>3, <3>1
      <4> HIDE DEF L
      <4>2. L(i)
        BY <2>2, <4>1
      <4>3. L(i + 1)
        BY <1>5, <4>1, <4>2
      <4> QED
        BY <4>3
    <3>2. CASE ~(i + 1 <= n)
      BY <3>2
    <3> QED
      BY <3>1, <3>2
  <2> HIDE DEF T
  <2> QED
    BY <2>1, <2>2, AllNumbers
<1>7. ASSUME NEW i \in 0..n PROVE L(i)
  <2> HIDE DEF L
  <2>1. i \in Nat /\ i <= n
    BY <1>3
  <2>2. i \in T
    BY <1>6, <2>1
  <2> QED
    BY <2>1, <2>2
<1> QED
  BY <1>7

\* The entries of a module that export a name.
LocalsNamed(m, n) == {e \in records[m].locals : e.name = n}
IndirectNamed(m, n) == {e \in ToSet(records[m].indirect) : e.name = n}

\* The bindings at which a pair ends and the pairs it leads to, by what the module's
\* tables say of the name.
LEMMA TablesOfPair ==
  ASSUME GoodTables, NEW m \in Modules, NEW n \in Names, NEW p, p = <<m, n>>
  PROVE  /\ \A e \in LocalsNamed(m, n) : /\ EndsAt(records, p) = {Binding(m, e.local)}
                             /\ LeadsTo(records, p) = {}
         /\ LocalsNamed(m, n) = {} => \A e \in IndirectNamed(m, n) :
              /\ e.from \in Modules
              /\ e.import = Star => /\ EndsAt(records, p) = {Binding(e.from, NamespaceName)}
                                    /\ LeadsTo(records, p) = {}
              /\ e.import # Star => /\ EndsAt(records, p) = {}
                                    /\ LeadsTo(records, p) = {<<e.from, e.import>>}
                                    /\ e.import \in Names
         /\ LocalsNamed(m, n) = {} /\ IndirectNamed(m, n) = {} =>
              /\ EndsAt(records, p) = {}
              /\ LeadsTo(records, p) = IF n = DefaultName THEN {}
                                       ELSE {<<s, n>> : s \in ToSet(records[m].stars)}
<1> DEFINE r == records[m]
           local == LocalsNamed(m, n)
           indirect == IndirectNamed(m, n)
           passed == {i \in ToSet(r.indirect) : i.name = n /\ i.import = Star}
<1>0. /\ local = {e \in r.locals : e.name = n}
      /\ indirect = {e \in ToSet(r.indirect) : e.name = n}
  BY DEF LocalsNamed, IndirectNamed
<1> HIDE DEF local, indirect
<1>1. r \in Records
  BY DEF GoodTables
<1>2. /\ \A e, f \in local : e = f
      /\ \A e, f \in indirect : e = f
      /\ \A e \in local, f \in indirect : e = f
  BY <1>0 DEF GoodTables, ExportsAreUnique
<1>3. \A e \in local, f \in indirect : FALSE
  <2> SUFFICES ASSUME NEW e \in local, NEW f \in indirect PROVE FALSE
    OBVIOUS
  <2> DEFINE entries == [name : Names, from : Modules, import : Names \cup {Star}]
  <2>1. r.indirect \in Seq(entries) /\ e \in [name : Names, local : Names]
    BY <1>0, <1>1 DEF Records
  <2>2. f \in entries
    <3> HIDE DEF entries, r
    <3> QED
      BY <1>0, <2>1, ElementOfSeq DEF ToSet, r
  <2>3. DOMAIN e = {"name", "local"} /\ DOMAIN f = {"name", "from", "import"}
    BY <2>1, <2>2
  <2> QED
    BY <1>2, <2>3
<1>4. \A e \in indirect : e.from \in Modules /\ e.import \in Names \cup {Star}
  <2> SUFFICES ASSUME NEW f \in indirect PROVE f.from \in Modules /\ f.import \in Names \cup {Star}
    OBVIOUS
  <2> DEFINE entries == [name : Names, from : Modules, import : Names \cup {Star}]
  <2>1. r.indirect \in Seq(entries)
    BY <1>0, <1>1 DEF Records
  <2>2. f \in entries
    <3> HIDE DEF entries, r
    <3> QED
      BY <1>0, <2>1, ElementOfSeq DEF ToSet, r
  <2> QED
    BY <2>2
<1>5. p[1] = m /\ p[2] = n
  OBVIOUS
<1>6. EndsAt(records, p) = {Binding(m, e.local) : e \in local}
                             \cup {Binding(e.from, NamespaceName) : e \in passed}
  BY <1>0, <1>5 DEF EndsAt
<1>7. passed = {e \in indirect : e.import = Star}
  BY <1>0
<1>8. LeadsTo(records, p) =
        IF EndsAt(records, p) # {} THEN {}
        ELSE IF indirect # {} THEN {<<e.from, e.import>> : e \in indirect}
        ELSE IF n = DefaultName THEN {}
        ELSE {<<s, n>> : s \in ToSet(r.stars)}
  BY <1>0, <1>5 DEF LeadsTo
<1> HIDE DEF passed, r
<1>9. ASSUME NEW e \in local
      PROVE  /\ EndsAt(records, p) = {Binding(m, e.local)}
             /\ LeadsTo(records, p) = {}
  <2>1. local = {e} /\ passed = {}
    BY <1>2, <1>3, <1>7
  <2>2. EndsAt(records, p) = {Binding(m, e.local)}
    BY <1>6, <2>1
  <2> QED
    BY <1>8, <2>2
<1>10. ASSUME local = {}, NEW e \in indirect
       PROVE  /\ e.from \in Modules
              /\ e.import = Star => /\ EndsAt(records, p) = {Binding(e.from, NamespaceName)}
                                    /\ LeadsTo(records, p) = {}
              /\ e.import # Star => /\ EndsAt(records, p) = {}
                                    /\ LeadsTo(records, p) = {<<e.from, e.import>>}
                                    /\ e.import \in Names
  <2>1. indirect = {e}
    BY <1>2
  <2>2. CASE e.import = Star
    <3>1. passed = {e}
      BY <1>7, <2>1, <2>2
    <3>2. EndsAt(records, p) = {Binding(e.from, NamespaceName)}
      BY <1>6, <1>10, <3>1
    <3> QED
      BY <1>4, <1>8, <2>2, <3>2
  <2>3. CASE e.import # Star
    <3>1. passed = {}
      BY <1>7, <2>1, <2>3
    <3>2. EndsAt(records, p) = {}
      BY <1>6, <1>10, <3>1
    <3>3. LeadsTo(records, p) = {<<e.from, e.import>>}
      BY <1>8, <2>1, <3>2
    <3> QED
      BY <1>4, <2>3, <3>2, <3>3
  <2> QED
    BY <2>2, <2>3
<1>11. ASSUME local = {}, indirect = {}
       PROVE  /\ EndsAt(records, p) = {}
              /\ LeadsTo(records, p) = IF n = DefaultName THEN {}
                                       ELSE {<<s, n>> : s \in ToSet(r.stars)}
  <2>1. EndsAt(records, p) = {}
    BY <1>6, <1>7, <1>11
  <2> QED
    BY <1>8, <1>11, <2>1
<1> QED
  BY <1>9, <1>10, <1>11 DEF r, local, indirect

\* A search that goes on from a pair at which nothing ends finds what its calls find.
LEMMA FindsFromPair ==
  ASSUME NEW S, NEW p, NEW T, NEW resolution, p \notin S,
         Finds(S \cup {p}, T, resolution), EndsAt(records, p) = {},
         resolution # Ambiguous => LeadsTo(records, p) \subseteq T
  PROVE  Finds(S, T, resolution)
<1>1. S \subseteq T /\ T \ S = (T \ (S \cup {p})) \cup {p}
  BY DEF Finds
<1>2. Ends(T \ S) = Ends(T \ (S \cup {p}))
  BY <1>1 DEF Ends
<1>3. CASE resolution = Ambiguous
  BY <1>1, <1>2, <1>3, ResolutionsDiffer DEF Finds
<1>4. CASE resolution # Ambiguous
  <2>1. \A r \in T \ (S \cup {p}) : LeadsTo(records, r) \subseteq T
    BY <1>4 DEF Finds
  <2>2. \A r \in T \ S : LeadsTo(records, r) \subseteq T
    BY <1>1, <1>4, <2>1
  <2>3. \/ resolution = Null /\ Ends(T \ S) = {}
        \/ IsResolvedBinding(resolution) /\ Ends(T \ S) = {resolution}
    BY <1>2, <1>4 DEF Finds
  <2> QED
    BY <1>1, <2>2, <2>3 DEF Finds
<1> QED
  BY <1>3, <1>4

\* A search that ends at a pair finds its binding, if there is one.
LEMMA FindsAtPair ==
  ASSUME NEW S, NEW p, p \notin S, LeadsTo(records, p) = {}, NEW resolution,
         \/ resolution = Null /\ EndsAt(records, p) = {}
         \/ IsResolvedBinding(resolution) /\ EndsAt(records, p) = {resolution}
  PROVE  Finds(S, S \cup {p}, resolution)
<1>1. (S \cup {p}) \ S = {p} /\ Ends({p}) = EndsAt(records, p)
  BY DEF Ends
<1> QED
  BY <1>1 DEF Finds

\* What one turn of resolveExport returns, if the calls it makes return what they
\* should.
LEMMA ResolutionAnswers ==
  ASSUME GoodTables, NEW R, NEW q \in Queries,
         PairOf(q) \notin q.set => \A c \in Later(q) : Answers(c, R[c])
  PROVE  Answers(q, Resolution(records, Modules, R, q))
<1> DEFINE m == q.module
           n == q.name
           p == PairOf(q)
           set == q.set \cup {p}
           local == LocalsNamed(m, n)
           indirect == IndirectNamed(m, n)
           out == Resolution(records, Modules, R, q)
<1>1. /\ m \in Modules /\ n \in Names /\ q.set \in SUBSET Pairs /\ p \in Pairs /\ p = <<m, n>>
      /\ set \in SUBSET Pairs
  BY DEF Queries, Pairs, PairOf
<1>2. p \in PairsFrom(records, p)
  BY <1>1, PairsFromIsLeast
<1>3. \A e \in local : /\ EndsAt(records, p) = {Binding(m, e.local)}
                       /\ LeadsTo(records, p) = {}
  BY <1>1, TablesOfPair
<1>4. local = {} => \A e \in indirect :
        /\ e.from \in Modules
        /\ e.import = Star => /\ EndsAt(records, p) = {Binding(e.from, NamespaceName)}
                              /\ LeadsTo(records, p) = {}
        /\ e.import # Star => /\ EndsAt(records, p) = {}
                              /\ LeadsTo(records, p) = {<<e.from, e.import>>}
                              /\ e.import \in Names
  BY <1>1, TablesOfPair
<1>5. local = {} /\ indirect = {} =>
        /\ EndsAt(records, p) = {}
        /\ LeadsTo(records, p) = IF n = DefaultName THEN {}
                                 ELSE {<<s, n>> : s \in ToSet(records[m].stars)}
  BY <1>1, TablesOfPair
<1> SUFFICES Answers(q, out)
  OBVIOUS
<1>6. CASE p \in q.set
  <2>1. out = Outcome(Null, q.set)
    BY <1>1, <1>6 DEF Resolution, LocalsNamed, IndirectNamed
  <2>2. q.set \ q.set = {} /\ Ends({}) = {}
    BY DEF Ends
  <2>3. Finds(q.set, q.set, Null)
    BY <2>2 DEF Finds
  <2> QED
    BY <1>6, <2>1, <2>3, OutcomeFields DEF Answers
<1>7. ASSUME p \notin q.set, NEW resolution, out = Outcome(resolution, set),
             LeadsTo(records, p) = {},
             \/ resolution = Null /\ EndsAt(records, p) = {}
             \/ IsResolvedBinding(resolution) /\ EndsAt(records, p) = {resolution}
      PROVE  Answers(q, out)
  <2>1. Finds(q.set, set, resolution)
    BY <1>7, FindsAtPair
  <2>2. out.res = resolution /\ out.set = set
    BY <1>7, OutcomeFields
  <2> QED
    BY <1>2, <1>7, <2>1, <2>2 DEF Answers
<1>8. CASE p \notin q.set /\ local # {}
  <2> DEFINE e == CHOOSE e \in local : TRUE
  <2>1. e \in local
    BY <1>8
  <2>2. out = Outcome(Binding(m, e.local), set)
    BY <1>1, <1>8 DEF Resolution, LocalsNamed, IndirectNamed, PairOf
  <2> HIDE DEF e, local, out
  <2> QED
    BY <1>3, <1>7, <1>8, <2>1, <2>2, ResolutionsDiffer
<1>9. CASE p \notin q.set /\ local = {} /\ indirect # {}
  <2> DEFINE e == CHOOSE e \in indirect : TRUE
  <2>1. e \in indirect
    BY <1>9
  <2>2. CASE e.import = Star
    <3>1. out = Outcome(IF e.from \in Modules THEN Binding(e.from, NamespaceName) ELSE HookThrew, set)
      BY <1>1, <1>9, <2>2 DEF Resolution, LocalsNamed, IndirectNamed, PairOf
    <3>2. e.from \in Modules /\ EndsAt(records, p) = {Binding(e.from, NamespaceName)}
                             /\ LeadsTo(records, p) = {}
      <4> HIDE DEF e, local, indirect
      <4> QED
        BY <1>4, <1>9, <2>1, <2>2
    <3> HIDE DEF e, local, indirect, out
    <3> QED
      BY <1>7, <1>9, <3>1, <3>2, ResolutionsDiffer
  <2>3. CASE e.import # Star
    <3> DEFINE c == [module |-> e.from, name |-> e.import, set |-> set]
    <3>1. out = CallResolve(Modules, R, e.from, e.import, set)
      BY <1>1, <1>9, <2>3 DEF Resolution, LocalsNamed, IndirectNamed, PairOf
    <3>2. /\ e.from \in Modules /\ e.import \in Names
          /\ EndsAt(records, p) = {} /\ LeadsTo(records, p) = {<<e.from, e.import>>}
      <4> HIDE DEF e, local, indirect
      <4> QED
        BY <1>4, <1>9, <2>1, <2>3
    <3>3. out = R[c]
      BY <3>1, <3>2 DEF CallResolve
    <3>4. c \in Later(q) /\ c.set = set /\ PairOf(c) = <<e.from, e.import>>
      <4> HIDE DEF e
      <4> QED
        BY <1>1, <3>2 DEF Later, Queries, PairOf
    <3> HIDE DEF c, out, e
    <3>5. Answers(c, out)
      BY <1>9, <3>3, <3>4
    <3>6. /\ out = Outcome(out.res, out.set) /\ PairOf(c) \in out.set
          /\ out.set \subseteq set \cup PairsFrom(records, PairOf(c))
          /\ Finds(set, out.set, out.res)
      BY <3>4, <3>5 DEF Answers
    <3>7. PairsFrom(records, PairOf(c)) \subseteq PairsFrom(records, p)
      BY <1>1, <3>2, <3>4, PairsFromNext
    <3>8. LeadsTo(records, p) \subseteq out.set
      BY <3>2, <3>4, <3>6
    <3>9. Finds(q.set, out.set, out.res)
      BY <1>9, <3>2, <3>6, <3>8, FindsFromPair
    <3>10. p \in out.set
      BY <3>6 DEF Finds
    <3> QED
      BY <1>2, <3>6, <3>7, <3>9, <3>10 DEF Answers
  <2> QED
    BY <2>2, <2>3
<1>10. CASE p \notin q.set /\ local = {} /\ indirect = {} /\ n = DefaultName
  <2>1. out = Outcome(Null, set)
    BY <1>1, <1>10 DEF Resolution, LocalsNamed, IndirectNamed, PairOf
  <2> HIDE DEF out, local, indirect
  <2> QED
    BY <1>5, <1>7, <1>10, <2>1
<1>11. CASE p \notin q.set /\ local = {} /\ indirect = {} /\ n # DefaultName
  <2> DEFINE stars == records[m].stars
             last == VisitStars(Modules, R, n, set, stars)
  <2>1. out = Outcome(last.res, last.set)
    BY <1>1, <1>11 DEF Resolution, LocalsNamed, IndirectNamed, PairOf
  <2>2. EndsAt(records, p) = {} /\ LeadsTo(records, p) = {<<s, n>> : s \in ToSet(stars)}
    <3> HIDE DEF local, indirect
    <3> QED
      BY <1>5, <1>11
  <2>3. stars \in Seq(Modules)
    BY <1>1 DEF GoodTables, Records
  <2>4. PICK a : /\ a[0] = Outcome(Null, set)
                 /\ \A i \in 1..Len(stars) : a[i] = VisitStar(Modules, R, n, a[i - 1], stars[i])
                 /\ last = a[Len(stars)]
    <3>1. \E a : /\ a[0] = Outcome(Null, set)
                 /\ \A i \in 1..Len(stars) : a[i] = VisitStar(Modules, R, n, a[i - 1], stars[i])
                 /\ VisitStars(Modules, R, n, set, stars) = a[Len(stars)]
      <4> HIDE DEF n, set, stars, last, local, indirect, out
      <4> QED
        BY <2>3, FoldStars
    <3> HIDE DEF n, set, stars, local, indirect, out
    <3> QED
      BY <3>1
  <2> HIDE DEF last, local, indirect, out
  <2>5. \A i \in 0..Len(stars) :
          /\ LoopState(a[i], a[i].set)
          /\ a[i].set \subseteq q.set \cup PairsFrom(records, p)
          /\ Finds(set, a[i].set, a[i].res)
          /\ a[i].res # Ambiguous => \A k \in 1..i : <<stars[k], n>> \in a[i].set
    BY <1>11, <2>2, <2>4, StarLoop
  <2>6. Len(stars) \in Nat /\ DOMAIN stars = 1..Len(stars)
    BY <2>3
  <2>7. /\ last.set \subseteq q.set \cup PairsFrom(records, p)
        /\ Finds(set, last.set, last.res)
        /\ last.res # Ambiguous => \A k \in 1..Len(stars) : <<stars[k], n>> \in last.set
    <3>1. Len(stars) \in 0..Len(stars)
      BY <2>6
    <3> HIDE DEF stars, set, p
    <3> QED
      BY <2>4, <2>5, <3>1
  <2>8. last.res # Ambiguous => LeadsTo(records, p) \subseteq last.set
    BY <2>2, <2>6, <2>7 DEF ToSet
  <2>9. Finds(q.set, last.set, last.res)
    BY <1>11, <2>2, <2>7, <2>8, FindsFromPair
  <2>10. p \in last.set
    BY <2>7 DEF Finds
  <2>11. out.res = last.res /\ out.set = last.set
    BY <2>1, OutcomeFields
  <2> QED
    BY <2>1, <2>7, <2>9, <2>10, <2>11 DEF Answers
<1> QED
  BY <1>6, <1>8, <1>9, <1>10, <1>11

\* The values of the loop over the star exports of q's module, and what they hold.
LoopValues(R, q, a) ==
  /\ a[0] = Outcome(Null, q.set \cup {PairOf(q)})
  /\ \A i \in 1..Len(records[q.module].stars) :
       a[i] = VisitStar(Modules, R, q.name, a[i - 1], records[q.module].stars[i])

LoopGrows(q, a) ==
  \A i \in 0..Len(records[q.module].stars) :
    /\ a[i].set \subseteq q.set \cup PairsFrom(records, PairOf(q))
    /\ q.set \cup {PairOf(q)} \subseteq a[i].set

Expects(R, q) == \A c \in Later(q) : Answers(c, R[c])

\* The loop over the star exports visits what is reached from q's pair.
LEMMA StarLoopGrows ==
  ASSUME GoodTables, NEW R, NEW q \in Queries, PairOf(q) \notin q.set, Expects(R, q),
         LeadsTo(records, PairOf(q)) = {<<s, q.name>> : s \in ToSet(records[q.module].stars)},
         NEW a, LoopValues(R, q, a)
  PROVE  LoopGrows(q, a)
<1> DEFINE stars == records[q.module].stars
           set == q.set \cup {PairOf(q)}
<1>1. /\ LeadsTo(records, PairOf(q)) = {<<s, q.name>> : s \in ToSet(stars)}
      /\ a[0] = Outcome(Null, set)
      /\ \A i \in 1..Len(stars) : a[i] = VisitStar(Modules, R, q.name, a[i - 1], stars[i])
      /\ \A c \in Later(q) : Answers(c, R[c])
  BY DEF LoopValues, Expects
<1>2. \A i \in 0..Len(stars) :
        /\ LoopState(a[i], a[i].set)
        /\ a[i].set \subseteq q.set \cup PairsFrom(records, PairOf(q))
        /\ Finds(set, a[i].set, a[i].res)
        /\ a[i].res # Ambiguous => \A k \in 1..i : <<stars[k], q.name>> \in a[i].set
  BY <1>1, StarLoop
<1> QED
  BY <1>2 DEF LoopGrows, Finds

\* resolveExport depends on its recursive calls only for pairs not visited yet.
LEMMA ResolutionDepends ==
  ASSUME GoodTables, NEW R, NEW Q, NEW q \in Queries,
         PairOf(q) \notin q.set => Expects(R, q),
         PairOf(q) \notin q.set => \A c \in Later(q) : Q[c] = R[c]
  PROVE  Resolution(records, Modules, Q, q) = Resolution(records, Modules, R, q)
<1> DEFINE m == q.module
           n == q.name
           p == PairOf(q)
           set == q.set \cup {p}
           local == LocalsNamed(m, n)
           indirect == IndirectNamed(m, n)
<1>1. /\ m \in Modules /\ n \in Names /\ q.set \in SUBSET Pairs /\ p \in Pairs /\ p = <<m, n>>
      /\ set \in SUBSET Pairs
  BY DEF Queries, Pairs, PairOf
<1>2. CASE p \in q.set \/ local # {} \/ (indirect = {} /\ n = DefaultName)
  BY <1>1, <1>2 DEF Resolution, LocalsNamed, IndirectNamed
<1>3. CASE p \notin q.set /\ local = {} /\ indirect # {}
  <2> DEFINE e == CHOOSE i \in indirect : TRUE
  <2>1. CASE e.import = Star
    BY <1>1, <1>3, <2>1 DEF Resolution, LocalsNamed, IndirectNamed
  <2>2. CASE e.import # Star
    <3> DEFINE c == [module |-> e.from, name |-> e.import, set |-> set]
    <3>1. /\ Resolution(records, Modules, R, q) = CallResolve(Modules, R, e.from, e.import, set)
          /\ Resolution(records, Modules, Q, q) = CallResolve(Modules, Q, e.from, e.import, set)
      BY <1>1, <1>3, <2>2 DEF Resolution, LocalsNamed, IndirectNamed
    <3>2. e \in indirect
      BY <1>3
    <3> HIDE DEF e
    <3>3. e.from \in Modules /\ e.import \in Names
      BY <1>1, <1>3, <2>2, <3>2, TablesOfPair
    <3>4. c \in Later(q)
      BY <1>1, <3>3 DEF Later, Queries
    <3> HIDE DEF c
    <3>5. Q[c] = R[c]
      BY <1>3, <3>4
    <3> QED
      BY <3>1, <3>3, <3>5 DEF CallResolve, c
  <2> QED
    BY <2>1, <2>2
<1>4. CASE p \notin q.set /\ local = {} /\ indirect = {} /\ n # DefaultName
  <2> DEFINE stars == records[m].stars
             lastR == VisitStars(Modules, R, n, set, stars)
             lastQ == VisitStars(Modules, Q, n, set, stars)
  <2>1. /\ Resolution(records, Modules, R, q) = Outcome(lastR.res, lastR.set)
        /\ Resolution(records, Modules, Q, q) = Outcome(lastQ.res, lastQ.set)
    BY <1>1, <1>4 DEF Resolution, LocalsNamed, IndirectNamed
  <2>2. LeadsTo(records, p) = {<<s, n>> : s \in ToSet(stars)}
    BY <1>1, <1>4, TablesOfPair
  <2>3. stars \in Seq(Modules)
    BY <1>1 DEF GoodTables, Records
  <2>0. ASSUME NEW X
        PROVE  \E a : /\ a[0] = Outcome(Null, set)
                      /\ \A i \in 1..Len(stars) : a[i] = VisitStar(Modules, X, n, a[i - 1], stars[i])
                      /\ VisitStars(Modules, X, n, set, stars) = a[Len(stars)]
    <3> HIDE DEF n, set, stars, lastR, lastQ, local, indirect
    <3> QED
      BY <2>3, FoldStars
  <2>4. PICK a : /\ a[0] = Outcome(Null, set)
                 /\ \A i \in 1..Len(stars) : a[i] = VisitStar(Modules, R, n, a[i - 1], stars[i])
                 /\ lastR = a[Len(stars)]
    <3> HIDE DEF n, set, stars
    <3> QED
      BY <2>0
  <2>5. PICK b : /\ b[0] = Outcome(Null, set)
                 /\ \A i \in 1..Len(stars) : b[i] = VisitStar(Modules, Q, n, b[i - 1], stars[i])
                 /\ lastQ = b[Len(stars)]
    <3> HIDE DEF n, set, stars
    <3> QED
      BY <2>0
  <2> HIDE DEF lastR, lastQ, local, indirect
  <2>6. LoopValues(R, q, a)
    BY <2>4 DEF LoopValues
  <2>7. LoopGrows(q, a)
    BY <1>4, <2>2, <2>6, StarLoopGrows
  <2>8. Len(stars) \in Nat /\ DOMAIN stars = 1..Len(stars)
    BY <2>3
  <2> DEFINE T == {i \in Nat : i <= Len(stars) => b[i] = a[i]}
  <2>9. 0 \in T
    BY <2>4, <2>5
  <2>10. ASSUME NEW i \in Nat, i \in T PROVE i + 1 \in T
    <3> SUFFICES ASSUME i + 1 <= Len(stars) PROVE b[i + 1] = a[i + 1]
      OBVIOUS
    <3> DEFINE s == stars[i + 1]
               c == [module |-> s, name |-> n, set |-> a[i].set]
    <3>1. i + 1 \in 1..Len(stars) /\ i \in 0..Len(stars) /\ (i + 1) - 1 = i
      BY <2>8
    <3>2. b[i] = a[i]
      BY <2>8, <2>10
    <3>3. a[i + 1] = VisitStar(Modules, R, n, a[i], s) /\ b[i + 1] = VisitStar(Modules, Q, n, a[i], s)
      BY <2>4, <2>5, <3>1, <3>2
    <3>4. s \in Modules
      BY <2>3, <2>8, <3>1, ElementOfSeq
    <3>5. a[i].set \in SUBSET Pairs /\ set \subseteq a[i].set
      <4>1. PairsFrom(records, p) \subseteq Pairs
        BY <1>1, PairsFromIsLeast
      <4> QED
        BY <1>1, <2>7, <3>1, <4>1 DEF LoopGrows
    <3>6. c \in Later(q)
      BY <1>1, <3>4, <3>5 DEF Later, Queries
    <3>7. Q[c] = R[c]
      BY <1>4, <3>6
    <3>8. CallResolve(Modules, R, s, n, a[i].set) = CallResolve(Modules, Q, s, n, a[i].set)
      BY <3>7 DEF CallResolve
    <3> QED
      BY <3>3, <3>8 DEF VisitStar
  <2>11. \A i \in Nat : i \in T
    <3> HIDE DEF T
    <3> QED
      BY <2>9, <2>10, AllNumbers
  <2>12. lastQ = lastR
    <3>1. Len(stars) \in T
      BY <2>8, <2>11
    <3> QED
      BY <2>4, <2>5, <2>8, <3>1
  <2> QED
    BY <2>1, <2>12
<1> QED
  BY <1>2, <1>3, <1>4

\* The queries that fewer than k pairs are left to.
Upto(k) == {q \in Queries : Cardinality(Pairs \ q.set) < k}

LEMMA PairsAreFinite ==
  /\ IsFiniteSet(Pairs)
  /\ \A q \in Queries : Cardinality(Pairs \ q.set) \in Nat
  /\ \A q \in Queries : \A c \in Later(q) : PairOf(q) \notin q.set =>
       Cardinality(Pairs \ c.set) < Cardinality(Pairs \ q.set)
<1>1. IsFiniteSet(Pairs)
  BY FiniteAssumption, FS_Product DEF Pairs
<1>2. ASSUME NEW q \in Queries PROVE IsFiniteSet(Pairs \ q.set)
  BY <1>1, FS_Subset, Pairs \ q.set \subseteq Pairs
<1>3. ASSUME NEW q \in Queries, NEW c \in Later(q), PairOf(q) \notin q.set
      PROVE  Cardinality(Pairs \ c.set) < Cardinality(Pairs \ q.set)
  <2> DEFINE left == Pairs \ q.set
             less == Pairs \ c.set
  <2>1. PairOf(q) \in left /\ less \subseteq left \ {PairOf(q)}
    BY <1>3 DEF Later, Queries, Pairs, PairOf
  <2>2. IsFiniteSet(left)
    BY <1>2
  <2> HIDE DEF left, less
  <2>3. IsFiniteSet(left \ {PairOf(q)}) /\ Cardinality(left \ {PairOf(q)}) = Cardinality(left) - 1
    BY <2>1, <2>2, FS_RemoveElement
  <2>4. Cardinality(less) <= Cardinality(left \ {PairOf(q)}) /\ IsFiniteSet(less)
    BY <2>1, <2>3, FS_Subset
  <2>5. Cardinality(less) \in Nat /\ Cardinality(left) \in Nat
    BY <2>2, <2>4, FS_CardinalityType
  <2> QED
    BY <2>3, <2>4, <2>5 DEF left, less
<1>4. \A q \in Queries : Cardinality(Pairs \ q.set) \in Nat
  BY <1>2, FS_CardinalityType
<1> QED
  BY <1>1, <1>3, <1>4

\* What a solution of the equation of ResolveIn up to k returns.
Solves(g, k) ==
  \A q \in Upto(k) : g[q] = Resolution(records, Modules, g, q) /\ Answers(q, g[q])

\* The calls of a query are for queries to which fewer pairs are left.
LEMMA LaterUpto ==
  ASSUME NEW k \in Nat, NEW q \in Upto(k + 1), PairOf(q) \notin q.set
  PROVE  Later(q) \subseteq Upto(k)
<1> SUFFICES ASSUME NEW c \in Later(q) PROVE c \in Upto(k)
  OBVIOUS
<1>1. q \in Queries /\ c \in Queries /\ Cardinality(Pairs \ q.set) < k + 1
  BY DEF Upto, Later
<1>2. Cardinality(Pairs \ c.set) < Cardinality(Pairs \ q.set)
  BY <1>1, PairsAreFinite
<1>3. Cardinality(Pairs \ c.set) \in Nat /\ Cardinality(Pairs \ q.set) \in Nat
  BY <1>1, PairsAreFinite
<1> QED
  BY <1>1, <1>2, <1>3 DEF Upto

\* One step further along the number of pairs left.
LEMMA SolvesNext ==
  ASSUME GoodTables, NEW k \in Nat, NEW g, Solves(g, k)
  PROVE  Solves([q \in Queries |-> IF q \in Upto(k) THEN g[q]
                                   ELSE Resolution(records, Modules, g, q)], k + 1)
<1> DEFINE h == [q \in Queries |-> IF q \in Upto(k) THEN g[q]
                                   ELSE Resolution(records, Modules, g, q)]
<1>1. \A q \in Upto(k) : h[q] = g[q] /\ q \in Queries
  BY DEF Upto
<1>2. ASSUME NEW q \in Upto(k + 1)
      PROVE  h[q] = Resolution(records, Modules, h, q) /\ Answers(q, h[q])
  <2>1. q \in Queries
    BY DEF Upto
  <2>2. PairOf(q) \notin q.set => Later(q) \subseteq Upto(k)
    BY LaterUpto
  <2>3. PairOf(q) \notin q.set => Expects(g, q)
    BY <2>2 DEF Solves, Expects
  <2>4. PairOf(q) \notin q.set => \A c \in Later(q) : h[c] = g[c]
    BY <1>1, <2>2
  <2>5. h[q] = Resolution(records, Modules, g, q)
    BY <2>1 DEF Solves
  <2> HIDE DEF h
  <2>6. Resolution(records, Modules, h, q) = Resolution(records, Modules, g, q)
    BY <2>1, <2>3, <2>4, ResolutionDepends
  <2>7. Answers(q, Resolution(records, Modules, g, q))
    BY <2>1, <2>3, ResolutionAnswers DEF Expects
  <2> QED
    BY <2>5, <2>6, <2>7
<1> QED
  BY <1>2 DEF Solves

\* resolveExport returns, and what it returns is the answer.
LEMMA ResolveInIs ==
  ASSUME GoodTables
  PROVE  \A q \in Queries : Answers(q, ResolveIn(records, Modules)[q])
<1> DEFINE Up(k) == \E g : Solves(g, k)
           T == {k \in Nat : Up(k)}
           last == Cardinality(Pairs) + 1
<1>1. Up(0)
  <2>1. Upto(0) = {}
    BY PairsAreFinite DEF Upto
  <2> QED
    BY <2>1 DEF Solves
<1>2. ASSUME NEW k \in Nat, Up(k) PROVE Up(k + 1)
  BY <1>2, SolvesNext
<1>3. \A k \in Nat : k \in T
  <2>1. 0 \in T
    BY <1>1
  <2>2. ASSUME NEW k \in Nat, k \in T PROVE k + 1 \in T
    <3>1. Up(k)
      BY <2>2
    <3>2. Up(k + 1)
      BY <1>2, <3>1
    <3> HIDE DEF Up
    <3> QED
      BY <3>2
  <2> HIDE DEF T
  <2> QED
    BY <2>1, <2>2, AllNumbers
<1>4. last \in Nat /\ \A q \in Queries : q \in Upto(last)
  <2>1. \A q \in Queries : Cardinality(Pairs \ q.set) <= Cardinality(Pairs)
    BY PairsAreFinite, FS_Subset, \A q \in Queries : Pairs \ q.set \subseteq Pairs
  <2>2. Cardinality(Pairs) \in Nat
    BY PairsAreFinite, FS_CardinalityType
  <2> QED
    BY <2>1, <2>2, PairsAreFinite DEF Upto
<1>5. PICK g : Solves(g, last)
  BY <1>3, <1>4
<1>6. \A q \in Queries : g[q] = Resolution(records, Modules, g, q) /\ Answers(q, g[q])
  BY <1>4, <1>5 DEF Solves
<1> DEFINE f == [q \in Queries |-> g[q]]
<1>7. ASSUME NEW q \in Queries PROVE g[q] = Resolution(records, Modules, f, q)
  <2>1. Expects(g, q) /\ \A c \in Later(q) : f[c] = g[c]
    BY <1>6 DEF Expects, Later
  <2> HIDE DEF f
  <2>2. Resolution(records, Modules, f, q) = Resolution(records, Modules, g, q)
    BY <2>1, ResolutionDepends
  <2> QED
    BY <1>6, <2>2
<1>8. f = [q \in Queries |-> Resolution(records, Modules, f, q)]
  BY <1>7
<1> DEFINE R == ResolveIn(records, Modules)
<1>9. R = [q \in Queries |-> Resolution(records, Modules, R, q)]
  <2>1. R = CHOOSE r : r = [q \in Queries |-> Resolution(records, Modules, r, q)]
    BY DEF ResolveIn, Queries, Pairs
  <2> HIDE DEF R, f
  <2> QED
    BY <1>8, <2>1
<1> HIDE DEF R, f
<1>10. \A q \in Queries : R[q] = Resolution(records, Modules, R, q)
  BY <1>9
<1> DEFINE A == {k \in Nat : \A q \in Upto(k) : Answers(q, R[q])}
<1>11. \A k \in Nat : k \in A
  <2>1. 0 \in A
    BY PairsAreFinite DEF Upto
  <2>2. ASSUME NEW k \in Nat, k \in A PROVE k + 1 \in A
    <3>1. ASSUME NEW q \in Upto(k + 1) PROVE Answers(q, R[q])
      <4>1. q \in Queries
        BY DEF Upto
      <4>2. PairOf(q) \notin q.set => Later(q) \subseteq Upto(k)
        BY LaterUpto
      <4>3. PairOf(q) \notin q.set => \A c \in Later(q) : Answers(c, R[c])
        BY <2>2, <4>2
      <4>4. Answers(q, Resolution(records, Modules, R, q))
        BY <4>1, <4>3, ResolutionAnswers
      <4> QED
        BY <1>10, <4>1, <4>4
    <3> QED
      BY <3>1
  <2> HIDE DEF A
  <2> QED
    BY <2>1, <2>2, AllNumbers
<1> QED
  BY <1>4, <1>11 DEF R

\* A name resolves to what it stands for.
LEMMA ResolveIsMeaning ==
  ASSUME GoodTables, NEW m \in Modules, NEW n \in Names
  PROVE  ResolveExport(records, Modules, m, n) = MeaningOf(records, m, n)
<1> DEFINE q == [module |-> m, name |-> n, set |-> {}]
           out == ResolveIn(records, Modules)[q]
           p == <<m, n>>
           ends == UNION {EndsAt(records, r) : r \in PairsFrom(records, p)}
<1>1. q \in Queries /\ p \in Pairs /\ PairOf(q) = p /\ q.set = {}
  BY DEF Queries, Pairs, PairOf
<1>2. /\ ResolveExport(records, Modules, m, n) = out.res
      /\ MeaningOf(records, m, n) = IF ends = {} THEN Null
                                    ELSE IF \E b \in ends : ends = {b} THEN CHOOSE b \in ends : TRUE
                                    ELSE Ambiguous
  BY DEF ResolveExport, MeaningOf
<1>3. Answers(q, out)
  BY <1>1, ResolveInIs
<1>4. ends = Ends(PairsFrom(records, p))
  BY DEF Ends
<1> HIDE DEF q, out, p, ends
<1>5. /\ p \in out.set /\ out.set \subseteq PairsFrom(records, p)
      /\ Finds({}, out.set, out.res)
  BY <1>1, <1>3 DEF Answers
<1>6. CASE out.res = Ambiguous
  <2>1. PICK b, c \in Ends(out.set) : b # c
    <3>1. out.set \ {} = out.set
      OBVIOUS
    <3> QED
      BY <1>5, <1>6, <3>1, ResolutionsDiffer DEF Finds
  <2>2. b \in ends /\ c \in ends
    BY <1>4, <1>5, <2>1 DEF Ends
  <2>3. ends # {} /\ ~(\E d \in ends : ends = {d})
    BY <2>1, <2>2
  <2> QED
    BY <1>2, <1>6, <2>3
<1>7. CASE out.res # Ambiguous
  <2>0. out.set \ {} = out.set
    OBVIOUS
  <2>1. \A r \in out.set : LeadsTo(records, r) \subseteq out.set
    BY <1>5, <1>7, <2>0 DEF Finds
  <2>2. out.set \in SUBSET Pairs
    BY <1>1, <1>5, PairsFromIsLeast
  <2>3. PairsFrom(records, p) = out.set
    BY <1>1, <1>5, <2>1, <2>2, PairsFromIsLeast
  <2>4. \/ out.res = Null /\ ends = {}
        \/ ends = {out.res}
    BY <1>4, <1>5, <1>7, <2>0, <2>3 DEF Finds
  <2>5. CASE out.res = Null /\ ends = {}
    BY <1>2, <2>5
  <2>6. CASE ends = {out.res}
    <3>1. (CHOOSE b \in ends : TRUE) = out.res
      BY <2>6
    <3> QED
      BY <1>2, <2>6, <3>1
  <2> QED
    BY <2>4, <2>5, <2>6
<1> QED
  BY <1>6, <1>7
-----------------------------------------------------------------------------
(* Lemmas about the names that a module exports.                           *)

\* What a fold over star exports collects: one value after each of them.
LEMMA FoldNames ==
  ASSUME NEW allowed, NEW N, NEW own, NEW set, NEW seq \in Seq(Modules)
  PROVE  \E a : /\ a[0] = [names |-> own, set |-> set, threw |-> FALSE]
                /\ \A i \in 1..Len(seq) : a[i] = VisitNames(allowed, N, a[i - 1], seq[i])
                /\ VisitAllNames(allowed, N, own, set, seq) = a[Len(seq)]
<1> DEFINE n == Len(seq)
           base == [names |-> own, set |-> set, threw |-> FALSE]
           V(acc, from) == VisitNames(allowed, N, acc, from)
           Step(it, s) == IF s = {} THEN base ELSE V(it[s \ {Max(s)}], seq[Max(s)])
           fold == CHOOSE it : it = [s \in SUBSET DOMAIN seq |-> Step(it, s)]
<1>1. VisitAllNames(allowed, N, own, set, seq) = fold[DOMAIN seq]
  BY DEF VisitAllNames, FoldLeft, MapThenFoldSet
<1> HIDE DEF base
<1>2. DOMAIN seq = 1..n /\ n \in Nat
  OBVIOUS
<1> DEFINE Up(j) == \E it : \A s \in SUBSET (1..j) : it[s] = Step(it, s)
           T == {j \in Nat : Up(j)}
<1>3. Up(0)
  <2>1. \A s \in SUBSET (1..0) : s = {}
    OBVIOUS
  <2>2. [s \in {{}} |-> base][{}] = base
    OBVIOUS
  <2> QED
    BY <2>1, <2>2
<1>4. ASSUME NEW j \in Nat, Up(j) PROVE Up(j + 1)
  <2>1. PICK it : \A s \in SUBSET (1..j) : it[s] = Step(it, s)
    BY <1>4
  <2> DEFINE h == [s \in SUBSET (1..(j + 1)) |-> IF s \subseteq 1..j THEN it[s] ELSE Step(it, s)]
  <2>2. ASSUME NEW s \in SUBSET (1..(j + 1)) PROVE h[s] = Step(it, s)
    BY <2>1
  <2>3. ASSUME NEW s \in SUBSET (1..(j + 1)), s # {} PROVE h[s \ {Max(s)}] = it[s \ {Max(s)}]
    <3>1. s \ {Max(s)} \subseteq 1..j
      BY WithoutMax
    <3>2. s \ {Max(s)} \in SUBSET (1..(j + 1))
      OBVIOUS
    <3> QED
      BY <3>1, <3>2
  <2> HIDE DEF h, V
  <2>4. \A s \in SUBSET (1..(j + 1)) : h[s] = Step(h, s)
    BY <2>2, <2>3
  <2> QED
    BY <2>4
<1>5. Up(n)
  <2>1. \A j \in Nat : j \in T
    <3>1. 0 \in T
      BY <1>3
    <3>2. ASSUME NEW j \in Nat, j \in T PROVE j + 1 \in T
      <4>1. Up(j)
        BY <3>2
      <4>2. Up(j + 1)
        BY <1>4, <4>1
      <4> HIDE DEF Up
      <4> QED
        BY <4>2
    <3> HIDE DEF T
    <3> QED
      BY <3>1, <3>2, AllNumbers
  <2> QED
    BY <1>2, <2>1
<1>6. PICK it : \A s \in SUBSET DOMAIN seq : it[s] = Step(it, s)
  BY <1>2, <1>5
<1> DEFINE f == [s \in SUBSET DOMAIN seq |-> it[s]]
<1>7. f = [s \in SUBSET DOMAIN seq |-> Step(f, s)]
  <2> SUFFICES ASSUME NEW s \in SUBSET DOMAIN seq PROVE it[s] = Step(f, s)
    OBVIOUS
  <2>1. f[s \ {Max(s)}] = it[s \ {Max(s)}]
    OBVIOUS
  <2> HIDE DEF f, V
  <2> QED
    BY <1>6, <2>1
<1>8. fold = [s \in SUBSET DOMAIN seq |-> Step(fold, s)]
  <2> HIDE DEF f, V
  <2> QED
    BY <1>7
<1> HIDE DEF fold, f
<1> DEFINE a == [i \in 0..n |-> fold[1..i]]
<1>9. a[0] = base
  BY <1>2, <1>8
<1>10. ASSUME NEW i \in 1..n PROVE a[i] = V(a[i - 1], seq[i])
  <2>1. Max(1..i) = i /\ (1..i) \ {i} = 1..(i - 1) /\ 1..i # {}
    BY <1>2, WithoutMax
  <2>2. 1..i \in SUBSET DOMAIN seq /\ i \in 0..n /\ i - 1 \in 0..n
    BY <1>2
  <2> HIDE DEF V
  <2>3. fold[1..i] = V(fold[1..(i - 1)], seq[i])
    BY <1>8, <2>1, <2>2
  <2> QED
    BY <2>2, <2>3
<1>11. a[n] = fold[DOMAIN seq]
  BY <1>2
<1> HIDE DEF a
<1> QED
  BY <1>1, <1>9, <1>10, <1>11 DEF base

NameQueries == [module : Modules, set : SUBSET Modules]

Starred == [k \in Modules |-> ToSet(records[k].stars)]

\* The modules whose names module m takes over.
StarredFrom(m) == Closure(Starred, Starred[m])

NamesOfAll(S) == UNION {OwnNames(records, k) : k \in S}

NameList(names, set) == [names |-> names, set |-> set, threw |-> FALSE]

\* What a call of getExportedNames returns: it has visited its own module and what
\* that one's star exports lead to, gone on from each module that it was the first to
\* visit, and found the names of these.
Lists(q, out) ==
  /\ out = NameList(out.names, out.set)
  /\ q.set \cup {q.module} \subseteq out.set
  /\ out.set \subseteq q.set \cup {q.module} \cup StarredFrom(q.module)
  /\ \A k \in out.set \ q.set : Starred[k] \subseteq out.set
  /\ out.names = (IF q.module \in q.set THEN {} ELSE OwnNames(records, q.module))
                   \cup (NamesOfAll(out.set \ q.set) \ {DefaultName})

LaterNames(q) == {c \in NameQueries : q.set \cup {q.module} \subseteq c.set}

ExpectsNames(N, q) == \A c \in LaterNames(q) : Lists(c, N[c])

\* The values of the loop over the star exports of q's module.
NameValues(N, q, a) ==
  /\ a[0] = NameList(OwnNames(records, q.module), q.set \cup {q.module})
  /\ \A i \in 1..Len(records[q.module].stars) :
       a[i] = VisitNames(Modules, N, a[i - 1], records[q.module].stars[i])

\* What the loop has found after i of them.
NameState(q, b, i) ==
  /\ b = NameList(b.names, b.set)
  /\ q.set \cup {q.module} \subseteq b.set
  /\ b.set \subseteq q.set \cup {q.module} \cup StarredFrom(q.module)
  /\ \A k \in b.set \ (q.set \cup {q.module}) : Starred[k] \subseteq b.set
  /\ \A j \in 1..i : records[q.module].stars[j] \in b.set
  /\ b.names = OwnNames(records, q.module)
                 \cup (NamesOfAll(b.set \ (q.set \cup {q.module})) \ {DefaultName})

LEMMA NameListFields ==
  ASSUME NEW names, NEW set
  PROVE  /\ NameList(names, set).names = names /\ NameList(names, set).set = set
         /\ ~NameList(names, set).threw
BY DEF NameList

\* The modules that star exports lead to.
LEMMA StarredIsClosed ==
  ASSUME GoodTables, NEW m \in Modules
  PROVE  /\ records[m].stars \in Seq(Modules) /\ Starred[m] = ToSet(records[m].stars)
         /\ Starred[m] \subseteq Modules /\ StarredFrom(m) \subseteq Modules
         /\ Starred[m] \subseteq StarredFrom(m)
         /\ \A k \in StarredFrom(m) : Starred[k] \subseteq StarredFrom(m)
         /\ \A T \in SUBSET Modules : (Starred[m] \subseteq T /\ \A k \in T : Starred[k] \subseteq T)
              => StarredFrom(m) \subseteq T
         /\ \A k \in StarredFrom(m) : StarredFrom(k) \subseteq StarredFrom(m)
<1>1. ASSUME NEW k \in Modules
      PROVE  /\ records[k].stars \in Seq(Modules) /\ Starred[k] = ToSet(records[k].stars)
             /\ Starred[k] \subseteq Modules
  <2>1. records[k].stars \in Seq(Modules)
    BY DEF GoodTables, Records
  <2> QED
    BY <2>1, ElementOfSeq DEF ToSet, Starred
<1>2. Starred \in [Modules -> SUBSET Modules]
  BY <1>1 DEF Starred
<1>3. ASSUME NEW k \in Modules
      PROVE  /\ StarredFrom(k) \subseteq Modules /\ Starred[k] \subseteq StarredFrom(k)
             /\ \A x \in StarredFrom(k) : Starred[x] \subseteq StarredFrom(k)
             /\ \A T \in SUBSET Modules : (Starred[k] \subseteq T /\ \A x \in T : Starred[x] \subseteq T)
                  => StarredFrom(k) \subseteq T
  <2>1. Starred[k] \in SUBSET Modules
    BY <1>1
  <2> QED
    BY <1>2, <2>1, ClosureIsLeast DEF StarredFrom
<1> HIDE DEF StarredFrom
<1>4. \A k \in StarredFrom(m) : StarredFrom(k) \subseteq StarredFrom(m)
  BY <1>3
<1> QED
  BY <1>1, <1>3, <1>4

\* A module's names after those of the modules visited so far.
LEMMA NameStep ==
  ASSUME GoodTables, NEW N, NEW q \in NameQueries, ExpectsNames(N, q),
         NEW i \in 1..Len(records[q.module].stars), NEW b, NameState(q, b, i - 1)
  PROVE  LET s == records[q.module].stars[i]
             c == [module |-> s, set |-> b.set]
         IN  /\ c \in LaterNames(q) /\ s \in Modules
             /\ NameState(q, VisitNames(Modules, N, b, s), i)
<1> DEFINE m == q.module
           s == records[m].stars[i]
           c == [module |-> s, set |-> b.set]
           o == N[c]
           set == q.set \cup {m}
           d == VisitNames(Modules, N, b, s)
<1>1. m \in Modules /\ q.set \in SUBSET Modules
  BY DEF NameQueries
<1>2. /\ records[m].stars \in Seq(Modules) /\ Starred[m] = ToSet(records[m].stars)
      /\ StarredFrom(m) \subseteq Modules /\ Starred[m] \subseteq StarredFrom(m)
      /\ \A k \in StarredFrom(m) : StarredFrom(k) \subseteq StarredFrom(m)
  BY <1>1, StarredIsClosed
<1>3. s \in Modules /\ s \in StarredFrom(m)
  BY <1>2, ElementOfSeq DEF ToSet
<1>4. /\ b = NameList(b.names, b.set) /\ set \subseteq b.set
      /\ b.set \subseteq set \cup StarredFrom(m)
      /\ \A k \in b.set \ set : Starred[k] \subseteq b.set
      /\ \A j \in 1..(i - 1) : records[m].stars[j] \in b.set
      /\ b.names = OwnNames(records, m) \cup (NamesOfAll(b.set \ set) \ {DefaultName})
  BY DEF NameState
<1>5. b.set \in SUBSET Modules
  BY <1>1, <1>2, <1>4
<1>6. c \in LaterNames(q) /\ c.module = s /\ c.set = b.set
  BY <1>3, <1>4, <1>5 DEF LaterNames, NameQueries
<1>7. Lists(c, o)
  BY <1>6 DEF ExpectsNames
<1>8. d = NameList(b.names \cup (o.names \ {DefaultName}), o.set)
  <2>1. ~b.threw
    BY <1>4, NameListFields
  <2>2. o = NameList(o.names, o.set)
    BY <1>7 DEF Lists
  <2>3. o.threw = FALSE
    BY <2>2 DEF NameList
  <2>4. d = [names |-> b.names \cup (o.names \ {DefaultName}), set |-> o.set, threw |-> o.threw]
    BY <1>3, <2>1 DEF VisitNames
  <2> QED
    BY <2>3, <2>4 DEF NameList
<1> HIDE DEF d, o, c, s
<1>9. d.names = b.names \cup (o.names \ {DefaultName}) /\ d.set = o.set
  BY <1>8, NameListFields
<1>10. /\ b.set \cup {s} \subseteq o.set /\ o.set \subseteq b.set \cup {s} \cup StarredFrom(s)
       /\ \A k \in o.set \ b.set : Starred[k] \subseteq o.set
       /\ o.names = (IF s \in b.set THEN {} ELSE OwnNames(records, s))
                      \cup (NamesOfAll(o.set \ b.set) \ {DefaultName})
  BY <1>6, <1>7 DEF Lists
<1>11. d.set \subseteq set \cup StarredFrom(m)
  BY <1>2, <1>3, <1>4, <1>9, <1>10
<1>12. \A k \in d.set \ set : Starred[k] \subseteq d.set
  BY <1>4, <1>9, <1>10
<1>13. \A j \in 1..i : records[m].stars[j] \in d.set
  <2>1. \A j \in 1..i : j \in 1..(i - 1) \/ j = i
    OBVIOUS
  <2>2. s \in d.set
    BY <1>9, <1>10
  <2> QED
    BY <1>4, <1>9, <1>10, <2>1, <2>2 DEF s
<1>14. d.names = OwnNames(records, m) \cup (NamesOfAll(d.set \ set) \ {DefaultName})
  <2>1. o.names \ {DefaultName} = NamesOfAll(o.set \ b.set) \ {DefaultName}
    <3>1. s \notin b.set => OwnNames(records, s) \subseteq NamesOfAll(o.set \ b.set)
      BY <1>10 DEF NamesOfAll
    <3> QED
      BY <1>10, <3>1
  <2>2. d.set \ set = (b.set \ set) \cup (o.set \ b.set)
    BY <1>4, <1>9, <1>10
  <2>3. NamesOfAll(d.set \ set) = NamesOfAll(b.set \ set) \cup NamesOfAll(o.set \ b.set)
    BY <2>2 DEF NamesOfAll
  <2> QED
    BY <1>4, <1>9, <2>1, <2>3
<1>15. d = NameList(d.names, d.set)
  BY <1>8, <1>9
<1> HIDE DEF m
<1>16. NameState(q, d, i)
  BY <1>4, <1>9, <1>10, <1>11, <1>12, <1>13, <1>14, <1>15 DEF NameState, m
<1> QED
  BY <1>3, <1>6, <1>16 DEF c, d, s, m

\* The loop keeps what it has found.
LEMMA NameLoop ==
  ASSUME GoodTables, NEW N, NEW q \in NameQueries, ExpectsNames(N, q),
         NEW a, NameValues(N, q, a)
  PROVE  \A i \in 0..Len(records[q.module].stars) : NameState(q, a[i], i)
<1> DEFINE m == q.module
           n == Len(records[m].stars)
           T == {i \in Nat : i <= n => NameState(q, a[i], i)}
<1>1. m \in Modules /\ q.set \in SUBSET Modules
  BY DEF NameQueries
<1>2. n \in Nat
  BY <1>1, StarredIsClosed
<1>3. 0 \in T
  <2>1. a[0] = NameList(OwnNames(records, m), q.set \cup {m})
    BY DEF NameValues
  <2>2. a[0].names = OwnNames(records, m) /\ a[0].set = q.set \cup {m}
    BY <2>1, NameListFields
  <2>3. NamesOfAll((q.set \cup {m}) \ (q.set \cup {m})) = {}
    BY DEF NamesOfAll
  <2>4. \A j \in 1..0 : FALSE
    OBVIOUS
  <2> QED
    BY <2>1, <2>2, <2>3, <2>4 DEF NameState
<1>4. ASSUME NEW i \in Nat, i \in T PROVE i + 1 \in T
  <2> SUFFICES ASSUME i + 1 <= n PROVE NameState(q, a[i + 1], i + 1)
    OBVIOUS
  <2>1. i + 1 \in 1..n /\ (i + 1) - 1 = i /\ i <= n
    BY <1>2
  <2>2. NameState(q, a[i], (i + 1) - 1)
    BY <1>4, <2>1
  <2>3. a[i + 1] = VisitNames(Modules, N, a[i], records[m].stars[i + 1])
    BY <2>1 DEF NameValues
  <2> QED
    BY <2>1, <2>2, <2>3, NameStep
<1>5. \A i \in Nat : i \in T
  <2> HIDE DEF T
  <2> QED
    BY <1>3, <1>4, AllNumbers
<1> QED
  BY <1>2, <1>5

\* The values of the loop, and that its last one is what getExportedNames returns.
LEMMA NameValuesExist ==
  ASSUME GoodTables, NEW N, NEW q \in NameQueries, q.module \notin q.set
  PROVE  \E a : /\ NameValues(N, q, a)
                /\ NamesFound(records, Modules, N, q) = a[Len(records[q.module].stars)]
<1> DEFINE stars == records[q.module].stars
           own == OwnNames(records, q.module)
           set == q.set \cup {q.module}
<1>1. stars \in Seq(Modules)
  BY StarredIsClosed DEF NameQueries
<1>2. NamesFound(records, Modules, N, q) = VisitAllNames(Modules, N, own, set, stars)
  BY DEF NamesFound
<1>3. \E a : /\ a[0] = [names |-> own, set |-> set, threw |-> FALSE]
             /\ \A i \in 1..Len(stars) : a[i] = VisitNames(Modules, N, a[i - 1], stars[i])
             /\ VisitAllNames(Modules, N, own, set, stars) = a[Len(stars)]
  <2> HIDE DEF stars, own, set
  <2> QED
    BY <1>1, FoldNames
<1> QED
  BY <1>2, <1>3 DEF NameValues, NameList

\* What one turn of getExportedNames returns, if the calls it makes return what they
\* should.
LEMMA NamesFoundLists ==
  ASSUME GoodTables, NEW N, NEW q \in NameQueries,
         q.module \notin q.set => ExpectsNames(N, q)
  PROVE  Lists(q, NamesFound(records, Modules, N, q))
<1> DEFINE m == q.module
           out == NamesFound(records, Modules, N, q)
           n == Len(records[m].stars)
<1>1. m \in Modules /\ q.set \in SUBSET Modules
  BY DEF NameQueries
<1> SUFFICES Lists(q, out)
  OBVIOUS
<1>2. CASE m \in q.set
  <2>1. out = NameList({}, q.set)
    BY <1>2 DEF NamesFound, NameList
  <2>2. NamesOfAll(q.set \ q.set) = {}
    BY DEF NamesOfAll
  <2> HIDE DEF out
  <2>3. out.names = {} /\ out.set = q.set
    BY <2>1, NameListFields
  <2>4. out = NameList(out.names, out.set)
    BY <2>1, <2>3
  <2>5. /\ q.set \cup {m} \subseteq out.set /\ out.set \ q.set = {}
        /\ out.set \subseteq q.set \cup {m} \cup StarredFrom(m)
    BY <1>2, <2>3
  <2> QED
    BY <1>2, <2>2, <2>3, <2>4, <2>5 DEF Lists
<1>3. CASE m \notin q.set
  <2>1. PICK a : NameValues(N, q, a) /\ out = a[n]
    BY <1>3, NameValuesExist
  <2>2. n \in Nat /\ n \in 0..n
    <3>1. n \in Nat
      BY <1>1, StarredIsClosed
    <3> HIDE DEF n
    <3> QED
      BY <3>1
  <2>3. NameState(q, out, n)
    BY <1>3, <2>1, <2>2, NameLoop
  <2> HIDE DEF out
  <2>4. Starred[m] \subseteq out.set
    <3>1. records[m].stars \in Seq(Modules) /\ Starred[m] = ToSet(records[m].stars)
      BY <1>1, StarredIsClosed
    <3> QED
      BY <2>3, <3>1 DEF NameState, ToSet
  <2>5. \A k \in out.set \ q.set : Starred[k] \subseteq out.set
    BY <2>3, <2>4 DEF NameState
  <2>6. out.names = OwnNames(records, m) \cup (NamesOfAll(out.set \ q.set) \ {DefaultName})
    <3>1. out.set \ q.set = (out.set \ (q.set \cup {m})) \cup {m}
      BY <1>3, <2>3 DEF NameState
    <3>2. NamesOfAll(out.set \ q.set) = NamesOfAll(out.set \ (q.set \cup {m})) \cup OwnNames(records, m)
      BY <3>1 DEF NamesOfAll
    <3>3. out.names = OwnNames(records, m) \cup (NamesOfAll(out.set \ (q.set \cup {m})) \ {DefaultName})
      BY <2>3 DEF NameState
    <3> QED
      BY <3>2, <3>3
  <2> QED
    BY <1>3, <2>3, <2>5, <2>6 DEF Lists, NameState
<1> QED
  BY <1>2, <1>3

\* getExportedNames depends on its recursive calls only for sets that have grown.
LEMMA NamesFoundDepends ==
  ASSUME GoodTables, NEW N, NEW M, NEW q \in NameQueries,
         q.module \notin q.set => ExpectsNames(N, q),
         q.module \notin q.set => \A c \in LaterNames(q) : M[c] = N[c]
  PROVE  NamesFound(records, Modules, M, q) = NamesFound(records, Modules, N, q)
<1> DEFINE n == Len(records[q.module].stars)
<1>1. CASE q.module \in q.set
  BY <1>1 DEF NamesFound
<1>2. CASE q.module \notin q.set
  <2>1. PICK a : NameValues(N, q, a) /\ NamesFound(records, Modules, N, q) = a[n]
    BY <1>2, NameValuesExist
  <2>2. PICK b : NameValues(M, q, b) /\ NamesFound(records, Modules, M, q) = b[n]
    BY <1>2, NameValuesExist
  <2>3. \A i \in 0..n : NameState(q, a[i], i)
    BY <1>2, <2>1, NameLoop
  <2>4. n \in Nat
    BY StarredIsClosed DEF NameQueries
  <2> DEFINE T == {i \in Nat : i <= n => b[i] = a[i]}
  <2>5. 0 \in T
    BY <2>1, <2>2 DEF NameValues
  <2>6. ASSUME NEW i \in Nat, i \in T PROVE i + 1 \in T
    <3> SUFFICES ASSUME i + 1 <= n PROVE b[i + 1] = a[i + 1]
      OBVIOUS
    <3> DEFINE s == records[q.module].stars[i + 1]
               c == [module |-> s, set |-> a[i].set]
    <3>1. i + 1 \in 1..n /\ (i + 1) - 1 = i /\ i \in 0..n
      BY <2>4
    <3>2. a[i + 1] = VisitNames(Modules, N, a[i], s) /\ b[i + 1] = VisitNames(Modules, M, b[i], s)
      BY <2>1, <2>2, <3>1 DEF NameValues
    <3>3. b[i] = a[i]
      BY <2>4, <2>6
    <3>4. NameState(q, a[i], (i + 1) - 1)
      BY <2>3, <3>1
    <3>5. c \in LaterNames(q) /\ s \in Modules
      BY <1>2, <3>1, <3>4, NameStep
    <3>6. M[c] = N[c]
      BY <1>2, <3>5
    <3> QED
      BY <3>2, <3>3, <3>6 DEF VisitNames
  <2>7. \A i \in Nat : i \in T
    <3> HIDE DEF T
    <3> QED
      BY <2>5, <2>6, AllNumbers
  <2> QED
    BY <2>1, <2>2, <2>4, <2>7
<1> QED
  BY <1>1, <1>2

\* The queries that fewer than k modules are left to.
NamesUpto(k) == {q \in NameQueries : Cardinality(Modules \ q.set) < k}

SolvesNames(g, k) ==
  \A q \in NamesUpto(k) : g[q] = NamesFound(records, Modules, g, q) /\ Lists(q, g[q])

\* The calls of a query are for queries to which fewer modules are left.
LEMMA LaterNamesUpto ==
  /\ NamesUpto(0) = {}
  /\ \A q \in NameQueries : q \in NamesUpto(Cardinality(Modules) + 1)
  /\ \A k \in Nat : \A q \in NamesUpto(k + 1) :
       q.module \notin q.set => LaterNames(q) \subseteq NamesUpto(k)
<1>1. ASSUME NEW S \in SUBSET Modules
      PROVE  /\ IsFiniteSet(Modules \ S) /\ Cardinality(Modules \ S) \in Nat
             /\ Cardinality(Modules \ S) <= Cardinality(Modules) /\ Cardinality(Modules) \in Nat
  <2>1. Modules \ S \subseteq Modules
    OBVIOUS
  <2>2. IsFiniteSet(Modules)
    BY FiniteAssumption
  <2>3. IsFiniteSet(Modules \ S) /\ Cardinality(Modules \ S) <= Cardinality(Modules)
    BY <2>1, <2>2, FS_Subset
  <2> QED
    BY <2>2, <2>3, FS_CardinalityType
<1>2. \A q \in NameQueries : q.set \in SUBSET Modules /\ q.module \in Modules
  BY DEF NameQueries
<1>3. NamesUpto(0) = {}
  BY <1>1, <1>2 DEF NamesUpto
<1>4. ASSUME NEW q \in NameQueries PROVE q \in NamesUpto(Cardinality(Modules) + 1)
  <2>1. q.set \in SUBSET Modules
    BY <1>2
  <2>2. /\ Cardinality(Modules \ q.set) <= Cardinality(Modules)
        /\ Cardinality(Modules \ q.set) \in Nat /\ Cardinality(Modules) \in Nat
    BY <1>1, <2>1
  <2>3. Cardinality(Modules \ q.set) < Cardinality(Modules) + 1
    BY <2>2
  <2> QED
    BY <2>3 DEF NamesUpto
<1>5. ASSUME NEW k \in Nat, NEW q \in NamesUpto(k + 1), q.module \notin q.set, NEW c \in LaterNames(q)
      PROVE  c \in NamesUpto(k)
  <2> DEFINE left == Modules \ q.set
             less == Modules \ c.set
  <2>1. q \in NameQueries /\ c \in NameQueries /\ Cardinality(left) < k + 1
    BY DEF NamesUpto, LaterNames
  <2>2. q.module \in left /\ less \subseteq left \ {q.module}
    BY <1>2, <1>5, <2>1 DEF LaterNames
  <2>3. /\ IsFiniteSet(left) /\ Cardinality(left) \in Nat
        /\ Cardinality(less) \in Nat
    BY <1>1, <1>2, <2>1
  <2> HIDE DEF left, less
  <2>4. IsFiniteSet(left \ {q.module}) /\ Cardinality(left \ {q.module}) = Cardinality(left) - 1
    BY <2>2, <2>3, FS_RemoveElement
  <2>5. Cardinality(less) <= Cardinality(left \ {q.module})
    BY <2>2, <2>4, FS_Subset
  <2>6. Cardinality(less) < k
    BY <2>1, <2>3, <2>4, <2>5
  <2> QED
    BY <2>1, <2>6 DEF NamesUpto, less
<1> QED
  BY <1>3, <1>4, <1>5

\* One step further along the number of modules left.
LEMMA SolvesNamesNext ==
  ASSUME GoodTables, NEW k \in Nat, NEW g, SolvesNames(g, k)
  PROVE  SolvesNames([q \in NameQueries |-> IF q \in NamesUpto(k) THEN g[q]
                                            ELSE NamesFound(records, Modules, g, q)], k + 1)
<1> DEFINE h == [q \in NameQueries |-> IF q \in NamesUpto(k) THEN g[q]
                                       ELSE NamesFound(records, Modules, g, q)]
<1>1. \A q \in NamesUpto(k) : h[q] = g[q] /\ q \in NameQueries
  BY DEF NamesUpto
<1>2. ASSUME NEW q \in NamesUpto(k + 1)
      PROVE  h[q] = NamesFound(records, Modules, h, q) /\ Lists(q, h[q])
  <2>1. q \in NameQueries
    BY DEF NamesUpto
  <2>2. q.module \notin q.set => LaterNames(q) \subseteq NamesUpto(k)
    BY LaterNamesUpto
  <2>3. q.module \notin q.set => ExpectsNames(g, q)
    BY <2>2 DEF SolvesNames, ExpectsNames
  <2>4. q.module \notin q.set => \A c \in LaterNames(q) : h[c] = g[c]
    BY <1>1, <2>2
  <2>5. h[q] = NamesFound(records, Modules, g, q)
    BY <2>1 DEF SolvesNames
  <2> HIDE DEF h
  <2>6. NamesFound(records, Modules, h, q) = NamesFound(records, Modules, g, q)
    BY <2>1, <2>3, <2>4, NamesFoundDepends
  <2>7. Lists(q, NamesFound(records, Modules, g, q))
    BY <2>1, <2>3, NamesFoundLists
  <2> QED
    BY <2>5, <2>6, <2>7
<1> QED
  BY <1>2 DEF SolvesNames

\* getExportedNames returns, and what it returns is the list.
LEMMA NamesInLists ==
  ASSUME GoodTables
  PROVE  \A q \in NameQueries : Lists(q, NamesIn(records, Modules)[q])
<1> DEFINE Up(k) == \E g : SolvesNames(g, k)
           T == {k \in Nat : Up(k)}
           last == Cardinality(Modules) + 1
<1>1. Up(0)
  BY LaterNamesUpto DEF SolvesNames
<1>2. ASSUME NEW k \in Nat, Up(k) PROVE Up(k + 1)
  BY <1>2, SolvesNamesNext
<1>3. \A k \in Nat : k \in T
  <2>1. 0 \in T
    BY <1>1
  <2>2. ASSUME NEW k \in Nat, k \in T PROVE k + 1 \in T
    <3>1. Up(k)
      BY <2>2
    <3>2. Up(k + 1)
      BY <1>2, <3>1
    <3> HIDE DEF Up
    <3> QED
      BY <3>2
  <2> HIDE DEF T
  <2> QED
    BY <2>1, <2>2, AllNumbers
<1>4. last \in Nat /\ \A q \in NameQueries : q \in NamesUpto(last)
  BY FiniteAssumption, FS_CardinalityType, LaterNamesUpto
<1>5. PICK g : SolvesNames(g, last)
  BY <1>3, <1>4
<1>6. \A q \in NameQueries : g[q] = NamesFound(records, Modules, g, q) /\ Lists(q, g[q])
  BY <1>4, <1>5 DEF SolvesNames
<1> DEFINE f == [q \in NameQueries |-> g[q]]
<1>7. ASSUME NEW q \in NameQueries PROVE g[q] = NamesFound(records, Modules, f, q)
  <2>1. ExpectsNames(g, q) /\ \A c \in LaterNames(q) : f[c] = g[c]
    BY <1>6 DEF ExpectsNames, LaterNames
  <2> HIDE DEF f
  <2>2. NamesFound(records, Modules, f, q) = NamesFound(records, Modules, g, q)
    BY <2>1, NamesFoundDepends
  <2> QED
    BY <1>6, <2>2
<1>8. f = [q \in NameQueries |-> NamesFound(records, Modules, f, q)]
  BY <1>7
<1> DEFINE N == NamesIn(records, Modules)
<1>9. N = [q \in NameQueries |-> NamesFound(records, Modules, N, q)]
  <2>1. N = CHOOSE r : r = [q \in NameQueries |-> NamesFound(records, Modules, r, q)]
    BY DEF NamesIn, NameQueries
  <2> HIDE DEF N, f
  <2> QED
    BY <1>8, <2>1
<1> HIDE DEF N, f
<1>10. \A q \in NameQueries : N[q] = NamesFound(records, Modules, N, q)
  BY <1>9
<1> DEFINE A == {k \in Nat : \A q \in NamesUpto(k) : Lists(q, N[q])}
<1>11. \A k \in Nat : k \in A
  <2>1. 0 \in A
    BY LaterNamesUpto
  <2>2. ASSUME NEW k \in Nat, k \in A PROVE k + 1 \in A
    <3>1. ASSUME NEW q \in NamesUpto(k + 1) PROVE Lists(q, N[q])
      <4>1. q \in NameQueries
        BY DEF NamesUpto
      <4>2. q.module \notin q.set => ExpectsNames(N, q)
        BY <2>2, LaterNamesUpto DEF ExpectsNames
      <4>3. Lists(q, NamesFound(records, Modules, N, q))
        BY <4>1, <4>2, NamesFoundLists
      <4> QED
        BY <1>10, <4>1, <4>3
    <3> QED
      BY <3>1
  <2> HIDE DEF A
  <2> QED
    BY <2>1, <2>2, AllNumbers
<1> QED
  BY <1>4, <1>11 DEF N

\* The names found are the names exported.
LEMMA NamesAreExports ==
  ASSUME GoodTables, NEW m \in Modules
  PROVE  GetExportedNames(records, Modules, m).names = ExportsOf(records, m)
<1> DEFINE q == [module |-> m, set |-> {}]
           out == NamesIn(records, Modules)[q]
           reached == StarredFrom(m)
<1>1. q \in NameQueries /\ q.module = m /\ q.set = {}
  BY DEF NameQueries
<1>2. /\ GetExportedNames(records, Modules, m).names = out.names
      /\ ExportsOf(records, m) = OwnNames(records, m) \cup (NamesOfAll(reached) \ {DefaultName})
  BY DEF GetExportedNames, ExportsOf, NamesOfAll, StarredFrom, Starred
<1>3. Lists(q, out)
  BY <1>1, NamesInLists
<1> HIDE DEF q, out, reached
<1>4. /\ m \in out.set /\ out.set \subseteq {m} \cup reached
      /\ \A k \in out.set : Starred[k] \subseteq out.set
      /\ out.names = OwnNames(records, m) \cup (NamesOfAll(out.set \ {}) \ {DefaultName})
  BY <1>1, <1>3 DEF Lists, reached
<1>5. reached \subseteq Modules
  BY StarredIsClosed DEF reached
<1>6. reached \subseteq out.set
  <2>1. out.set \in SUBSET Modules /\ Starred[m] \subseteq out.set
    BY <1>4, <1>5
  <2> QED
    BY <1>4, <2>1, StarredIsClosed DEF reached
<1>7. NamesOfAll(out.set \ {}) \cup OwnNames(records, m) = NamesOfAll(reached) \cup OwnNames(records, m)
  BY <1>4, <1>6 DEF NamesOfAll
<1> QED
  BY <1>2, <1>4, <1>7

\* The export tables are of one of the module graphs considered.
LEMMA TablesAreGood ==
  ASSUME records \in Graphs
  PROVE  GoodTables
BY GraphsAssumption, ExportsAssumption DEF GoodTables

\* The tables of the modules never change.
LEMMA TablesStay == Spec => [](records \in Graphs)
<1>1. Init => records \in Graphs
  BY DEF Init
<1>2. records \in Graphs /\ [Next]_vars => (records \in Graphs)'
  <2> SUFFICES ASSUME records \in Graphs, [Next]_vars PROVE records' = records
    OBVIOUS
  <2>1. CASE UNCHANGED vars
    BY <2>1 DEF vars
  <2> QED
    BY <2>1 DEF Next, tables, Load, ModuleInstantiate, ModuleEvaluate, LinkRequest, LinkFinish,
                EvaluateRequest, EvaluateFinish
<1> QED
  BY <1>1, <1>2, PTL DEF Spec

\* Both searches through the export tables find what the names stand for, whatever
\* cycles the star exports form: ModuleResolveExport gives the one binding that is
\* reached, null if there is none and "ambiguous" if there are several, and
\* ModuleGetExportedNames lists the names of all modules reached, although a branch
\* does not look again at what an earlier one has visited.
THEOREM SearchesFindMeanings == Spec => []ResolutionIsMeaning
<1>1. records \in Graphs => ResolutionIsMeaning
  BY TablesAreGood, ResolveIsMeaning, NamesAreExports DEF ResolutionIsMeaning
<1> QED
  BY <1>1, TablesStay, PTL

=============================================================================
