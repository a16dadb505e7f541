---------------------------- MODULE Futex_proofs ----------------------------
(* Proofs about Futex, for every finite set of threads, every buffer and   *)
(* every number of interrupts.                                             *)
EXTENDS Futex, FiniteSetTheorems, SequenceTheorems, TLAPS

-----------------------------------------------------------------------------
(* The list of waiters.                                                    *)

\* What RemoveAt() leaves, and where.
LEMMA RemoveAtProperties ==
  ASSUME NEW S, NEW s \in Seq(S), NEW i \in DOMAIN s
  PROVE  /\ RemoveAt(s, i) \in Seq(S)
         /\ DOMAIN RemoveAt(s, i) = 1 .. (Len(s) - 1)
         /\ \A j \in 1 .. (Len(s) - 1) :
              RemoveAt(s, i)[j] = s[IF j < i THEN j ELSE j + 1]
<1> DEFINE front == SubSeq(s, 1, i - 1)
           rest == SubSeq(s, i + 1, Len(s))
<1>1. i \in 1..Len(s) /\ Len(s) \in Nat
  BY LenProperties
<1>a. \A j \in 1..Len(s) : s[j] \in S
  BY ElementOfSeq
<1>2. /\ front \in Seq(S) /\ Len(front) = i - 1
      /\ \A j \in 1..(i - 1) : front[j] = s[j]
  <2>1. /\ i - 1 \in Int /\ 1 \in Int
        /\ \A j \in 1..(i - 1) : j \in 1..Len(s) /\ 1 + j - 1 = j
        /\ (IF 1 <= i - 1 THEN (i - 1) - 1 + 1 ELSE 0) = i - 1 /\ (i - 1) - 1 + 1 = i - 1
    BY <1>1
  <2>2. \A j \in 1..(i - 1) : s[j] \in S
    BY <1>a, <2>1
  <2>3. /\ front \in Seq(S)
        /\ Len(front) = IF 1 <= i - 1 THEN (i - 1) - 1 + 1 ELSE 0
        /\ \A j \in 1 .. (i - 1) - 1 + 1 : front[j] = s[1 + j - 1]
    BY <2>1, <2>2, SubSeqProperties
  <2> HIDE DEF front
  <2> QED
    BY <2>1, <2>3
<1>3. /\ rest \in Seq(S) /\ Len(rest) = Len(s) - i
      /\ \A j \in 1..(Len(s) - i) : rest[j] = s[j + i]
  <2>1. /\ i + 1 \in Int /\ Len(s) \in Int
        /\ \A j \in (i + 1)..Len(s) : j \in 1..Len(s)
        /\ \A j \in 1..(Len(s) - i) : (i + 1) + j - 1 = j + i
        /\ (IF i + 1 <= Len(s) THEN Len(s) - (i + 1) + 1 ELSE 0) = Len(s) - i
        /\ Len(s) - (i + 1) + 1 = Len(s) - i
    BY <1>1
  <2>2. \A j \in (i + 1)..Len(s) : s[j] \in S
    BY <1>a, <2>1
  <2>3. /\ rest \in Seq(S)
        /\ Len(rest) = IF i + 1 <= Len(s) THEN Len(s) - (i + 1) + 1 ELSE 0
        /\ \A j \in 1 .. Len(s) - (i + 1) + 1 : rest[j] = s[(i + 1) + j - 1]
    BY <2>1, <2>2, SubSeqProperties
  <2> HIDE DEF rest
  <2> QED
    BY <2>1, <2>3
<1>4. RemoveAt(s, i) = front \o rest
  BY DEF RemoveAt
<1> HIDE DEF front, rest
<1>5. /\ RemoveAt(s, i) \in Seq(S) /\ Len(RemoveAt(s, i)) = Len(s) - 1
      /\ \A j \in 1..(Len(s) - 1) :
           RemoveAt(s, i)[j] = IF j <= i - 1 THEN front[j] ELSE rest[j - (i - 1)]
  <2>1. front \in Seq(S) /\ rest \in Seq(S) /\ Len(front) = i - 1 /\ Len(rest) = Len(s) - i
    BY <1>2, <1>3
  <2>2. /\ front \o rest \in Seq(S)
        /\ Len(front \o rest) = Len(front) + Len(rest)
        /\ \A j \in 1 .. Len(front) + Len(rest) : (front \o rest)[j] =
             IF j <= Len(front) THEN front[j] ELSE rest[j - Len(front)]
    BY <2>1, ConcatProperties
  <2>3. Len(front) + Len(rest) = Len(s) - 1
    BY <1>1, <2>1
  <2> QED
    BY <1>4, <2>1, <2>2, <2>3
<1>6. DOMAIN RemoveAt(s, i) = 1..(Len(s) - 1)
  BY <1>5, LenProperties
<1>7. ASSUME NEW j \in 1..(Len(s) - 1)
      PROVE  RemoveAt(s, i)[j] = s[IF j < i THEN j ELSE j + 1]
  <2>1. CASE j < i
    BY <1>1, <1>2, <1>5, <2>1
  <2>2. CASE ~(j < i)
    <3>1. j - (i - 1) \in 1..(Len(s) - i) /\ (j - (i - 1)) + i = j + 1
      BY <1>1, <2>2
    <3>2. rest[j - (i - 1)] = s[j + 1]
      BY <1>3, <3>1
    <3> QED
      BY <1>1, <1>5, <2>2, <3>2
  <2> QED
    BY <2>1, <2>2
<1> QED
  BY <1>5, <1>6, <1>7

-----------------------------------------------------------------------------
(* The invariant.                                                          *)

\* How far a handler's own wait() can go: it is what makes a thread `nested',
\* and only such a thread has a second node, a refused one, or a state that
\* does not tell whether it waits.
Nesting ==
  \A a \in Agents :
    /\ pc[a] = "refused" => nested[a] /\ Depth(a) > 1
    /\ ~nested[a] => Depth(a) <= 1 /\ (InWait(a) <=> state[a] # "Idle")
    /\ InWait(a) => result[a] = "none"

\* The three properties and the types hold one another up: that counted waits
\* are woken tells notify() whom to pass over, and that the list is exact tells
\* it whom to look at.
IInv == TypeOK /\ Nesting /\ WaitersExact /\ CountedIsWoken /\ FirstComeFirstWoken

\* The open waits are those on the threads' stacks.
LEMMA Open ==
  /\ \A a, n : <<a, n>> \in OpenWaits <=> a \in Agents /\ n \in 1 .. Depth(a)
  /\ \A u \in OpenWaits : u = <<u[1], u[2]>>
BY DEF OpenWaits

\* What Front() leaves of a stack.
LEMMA Popped ==
  ASSUME NEW S, NEW s \in Seq(S), Len(s) > 0
  PROVE  /\ Front(s) \in Seq(S)
         /\ Len(Front(s)) = Len(s) - 1
         /\ \A k \in 1 .. (Len(s) - 1) : Front(s)[k] = s[k]
<1>1. Front(s) = SubSeq(s, 1, Len(s) - 1)
  BY DEF Front
<1>2. Len(s) \in Nat /\ \A k \in 1 .. (Len(s) - 1) : s[k] \in S
  BY LenProperties
<1> DEFINE m == Len(s) - 1
           front == SubSeq(s, 1, m)
<1>3. m \in Nat /\ 1 \in Int /\ m \in Int
  BY <1>2
<1> HIDE DEF m
<1>4. /\ front \in Seq(S)
      /\ Len(front) = IF 1 <= m THEN m - 1 + 1 ELSE 0
      /\ \A k \in 1 .. (m - 1 + 1) : front[k] = s[1 + k - 1]
  BY <1>2, <1>3, SubSeqProperties DEF m
<1>5. Len(front) = m /\ \A k \in 1 .. m : front[k] = s[k]
  BY <1>3, <1>4
<1> QED
  BY <1>1, <1>4, <1>5 DEF m

\* The depth of a thread's stack is a number.
LEMMA Deep ==
  ASSUME TypeOK, NEW a \in Agents
  PROVE  /\ wait[a] \in Seq([loc : Locations, timed : BOOLEAN])
         /\ Depth(a) \in Nat
<1>1. wait[a] \in Seq([loc : Locations, timed : BOOLEAN])
  BY DEF TypeOK
<1> QED
  BY <1>1, LenProperties DEF Depth

\* What a listed node is: an open wait of a thread inside wait().
LEMMA Listed ==
  ASSUME IInv, NEW i \in DOMAIN waiters
  PROVE  /\ waiters[i] = <<waiters[i][1], waiters[i][2]>>
         /\ waiters[i][1] \in Agents /\ waiters[i][1] \in CanWait
         /\ waiters[i][2] \in 1 .. Depth(waiters[i][1])
         /\ InWait(waiters[i][1])
<1> DEFINE u == waiters[i]
<1>1. u \in CanWait \X Nat
  BY DEF IInv, TypeOK
<1>2. u = <<u[1], u[2]>> /\ u[1] \in CanWait /\ u[1] \in Agents
  BY <1>1, FutexAssumption
<1>3. u \in OpenWaits
  BY DEF IInv, WaitersExact, ToSet
<1>4. u[2] \in 1 .. Depth(u[1])
  BY <1>2, <1>3, Open
<1>5. Depth(u[1]) > 0
  BY <1>2, <1>4, Deep DEF IInv
<1> QED
  BY <1>2, <1>4, <1>5 DEF IInv, WaitersExact

\* Every open wait is listed.
LEMMA HasNode ==
  ASSUME IInv, NEW a \in Agents, NEW n \in 1 .. Depth(a)
  PROVE  \E i \in DOMAIN waiters : waiters[i] = <<a, n>>
<1>1. <<a, n>> \in ToSet(waiters)
  BY Open DEF IInv, WaitersExact
<1> QED
  BY <1>1 DEF ToSet

\* A thread whose handlers have called no wait() has the one node of its wait,
\* and waits or has been counted.
LEMMA OneNode ==
  ASSUME IInv, NEW i \in DOMAIN waiters, ~nested[waiters[i][1]]
  PROVE  /\ waiters[i] = <<waiters[i][1], 1>>
         /\ \A j \in DOMAIN waiters : waiters[j][1] = waiters[i][1] => j = i
         /\ IsWaiting(waiters[i][1]) \/ counted[waiters[i][1]]
<1> DEFINE a == waiters[i][1]
<1>1. a \in Agents /\ Depth(a) \in Nat /\ Depth(a) <= 1 /\ InWait(a)
  BY Listed, Deep DEF IInv, Nesting
<1>2. ASSUME NEW j \in DOMAIN waiters, waiters[j][1] = a
      PROVE  waiters[j] = <<a, 1>>
  <2>1. waiters[j] = <<a, waiters[j][2]>> /\ waiters[j][2] \in 1 .. Depth(a)
    BY <1>2, Listed
  <2>2. waiters[j][2] = 1
    BY <1>1, <2>1
  <2> QED
    BY <2>1, <2>2
<1>3. \A j \in DOMAIN waiters : waiters[j][1] = a => j = i
  BY <1>2 DEF IInv, WaitersExact, IsInjective
<1>4. IsWaiting(a) \/ counted[a]
  BY <1>1 DEF IInv, TypeOK, Nesting, CountedIsWoken, IsWaiting
<1> QED
  BY <1>2, <1>3, <1>4

-----------------------------------------------------------------------------
(* One lemma for each way to change the list.                              *)

\* wait() puts its thread at the end, with one more wait on its stack.
LEMMA WaitIInv ==
  ASSUME IInv, NEW a \in Agents, NEW l \in Locations, NEW timed \in BOOLEAN,
         Wait(a, l, timed)
  PROVE  IInv'
<1> DEFINE n == Len(waiters)
           d == Depth(a)
           new == [loc |-> l, timed |-> timed]
<1>1. /\ d \in Nat /\ wait[a] \in Seq([loc : Locations, timed : BOOLEAN])
      /\ d > 0 <=> pc[a] = "handler"
      /\ d = 0 => state[a] = "Idle"
  <2>1. /\ d \in Nat /\ wait[a] \in Seq([loc : Locations, timed : BOOLEAN])
    BY Deep DEF IInv
  <2>2. pc[a] # "script" <=> d > 0
    BY DEF IInv, WaitersExact, InWait
  <2>3. pc[a] \in {"script", "handler"}
    BY DEF Wait, Runs
  <2>4. pc[a] = "script" => state[a] = "Idle"
    BY DEF IInv, WaitersExact, InWait
  <2> HIDE DEF d
  <2> QED
    BY <2>1, <2>2, <2>3, <2>4
<1>2. /\ wait' = [wait EXCEPT ![a] = Append(@, new)]
      /\ wait'[a] = Append(wait[a], new)
      /\ \A b \in Agents : b # a => wait'[b] = wait[b]
  BY DEF Wait, IInv, TypeOK
<1>3. /\ wait'[a] \in Seq([loc : Locations, timed : BOOLEAN])
      /\ Depth(a)' = d + 1
      /\ \A k \in 1..d : wait'[a][k] = wait[a][k]
  <2>1. new \in [loc : Locations, timed : BOOLEAN]
    OBVIOUS
  <2>2. d = Len(wait[a])
    BY DEF Depth
  <2> HIDE DEF d, new
  <2>3. /\ Append(wait[a], new) \in Seq([loc : Locations, timed : BOOLEAN])
        /\ Len(Append(wait[a], new)) = Len(wait[a]) + 1
        /\ \A k \in 1 .. Len(wait[a]) : Append(wait[a], new)[k] = wait[a][k]
    BY <1>1, <2>1, AppendProperties
  <2> QED
    BY <1>2, <2>2, <2>3 DEF Depth
<1>4. \A b \in Agents : b # a => Depth(b)' = Depth(b)
  BY <1>2 DEF Depth
<1>5. /\ n \in Nat /\ DOMAIN waiters = 1..n /\ DOMAIN waiters' = 1..(n + 1)
      /\ \A i \in 1..n : waiters'[i] = waiters[i]
      /\ waiters'[n + 1] = <<a, d + 1>>
      /\ waiters' \in Seq(CanWait \X Nat)
  <2>1. waiters \in Seq(CanWait \X Nat) /\ <<a, d + 1>> \in CanWait \X Nat
    BY <1>1 DEF IInv, TypeOK, Wait
  <2>2. waiters' = Append(waiters, <<a, d + 1>>)
    BY DEF Wait, Enqueue
  <2> HIDE DEF d
  <2> QED
    BY <2>1, <2>2
<1>6. /\ pc' = [pc EXCEPT ![a] = IF state[a] = "WaitingInterrupted" THEN "refused" ELSE "sleep"]
      /\ state' = [state EXCEPT ![a] = IF state[a] = "WaitingInterrupted" THEN @ ELSE "Waiting"]
      /\ signalled' = [signalled EXCEPT ![a] = IF state[a] = "WaitingInterrupted" THEN @ ELSE FALSE]
      /\ nested' = [nested EXCEPT ![a] = (pc[a] = "handler")]
      /\ counted' = [counted EXCEPT ![a] = IF pc[a] = "handler" THEN @ ELSE FALSE]
      /\ result' = [result EXCEPT ![a] = IF pc[a] = "handler" THEN @ ELSE "none"]
      /\ UNCHANGED <<bits, asked, requests>>
  BY DEF IInv, TypeOK, Wait, Sleep, Refuse, interruptVars
<1> HIDE DEF d, new
<1>7. TypeOK'
  <2>1. wait' \in [Agents -> Seq([loc : Locations, timed : BOOLEAN])]
    BY <1>2, <1>3 DEF IInv, TypeOK
  <2> QED
    BY <1>5, <1>6, <2>1 DEF IInv, TypeOK
<1>8. Nesting'
  <2> SUFFICES ASSUME NEW b \in Agents
               PROVE  /\ pc'[b] = "refused" => nested'[b] /\ Depth(b)' > 1
                      /\ ~nested'[b] => Depth(b)' <= 1 /\ (InWait(b)' <=> state'[b] # "Idle")
                      /\ InWait(b)' => result'[b] = "none"
    BY DEF Nesting
  <2>1. CASE b = a
    <3>1. pc'[a] = "refused" => d # 0
      BY <1>1, <1>6 DEF IInv, TypeOK
    <3>2. pc[a] = "handler" => result[a] = "none"
      BY DEF IInv, Nesting, InWait
    <3>3. /\ pc'[a] = "refused" => nested'[a]
          /\ ~nested'[a] => d = 0 /\ InWait(a)' /\ state'[a] # "Idle"
          /\ result'[a] = "none"
      <4>1. d = 0 \/ pc[a] = "handler"
        BY <1>1
      <4>2. nested'[a] <=> pc[a] = "handler"
        BY <1>6 DEF IInv, TypeOK
      <4>3. CASE pc[a] = "handler"
        BY <1>6, <3>2, <4>2, <4>3 DEF IInv, TypeOK
      <4>4. CASE d = 0
        BY <1>1, <1>6, <4>1, <4>4 DEF IInv, TypeOK, InWait
      <4> QED
        BY <4>1, <4>3, <4>4
    <3> QED
      BY <1>1, <1>3, <2>1, <3>1, <3>3
  <2>2. CASE b # a
    BY <1>4, <1>6, <2>2 DEF IInv, TypeOK, Nesting, InWait
  <2> QED
    BY <2>1, <2>2
<1>9. WaitersExact'
  <2>1. \A i \in 1..n : waiters[i] # <<a, d + 1>>
    <3> SUFFICES ASSUME NEW i \in 1..n, waiters[i] = <<a, d + 1>> PROVE FALSE
      OBVIOUS
    <3>1. waiters[i][1] = a /\ waiters[i][2] = d + 1 /\ i \in DOMAIN waiters
      BY <1>5
    <3>2. d + 1 \in 1..d
      BY <3>1, Listed DEF d
    <3> QED
      BY <1>1, <3>2
  <2>2. IsInjective(waiters)'
    <3>1. \A i, j \in 1..n : waiters[i] = waiters[j] => i = j
      BY <1>5 DEF IInv, WaitersExact, IsInjective
    <3>2. \A i, j \in 1..(n + 1) : waiters'[i] = waiters'[j] => i = j
      BY <1>5, <2>1, <3>1
    <3> QED
      BY <1>5, <3>2 DEF IsInjective
  <2>3. ToSet(waiters)' = ToSet(waiters) \cup {<<a, d + 1>>}
    <3>1. /\ n + 1 \in 1..(n + 1)
          /\ \A i \in 1..n : i \in 1..(n + 1)
          /\ \A i \in 1..(n + 1) : i \in 1..n \/ i = n + 1
      BY <1>5
    <3>2. ASSUME NEW x \in ToSet(waiters)' PROVE x \in ToSet(waiters) \cup {<<a, d + 1>>}
      <4>1. PICK i \in 1..(n + 1) : x = waiters'[i]
        BY <1>5, <3>2 DEF ToSet
      <4> QED
        BY <1>5, <3>1, <4>1 DEF ToSet
    <3>3. ASSUME NEW x \in ToSet(waiters) PROVE x \in ToSet(waiters)'
      <4>1. PICK i \in 1..n : x = waiters[i]
        BY <1>5, <3>3 DEF ToSet
      <4> QED
        BY <1>5, <3>1, <4>1 DEF ToSet
    <3>4. <<a, d + 1>> \in ToSet(waiters)'
      BY <1>5, <3>1 DEF ToSet
    <3> QED
      BY <3>2, <3>3, <3>4
  <2>4. OpenWaits' = OpenWaits \cup {<<a, d + 1>>}
    <3>1. OpenWaits' = UNION {{b} \X (1 .. Depth(b)') : b \in Agents}
      BY DEF OpenWaits
    <3>2. \A b \in Agents : {b} \X (1 .. Depth(b)') =
            IF b = a THEN ({a} \X (1 .. Depth(a))) \cup {<<a, d + 1>>} ELSE {b} \X (1 .. Depth(b))
      <4>1. 1 .. (d + 1) = (1 .. d) \cup {d + 1}
        BY <1>1
      <4> QED
        BY <1>3, <1>4, <4>1 DEF d
    <3> QED
      BY <3>1, <3>2 DEF OpenWaits
  <2>5. \A i, j \in DOMAIN waiters' :
          waiters'[i][1] = waiters'[j][1] /\ waiters'[i][2] < waiters'[j][2] => i < j
    <3> SUFFICES ASSUME NEW i \in 1..(n + 1), NEW j \in 1..(n + 1),
                        waiters'[i][1] = waiters'[j][1], waiters'[i][2] < waiters'[j][2]
                 PROVE  i < j
      BY <1>5
    <3>1. CASE i \in 1..n /\ j \in 1..n
      BY <1>5, <3>1 DEF IInv, WaitersExact
    <3>2. CASE i = n + 1 /\ j \in 1..n
      <4>1. waiters[j][2] \in 1..d
        <5>1. waiters[j][1] = a /\ j \in DOMAIN waiters
          BY <1>5, <3>2
        <5> QED
          BY <5>1, Listed DEF d
      <4> QED
        BY <1>1, <1>5, <3>2, <4>1
    <3>3. CASE j = n + 1
      BY <1>1, <1>5, <3>3
    <3> QED
      BY <1>5, <3>1, <3>2, <3>3
  <2>6. \A b \in Agents :
          /\ InWait(b)' <=> Depth(b)' > 0
          /\ ~InWait(b)' => state'[b] = "Idle"
          /\ pc'[b] = "sleep" => \/ state'[b] = "Waiting"
                                 \/ /\ state'[b] \in {"WaitingNotifiedForInterrupt", "Woken"}
                                    /\ signalled'[b]
    <3> TAKE b \in Agents
    <3>1. CASE b = a
      BY <1>1, <1>3, <1>6, <3>1 DEF IInv, TypeOK, InWait
    <3>2. CASE b # a
      BY <1>4, <1>6, <3>2 DEF IInv, TypeOK, WaitersExact, InWait
    <3> QED
      BY <3>1, <3>2
  <2> QED
    BY <2>2, <2>3, <2>4, <2>5, <2>6 DEF IInv, WaitersExact
<1>10. CountedIsWoken'
  <2> SUFFICES ASSUME NEW b \in Agents, ~nested'[b]
               PROVE  /\ InWait(b)' => (counted'[b] <=> state'[b] = "Woken")
                      /\ ~InWait(b)' /\ counted'[b] => result'[b] \in {"OK", "Error"}
                      /\ result'[b] = "OK" => counted'[b]
    BY DEF CountedIsWoken
  <2>1. CASE b = a
    BY <1>1, <1>6, <2>1 DEF IInv, TypeOK, InWait
  <2>2. CASE b # a
    BY <1>6, <2>2 DEF IInv, TypeOK, CountedIsWoken, InWait
  <2> QED
    BY <2>1, <2>2
<1>11. FirstComeFirstWoken'
  <2> SUFFICES ASSUME NEW i \in 1..(n + 1), NEW j \in 1..(n + 1), i < j,
                      waiters'[i][2] = 1, waiters'[j][2] = 1,
                      wait'[waiters'[i][1]][1].loc = wait'[waiters'[j][1]][1].loc,
                      counted'[waiters'[j][1]], ~nested'[waiters'[i][1]]
               PROVE  counted'[waiters'[i][1]]
    BY <1>5 DEF FirstComeFirstWoken
  <2>1. j \in 1..n
    <3>1. ASSUME j = n + 1 PROVE FALSE
      <4>1. d + 1 = 1 /\ counted'[a]
        BY <1>5, <3>1
      <4> QED
        BY <1>1, <1>6, <4>1 DEF IInv, TypeOK
    <3> QED
      BY <1>5, <3>1
  <2>2. i \in 1..n
    BY <1>5, <2>1
  <2>3. ASSUME NEW k \in 1..n, waiters[k][2] = 1
        PROVE  /\ wait'[waiters[k][1]][1] = wait[waiters[k][1]][1]
               /\ counted'[waiters[k][1]] = counted[waiters[k][1]]
               /\ nested[waiters[k][1]] => nested'[waiters[k][1]]
    <3> DEFINE b == waiters[k][1]
    <3>1. b \in Agents /\ 1 \in 1 .. Depth(b)
      BY <1>5, <2>3, Listed
    <3>2. CASE b = a
      <4>1. 1 \in 1..d /\ d > 0 /\ pc[a] = "handler"
        BY <1>1, <3>1, <3>2 DEF d
      <4> QED
        BY <1>3, <1>6, <3>2, <4>1 DEF IInv, TypeOK
    <3>3. CASE b # a
      BY <1>2, <1>6, <3>1, <3>3 DEF IInv, TypeOK
    <3> QED
      BY <3>2, <3>3
  <2>4. /\ waiters[i][2] = 1 /\ waiters[j][2] = 1
        /\ wait[waiters[i][1]][1].loc = wait[waiters[j][1]][1].loc
        /\ counted[waiters[j][1]] /\ ~nested[waiters[i][1]]
    <3>1. waiters'[i] = waiters[i] /\ waiters'[j] = waiters[j]
      BY <1>5, <2>1, <2>2
    <3>2. waiters[i][2] = 1 /\ waiters[j][2] = 1
      BY <3>1
    <3> QED
      BY <2>1, <2>2, <2>3, <3>1, <3>2
  <2>5. counted[waiters[i][1]]
    BY <1>5, <2>1, <2>2, <2>4 DEF IInv, FirstComeFirstWoken
  <2> QED
    BY <1>5, <2>2, <2>3, <2>4, <2>5
<1> QED
  BY <1>7, <1>8, <1>9, <1>10, <1>11 DEF IInv

\* What unlinking the innermost wait of a thread leaves, and where.
LEMMA Unlinked ==
  ASSUME IInv, NEW a \in Agents, Unlink(a)
  PROVE  \E k \in DOMAIN waiters :
           /\ waiters[k] = <<a, Depth(a)>>
           /\ waiters' \in Seq(CanWait \X Nat)
           /\ DOMAIN waiters' = 1 .. (Len(waiters) - 1)
           /\ \A i \in 1 .. (Len(waiters) - 1) : waiters'[i] = waiters[IF i < k THEN i ELSE i + 1]
<1>1. PICK k \in DOMAIN waiters : waiters[k] = <<a, Depth(a)>> /\ waiters' = RemoveAt(waiters, k)
  BY DEF Unlink
<1>2. waiters \in Seq(CanWait \X Nat)
  BY DEF IInv, TypeOK
<1>3. /\ RemoveAt(waiters, k) \in Seq(CanWait \X Nat)
      /\ DOMAIN RemoveAt(waiters, k) = 1 .. (Len(waiters) - 1)
      /\ \A i \in 1 .. (Len(waiters) - 1) :
           RemoveAt(waiters, k)[i] = waiters[IF i < k THEN i ELSE i + 1]
  BY <1>1, <1>2, RemoveAtProperties
<1> QED
  BY <1>1, <1>3

\* A wait() that ends takes its node out; the others keep their order.
LEMMA LeaveIInv ==
  ASSUME IInv, NEW a \in Agents, InWait(a), Leave(a),
         NEW s \in {"Idle", state[a]}, state' = [state EXCEPT ![a] = s],
         s = "Idle" \/ pc[a] = "refused",
         NEW g \in BOOLEAN, signalled' = [signalled EXCEPT ![a] = g],
         NEW r \in {"OK", "TimedOut", "Error"},
         result' = IF Depth(a) = 1 THEN [result EXCEPT ![a] = r] ELSE result,
         ~nested[a] => (r = "OK" => counted[a]) /\ (r = "TimedOut" => ~counted[a])
  PROVE  IInv'
<1> DEFINE n == Len(waiters)
           d == Depth(a)
<1>1. /\ d \in Nat /\ d >= 1
      /\ wait[a] \in Seq([loc : Locations, timed : BOOLEAN])
      /\ pc[a] = "refused" => d > 1 /\ nested[a]
      /\ ~nested[a] => d = 1
  <2>1. d \in Nat /\ wait[a] \in Seq([loc : Locations, timed : BOOLEAN])
    BY Deep DEF IInv
  <2>2. d > 0 /\ (pc[a] = "refused" => d > 1 /\ nested[a]) /\ (~nested[a] => d <= 1)
    BY DEF IInv, WaitersExact, Nesting
  <2> HIDE DEF d
  <2> QED
    BY <2>1, <2>2
<1>2. /\ wait'[a] \in Seq([loc : Locations, timed : BOOLEAN])
      /\ Depth(a)' = d - 1
      /\ \A m \in 1 .. (d - 1) : wait'[a][m] = wait[a][m]
      /\ \A b \in Agents : b # a => wait'[b] = wait[b] /\ Depth(b)' = Depth(b)
  <2>1. wait' = [wait EXCEPT ![a] = Front(@)]
    BY DEF Leave
  <2>2. wait'[a] = Front(wait[a]) /\ \A b \in Agents : b # a => wait'[b] = wait[b]
    BY <2>1 DEF IInv, TypeOK
  <2>3. Len(wait[a]) > 0
    BY <1>1 DEF Depth
  <2>4. /\ Front(wait[a]) \in Seq([loc : Locations, timed : BOOLEAN])
        /\ Len(Front(wait[a])) = Len(wait[a]) - 1
        /\ \A m \in 1 .. (Len(wait[a]) - 1) : Front(wait[a])[m] = wait[a][m]
    BY <1>1, <2>3, Popped
  <2> QED
    BY <2>2, <2>4 DEF Depth
<1>3. PICK k \in DOMAIN waiters :
        /\ waiters[k] = <<a, d>>
        /\ waiters' \in Seq(CanWait \X Nat)
        /\ DOMAIN waiters' = 1 .. (Len(waiters) - 1)
        /\ \A i \in 1 .. (Len(waiters) - 1) : waiters'[i] = waiters[IF i < k THEN i ELSE i + 1]
  BY Unlinked DEF Leave
<1> DEFINE old(i) == IF i < k THEN i ELSE i + 1
<1>4. /\ n \in Nat /\ DOMAIN waiters = 1..n /\ k \in 1..n
      /\ \A i \in 1..(n - 1) : waiters'[i] = waiters[old(i)]
  BY <1>3, LenProperties DEF IInv, TypeOK
<1>5. /\ \A i \in 1..(n - 1) : old(i) \in 1..n /\ old(i) # k
      /\ \A i, j \in 1..(n - 1) : i < j <=> old(i) < old(j)
      /\ \A i, j \in 1..(n - 1) : old(i) = old(j) => i = j
  BY <1>4
<1>6. \A i, j \in 1..n : waiters[i] = waiters[j] => i = j
  BY <1>4 DEF IInv, WaitersExact, IsInjective
<1>7. \A i \in 1..(n - 1) : waiters'[i] # <<a, d>>
  <2> TAKE i \in 1..(n - 1)
  <2>1. old(i) \in 1..n /\ old(i) # k /\ waiters'[i] = waiters[old(i)]
    BY <1>4, <1>5
  <2> HIDE DEF old
  <2>2. waiters[old(i)] # waiters[k]
    BY <1>4, <1>6, <2>1
  <2> QED
    BY <1>3, <2>1, <2>2
<1>8. /\ pc' = [pc EXCEPT ![a] = IF d = 1 THEN "script" ELSE "handler"]
      /\ UNCHANGED <<bits, asked, requests, counted, nested>>
  BY DEF Leave, interruptVars
<1> HIDE DEF d, old
<1>9. TypeOK'
  <2>1. wait' \in [Agents -> Seq([loc : Locations, timed : BOOLEAN])]
    BY <1>2 DEF IInv, TypeOK, Leave
  <2>2. result' \in [Agents -> {"none", "OK", "TimedOut", "Error"}]
    BY DEF IInv, TypeOK
  <2> QED
    BY <1>3, <1>8, <2>1, <2>2 DEF IInv, TypeOK
<1>10. Nesting'
  <2> SUFFICES ASSUME NEW b \in Agents
               PROVE  /\ pc'[b] = "refused" => nested'[b] /\ Depth(b)' > 1
                      /\ ~nested'[b] => Depth(b)' <= 1 /\ (InWait(b)' <=> state'[b] # "Idle")
                      /\ InWait(b)' => result'[b] = "none"
    BY DEF Nesting
  <2>1. CASE b = a
    <3>1. pc'[a] # "refused" /\ (InWait(a)' <=> d # 1)
      BY <1>8 DEF IInv, TypeOK, InWait
    <3>2. d # 1 => result'[a] = "none"
      BY DEF IInv, Nesting, d
    <3>3. ~nested'[a] => d = 1 /\ state'[a] = "Idle"
      BY <1>1, <1>8 DEF IInv, TypeOK
    <3> QED
      BY <1>1, <1>2, <2>1, <3>1, <3>2, <3>3
  <2>2. CASE b # a
    <3>1. result'[b] = result[b]
      BY <2>2 DEF IInv, TypeOK
    <3> QED
      BY <1>2, <1>8, <2>2, <3>1 DEF IInv, TypeOK, Nesting, InWait
  <2> QED
    BY <2>1, <2>2
<1>11. WaitersExact'
  <2>1. IsInjective(waiters)'
    <3>1. \A i, j \in 1..(n - 1) : waiters'[i] = waiters'[j] => i = j
      <4> TAKE i, j \in 1..(n - 1)
      <4> HAVE waiters'[i] = waiters'[j]
      <4>1. old(i) = old(j)
        BY <1>4, <1>5, <1>6
      <4> QED
        BY <1>5, <4>1
    <3> QED
      BY <1>3, <3>1 DEF IsInjective
  <2>2. ToSet(waiters)' = ToSet(waiters) \ {<<a, d>>}
    <3>1. ASSUME NEW u \in ToSet(waiters), u # <<a, d>>
          PROVE  \E i \in 1..(n - 1) : waiters'[i] = u
      <4>1. PICK j \in 1..n : waiters[j] = u
        BY <1>4, <3>1 DEF ToSet
      <4>2. CASE j < k
        BY <1>4, <4>1, <4>2 DEF old
      <4>3. CASE j > k
        <5>1. j - 1 \in 1..(n - 1) /\ old(j - 1) = j
          BY <1>4, <4>3 DEF old
        <5> QED
          BY <1>4, <4>1, <5>1
      <4>4. j # k
        BY <1>3, <3>1, <4>1
      <4> QED
        BY <1>4, <4>2, <4>3, <4>4
    <3>2. \A i \in 1..(n - 1) : waiters'[i] \in ToSet(waiters) \ {<<a, d>>}
      BY <1>4, <1>5, <1>7 DEF ToSet
    <3>3. ToSet(waiters)' = {waiters'[i] : i \in 1..(n - 1)}
      BY <1>3 DEF ToSet
    <3> QED
      BY <3>1, <3>2, <3>3
  <2>3. OpenWaits' = OpenWaits \ {<<a, d>>}
    <3>1. OpenWaits' = UNION {{b} \X (1 .. Depth(b)') : b \in Agents}
      BY DEF OpenWaits
    <3>2. \A b \in Agents : {b} \X (1 .. Depth(b)') = ({b} \X (1 .. Depth(b))) \ {<<a, d>>}
      <4>1. 1 .. (d - 1) = (1 .. d) \ {d}
        BY <1>1
      <4> QED
        BY <1>2, <4>1 DEF d
    <3> QED
      BY <3>1, <3>2 DEF OpenWaits
  <2>4. \A i, j \in DOMAIN waiters' :
          waiters'[i][1] = waiters'[j][1] /\ waiters'[i][2] < waiters'[j][2] => i < j
    <3> SUFFICES ASSUME NEW i \in 1..(n - 1), NEW j \in 1..(n - 1),
                        waiters'[i][1] = waiters'[j][1], waiters'[i][2] < waiters'[j][2]
                 PROVE  i < j
      BY <1>3
    <3>1. old(i) \in DOMAIN waiters /\ old(j) \in DOMAIN waiters
      BY <1>4, <1>5
    <3>2. /\ waiters[old(i)][1] = waiters[old(j)][1]
          /\ waiters[old(i)][2] < waiters[old(j)][2]
      BY <1>4
    <3>3. old(i) < old(j)
      BY <3>1, <3>2 DEF IInv, WaitersExact
    <3> QED
      BY <1>5, <3>3
  <2>5. \A b \in Agents :
          /\ InWait(b)' <=> Depth(b)' > 0
          /\ ~InWait(b)' => state'[b] = "Idle"
          /\ pc'[b] = "sleep" => \/ state'[b] = "Waiting"
                                 \/ /\ state'[b] \in {"WaitingNotifiedForInterrupt", "Woken"}
                                    /\ signalled'[b]
    <3> TAKE b \in Agents
    <3>1. CASE b = a
      <4>1. InWait(a)' <=> d # 1
        BY <1>8 DEF IInv, TypeOK, InWait
      <4>2. d = 1 => state'[a] = "Idle"
        BY <1>1 DEF IInv, TypeOK
      <4>3. pc'[a] # "sleep"
        BY <1>8 DEF IInv, TypeOK
      <4> QED
        BY <1>1, <1>2, <3>1, <4>1, <4>2, <4>3
    <3>2. CASE b # a
      BY <1>2, <1>8, <3>2 DEF IInv, TypeOK, WaitersExact, InWait
    <3> QED
      BY <3>1, <3>2
  <2> QED
    BY <2>1, <2>2, <2>3, <2>4, <2>5 DEF IInv, WaitersExact
<1>12. CountedIsWoken'
  <2> SUFFICES ASSUME NEW b \in Agents, ~nested'[b]
               PROVE  /\ InWait(b)' => (counted'[b] <=> state'[b] = "Woken")
                      /\ ~InWait(b)' /\ counted'[b] => result'[b] \in {"OK", "Error"}
                      /\ result'[b] = "OK" => counted'[b]
    BY DEF CountedIsWoken
  <2>1. CASE b = a
    <3>1. d = 1 /\ ~nested[a]
      BY <1>1, <1>8, <2>1
    <3>2. ~InWait(a)' /\ result'[a] = r /\ counted' = counted
      BY <1>8, <3>1 DEF IInv, TypeOK, InWait, d
    <3> QED
      BY <2>1, <3>1, <3>2
  <2>2. CASE b # a
    <3>1. result'[b] = result[b]
      BY <2>2 DEF IInv, TypeOK
    <3> QED
      BY <1>8, <2>2, <3>1 DEF IInv, TypeOK, CountedIsWoken, InWait
  <2> QED
    BY <2>1, <2>2
<1>13. FirstComeFirstWoken'
  <2> SUFFICES ASSUME NEW i \in 1..(n - 1), NEW j \in 1..(n - 1), i < j,
                      waiters'[i][2] = 1, waiters'[j][2] = 1,
                      wait'[waiters'[i][1]][1].loc = wait'[waiters'[j][1]][1].loc,
                      counted[waiters'[j][1]], ~nested[waiters'[i][1]]
               PROVE  counted[waiters'[i][1]]
    BY <1>3, <1>8 DEF FirstComeFirstWoken
  <2>1. ASSUME NEW m \in 1..(n - 1), waiters'[m][2] = 1
        PROVE  wait'[waiters'[m][1]][1] = wait[waiters[old(m)][1]][1]
    <3>1. waiters'[m] = waiters[old(m)] /\ old(m) \in DOMAIN waiters
      BY <1>4, <1>5
    <3> DEFINE b == waiters[old(m)][1]
    <3>2. b \in Agents /\ waiters[old(m)] = <<b, 1>> /\ 1 \in 1 .. Depth(b)
      BY <2>1, <3>1, Listed
    <3>3. CASE b = a
      <4>1. d # 1 /\ 1 \in 1..d
        BY <1>7, <3>1, <3>2, <3>3 DEF d
      <4>2. 1 \in 1 .. (d - 1)
        BY <1>1, <4>1
      <4> QED
        BY <1>2, <3>1, <3>3, <4>2
    <3>4. CASE b # a
      BY <1>2, <3>1, <3>2, <3>4
    <3> QED
      BY <3>3, <3>4
  <2>2. /\ old(i) \in DOMAIN waiters /\ old(j) \in DOMAIN waiters /\ old(i) < old(j)
        /\ waiters'[i] = waiters[old(i)] /\ waiters'[j] = waiters[old(j)]
    BY <1>4, <1>5
  <2>3. wait[waiters[old(i)][1]][1].loc = wait[waiters[old(j)][1]][1].loc
    BY <2>1
  <2> QED
    BY <2>2, <2>3 DEF IInv, FirstComeFirstWoken
<1> QED
  BY <1>9, <1>10, <1>11, <1>12, <1>13 DEF IInv

\* What wait() does when it returns a result.
LEMMA ReturnIInv ==
  ASSUME IInv, NEW a \in Agents, NEW r \in {"OK", "TimedOut", "Error"}, InWait(a), Return(a, r),
         ~nested[a] => (r = "OK" => counted[a]) /\ (r = "TimedOut" => ~counted[a])
  PROVE  IInv'
<1>1. /\ Leave(a) /\ state' = [state EXCEPT ![a] = "Idle"]
      /\ signalled' = [signalled EXCEPT ![a] = FALSE]
      /\ result' = IF Depth(a) = 1 THEN [result EXCEPT ![a] = r] ELSE result
  BY DEF Return
<1> QED
  BY <1>1, LeaveIInv

-----------------------------------------------------------------------------
(* Steps that leave the list as it is.                                     *)

\* What notify() may wake: a thread inside wait() that waits, in its only wait
\* for the location if its handlers have called none.
LEMMA WaitsAt ==
  ASSUME IInv, NEW l, NEW c \in Eligible(l)
  PROVE  /\ c \in Agents /\ IsWaiting(c) /\ InWait(c)
         /\ ~nested[c] => wait[c][1].loc = l
<1>1. PICK i \in DOMAIN waiters : NodeAt(i, l, c)
  BY DEF Eligible
<1>2. c \in Agents /\ IsWaiting(c)
  BY DEF Eligible
<1>3. waiters[i][1] = c /\ InWait(c)
  BY <1>1, Listed DEF NodeAt
<1>4. ~nested[c] => waiters[i] = <<c, 1>>
  BY <1>3, OneNode
<1> QED
  BY <1>1, <1>2, <1>3, <1>4 DEF NodeAt

\* notify() counts waiters it wakes, and passes over none that may be woken.
LEMMA NotifyIInv ==
  ASSUME IInv, NEW b \in Agents, NEW l \in Locations, NEW count \in Counts,
         Notify(b, l, count)
  PROVE  IInv'
<1> DEFINE chosen == Chosen(l, count)
           earlier(x) == {c \in Eligible(l) : Ahead(l, c, x)}
<1>1. /\ chosen \subseteq Eligible(l)
      /\ \A c \in chosen : count = -1 \/ Cardinality(earlier(c)) < count
      /\ \A c \in Eligible(l) : count = -1 \/ Cardinality(earlier(c)) < count => c \in chosen
  BY DEF Chosen
<1>2. /\ state' = [a \in Agents |-> IF a \in chosen THEN "Woken" ELSE state[a]]
      /\ signalled' = [a \in Agents |-> (a \in chosen /\ state[a] = "Waiting") \/ signalled[a]]
      /\ counted' = [a \in Agents |-> (a \in chosen /\ wait[a][1].loc = l) \/ counted[a]]
      /\ UNCHANGED <<waiters, pc, wait, bits, asked, requests, nested, result>>
  BY DEF Notify, interruptVars
<1> HIDE DEF chosen
<1>3. \A c \in Eligible(l) : /\ c \in Agents /\ IsWaiting(c) /\ InWait(c)
                             /\ ~nested[c] => wait[c][1].loc = l
  BY WaitsAt
<1>4. TypeOK'
  BY <1>2 DEF IInv, TypeOK
<1>5. \A c \in Agents :
        /\ pc'[c] = pc[c] /\ Depth(c)' = Depth(c) /\ (InWait(c)' <=> InWait(c))
        /\ state'[c] = IF c \in chosen THEN "Woken" ELSE state[c]
        /\ c \in chosen => InWait(c) /\ state[c] \notin {"Idle", "Woken"}
  BY <1>1, <1>2, <1>3 DEF InWait, Depth, IsWaiting
<1>6. Nesting'
  BY <1>2, <1>5 DEF IInv, Nesting
<1>7. WaitersExact'
  <2>1. /\ IsInjective(waiters)' /\ ToSet(waiters)' = OpenWaits'
        /\ \A i, j \in DOMAIN waiters' :
             waiters'[i][1] = waiters'[j][1] /\ waiters'[i][2] < waiters'[j][2] => i < j
    <3>1. OpenWaits' = OpenWaits
      BY <1>2 DEF OpenWaits, Depth
    <3> QED
      BY <1>2, <3>1 DEF IInv, WaitersExact, ToSet, IsInjective
  <2>2. \A c \in Agents :
          /\ InWait(c)' <=> Depth(c)' > 0
          /\ ~InWait(c)' => state'[c] = "Idle"
          /\ pc'[c] = "sleep" => \/ state'[c] = "Waiting"
                                 \/ /\ state'[c] \in {"WaitingNotifiedForInterrupt", "Woken"}
                                    /\ signalled'[c]
    BY <1>2, <1>5 DEF IInv, WaitersExact
  <2> QED
    BY <2>1, <2>2 DEF WaitersExact
<1>8. CountedIsWoken'
  <2> SUFFICES ASSUME NEW c \in Agents, ~nested[c]
               PROVE  /\ InWait(c)' => (counted'[c] <=> state'[c] = "Woken")
                      /\ ~InWait(c)' /\ counted'[c] => result[c] \in {"OK", "Error"}
                      /\ result[c] = "OK" => counted'[c]
    BY <1>2 DEF CountedIsWoken
  <2>1. counted'[c] <=> c \in chosen \/ counted[c]
    BY <1>1, <1>2, <1>3
  <2> QED
    BY <1>5, <2>1 DEF IInv, CountedIsWoken
<1>9. FirstComeFirstWoken'
  <2> SUFFICES ASSUME NEW i \in DOMAIN waiters, NEW j \in DOMAIN waiters, i < j,
                      waiters[i][2] = 1, waiters[j][2] = 1,
                      wait[waiters[i][1]][1].loc = wait[waiters[j][1]][1].loc,
                      counted'[waiters[j][1]], ~nested[waiters[i][1]], ~counted[waiters[i][1]]
               PROVE  counted'[waiters[i][1]]
    <3>1. \A a \in Agents : counted[a] => counted'[a]
      BY <1>2
    <3>2. \A i \in DOMAIN waiters : waiters[i][1] \in Agents
      BY Listed
    <3> QED
      BY <1>2, <3>1, <3>2 DEF FirstComeFirstWoken
  <2> DEFINE x == waiters[i][1]
             y == waiters[j][1]
  <2>1. x \in Agents /\ y \in Agents /\ i \in Nat /\ j \in Nat
    <3>1. DOMAIN waiters = 1 .. Len(waiters) /\ Len(waiters) \in Nat
      BY LenProperties DEF IInv, TypeOK
    <3> QED
      BY <3>1, Listed
  <2>2. ~counted[y]
    BY DEF IInv, FirstComeFirstWoken
  <2>3. y \in chosen /\ wait[y][1].loc = l
    BY <1>2, <2>1, <2>2
  <2>4. x \in Eligible(l)
    <3>1. IsWaiting(x)
      BY OneNode
    <3>2. NodeAt(i, l, x)
      BY <2>3 DEF NodeAt
    <3> QED
      BY <2>1, <3>1, <3>2 DEF Eligible
  <2>5. CASE count = -1
    BY <1>1, <1>2, <2>1, <2>3, <2>4, <2>5
  <2>6. CASE count # -1
    <3>1. Cardinality(earlier(y)) < count /\ count \in Nat
      BY <1>1, <2>3, <2>6, FutexAssumption
    <3>2. earlier(x) \subseteq earlier(y)
      <4> SUFFICES ASSUME NEW c \in Eligible(l), Ahead(l, c, x)
                   PROVE  Ahead(l, c, y)
        OBVIOUS
      <4>1. PICK p \in DOMAIN waiters :
              NodeAt(p, l, c) /\ \A q \in DOMAIN waiters : NodeAt(q, l, x) => p < q
        BY DEF Ahead
      <4>2. p < i
        BY <2>3, <4>1 DEF NodeAt
      <4>3. ASSUME NEW q \in DOMAIN waiters, NodeAt(q, l, y)
            PROVE  p < q
        <5>1. waiters[q][1] = y /\ waiters[q][2] \in 1 .. Depth(y) /\ Depth(y) \in Nat
          BY <2>1, <4>3, Listed, Deep DEF NodeAt, IInv
        <5>2. waiters[q][2] = 1 => q = j
          <6>1. waiters[j] = <<y, 1>> /\ waiters[q] = <<y, waiters[q][2]>>
            BY <5>1, Listed
          <6> QED
            BY <6>1 DEF IInv, WaitersExact, IsInjective
        <5>3. waiters[q][2] # 1 => j < q
          <6>1. waiters[q][2] # 1 => waiters[j][2] < waiters[q][2]
            BY <5>1
          <6> QED
            BY <5>1, <6>1 DEF IInv, WaitersExact
        <5>4. q \in Nat /\ p \in Nat
          <6>1. waiters \in Seq(CanWait \X Nat)
            BY DEF IInv, TypeOK
          <6>2. DOMAIN waiters = 1..Len(waiters) /\ Len(waiters) \in Nat
            BY <6>1, LenProperties
          <6> QED
            BY <6>2
        <5> QED
          BY <2>1, <4>2, <5>2, <5>3, <5>4
      <4> QED
        BY <4>1, <4>3 DEF Ahead
    <3>3. IsFiniteSet(earlier(y))
      <4>1. earlier(y) \subseteq Agents
        BY <1>3
      <4> QED
        BY <4>1, FutexAssumption, FS_Subset
    <3>4. /\ Cardinality(earlier(x)) <= Cardinality(earlier(y))
          /\ Cardinality(earlier(x)) \in Nat
          /\ Cardinality(earlier(y)) \in Nat
      BY <3>2, <3>3, FS_Subset, FS_CardinalityType
    <3>5. Cardinality(earlier(x)) < count
      BY <3>1, <3>4
    <3>6. x \in chosen
      BY <1>1, <2>4, <3>5
    <3> QED
      BY <1>2, <2>1, <2>3, <3>6
  <2> QED
    BY <2>5, <2>6
<1> QED
  BY <1>4, <1>6, <1>7, <1>8, <1>9 DEF IInv

\* A step that counts nobody and moves nobody into or out of wait() keeps the
\* invariant if threads go on to wait, and are told before they do.
LEMMA FrameIInv ==
  ASSUME IInv, TypeOK', UNCHANGED <<waiters, wait, counted, nested, result>>,
         \A a \in Agents :
           /\ InWait(a)' <=> InWait(a)
           /\ pc'[a] = "refused" => pc[a] = "refused"
           /\ ~nested[a] => (state'[a] = "Woken" <=> state[a] = "Woken")
           /\ ~nested[a] => (state'[a] = "Idle" <=> state[a] = "Idle")
           /\ ~InWait(a) => state'[a] = "Idle"
           /\ pc'[a] = "sleep" => \/ state'[a] = "Waiting"
                                  \/ /\ state'[a] \in {"WaitingNotifiedForInterrupt", "Woken"}
                                     /\ signalled'[a]
  PROVE  IInv'
<1>1. \A a \in Agents : Depth(a)' = Depth(a)
  BY DEF Depth
<1>2. Nesting'
  BY <1>1 DEF IInv, Nesting
<1>3. WaitersExact'
  <2>1. OpenWaits' = OpenWaits
    BY DEF OpenWaits, Depth
  <2>2. IsInjective(waiters)' /\ ToSet(waiters)' = OpenWaits'
    BY <2>1 DEF IInv, WaitersExact, ToSet, IsInjective
  <2>3. \A i, j \in DOMAIN waiters' :
          waiters'[i][1] = waiters'[j][1] /\ waiters'[i][2] < waiters'[j][2] => i < j
    BY DEF IInv, WaitersExact
  <2>4. \A a \in Agents : InWait(a)' <=> Depth(a)' > 0
    BY <1>1 DEF IInv, WaitersExact
  <2> QED
    BY <2>2, <2>3, <2>4 DEF WaitersExact
<1>4. CountedIsWoken'
  BY DEF IInv, CountedIsWoken
<1>5. FirstComeFirstWoken'
  BY DEF IInv, FirstComeFirstWoken
<1> QED
  BY <1>2, <1>3, <1>4, <1>5 DEF IInv

-----------------------------------------------------------------------------
(* The inductive step, and the theorems.                                   *)

LEMMA InitIInv == Init => IInv
<1> SUFFICES ASSUME Init PROVE IInv
  OBVIOUS
<1>1. \A a \in Agents : Depth(a) = 0 /\ ~InWait(a)
  BY DEF Init, Depth, InWait
<1>2. TypeOK
  BY FutexAssumption DEF Init, TypeOK
<1>3. Nesting
  BY <1>1 DEF Init, Nesting
<1>4. WaitersExact
  <2>1. OpenWaits = {}
    BY <1>1 DEF OpenWaits
  <2> QED
    BY <1>1, <2>1 DEF Init, WaitersExact, IsInjective, ToSet, InWait
<1>5. CountedIsWoken /\ FirstComeFirstWoken
  BY <1>1 DEF Init, CountedIsWoken, FirstComeFirstWoken
<1> QED
  BY <1>2, <1>3, <1>4, <1>5 DEF IInv

\* A thread that leaves its sleep returns or goes to its interrupt handler.
LEMMA WakeUpIInv ==
  ASSUME IInv, NEW a \in Agents, WakeUp(a)
  PROVE  IInv'
<1>1. InWait(a)
  BY DEF WakeUp, InWait
<1>2. CASE state[a] = "Waiting" /\ Return(a, "TimedOut")
  <2>1. ~nested[a] => ~counted[a]
    BY <1>1, <1>2 DEF IInv, CountedIsWoken
  <2> QED
    BY <1>1, <1>2, <2>1, ReturnIInv
<1>3. CASE state[a] = "Woken" /\ Return(a, "OK")
  <2>1. ~nested[a] => counted[a]
    BY <1>1, <1>3 DEF IInv, CountedIsWoken
  <2> QED
    BY <1>1, <1>3, <2>1, ReturnIInv
<1>4. CASE /\ state[a] = "WaitingNotifiedForInterrupt"
           /\ state' = [state EXCEPT ![a] = "WaitingInterrupted"]
           /\ pc' = [pc EXCEPT ![a] = "handleInterrupt"]
           /\ UNCHANGED <<waiters, wait, signalled, interruptVars, historyVars>>
  <2>1. TypeOK'
    BY <1>4 DEF IInv, TypeOK, interruptVars, historyVars
  <2>2. \A b \in Agents :
          /\ InWait(b)' <=> InWait(b)
          /\ pc'[b] = "refused" => pc[b] = "refused"
          /\ state'[b] = "Woken" <=> state[b] = "Woken"
          /\ state'[b] = "Idle" <=> state[b] = "Idle"
          /\ ~InWait(b) => state'[b] = "Idle"
          /\ pc'[b] = "sleep" => \/ state'[b] = "Waiting"
                                 \/ /\ state'[b] \in {"WaitingNotifiedForInterrupt", "Woken"}
                                    /\ signalled'[b]
    BY <1>1, <1>4 DEF IInv, TypeOK, WaitersExact, InWait
  <2> QED
    BY <1>4, <2>1, <2>2, FrameIInv DEF historyVars
<1> QED
  BY <1>2, <1>3, <1>4 DEF WakeUp

\* A handler ends: with a failure, with a notify() that came in the middle, or
\* back to sleep.
LEMMA HandlerIInv ==
  ASSUME IInv, NEW a \in Agents, HandlerReturns(a)
  PROVE  IInv'
<1>1. InWait(a)
  BY DEF HandlerReturns, InWait
<1>2. CASE Return(a, "Error")
  BY <1>1, <1>2, ReturnIInv
<1>3. CASE state[a] = "Woken" /\ Return(a, "OK")
  <2>1. ~nested[a] => counted[a]
    BY <1>1, <1>3 DEF IInv, CountedIsWoken
  <2> QED
    BY <1>1, <1>3, <2>1, ReturnIInv
<1>4. CASE /\ state[a] # "Woken"
           /\ Sleep(a)
           /\ UNCHANGED <<waiters, wait, interruptVars, historyVars>>
  <2>1. TypeOK'
    BY <1>4 DEF IInv, TypeOK, Sleep, interruptVars, historyVars
  <2>2. ~nested[a] => state[a] # "Idle"
    BY <1>1 DEF IInv, Nesting
  <2>3. \A b \in Agents :
          /\ InWait(b)' <=> InWait(b)
          /\ pc'[b] = "refused" => pc[b] = "refused"
          /\ ~nested[b] => (state'[b] = "Woken" <=> state[b] = "Woken")
          /\ ~nested[b] => (state'[b] = "Idle" <=> state[b] = "Idle")
          /\ ~InWait(b) => state'[b] = "Idle"
          /\ pc'[b] = "sleep" => \/ state'[b] = "Waiting"
                                 \/ /\ state'[b] \in {"WaitingNotifiedForInterrupt", "Woken"}
                                    /\ signalled'[b]
    BY <1>1, <1>4, <2>2 DEF IInv, TypeOK, WaitersExact, InWait, Sleep
  <2> QED
    BY <1>4, <2>1, <2>3, FrameIInv DEF historyVars
<1> QED
  BY <1>2, <1>3, <1>4 DEF HandlerReturns, HandlerSucceeds

\* A wait that was refused takes its own node out and nothing else.
LEMMA RefusedIInv ==
  ASSUME IInv, NEW a \in Agents, RefusedReturns(a)
  PROVE  IInv'
<1>1. InWait(a) /\ Leave(a) /\ pc[a] = "refused" /\ nested[a] /\ Depth(a) # 1
  BY DEF RefusedReturns, InWait, IInv, Nesting
<1>2. /\ state' = [state EXCEPT ![a] = state[a]]
      /\ signalled' = [signalled EXCEPT ![a] = signalled[a]]
      /\ signalled[a] \in BOOLEAN
      /\ result' = IF Depth(a) = 1 THEN [result EXCEPT ![a] = "Error"] ELSE result
  BY <1>1 DEF RefusedReturns, IInv, TypeOK
<1> QED
  BY <1>1, <1>2, LeaveIInv

\* requestInterrupt() has the lock: a thread that waits is told.
LEMMA NotifyForJSInterruptIInv ==
  ASSUME IInv, NEW a \in Agents, NotifyForJSInterrupt(a)
  PROVE  IInv'
<1>1. TypeOK'
  <2>1. UNCHANGED <<waiters, pc, wait, bits, requests, counted, nested, result>>
    BY DEF NotifyForJSInterrupt, historyVars
  <2>2. /\ asked' = [asked EXCEPT ![a] = FALSE]
        /\ \/ state' = [state EXCEPT ![a] = "WaitingNotifiedForInterrupt"]
           \/ state' = state
        /\ \/ signalled' = [signalled EXCEPT ![a] = (pc[a] = "sleep")]
           \/ signalled' = signalled
    BY DEF NotifyForJSInterrupt
  <2> QED
    BY <2>1, <2>2 DEF IInv, TypeOK
<1>2. UNCHANGED <<waiters, wait, pc, counted, nested, result>>
  BY DEF NotifyForJSInterrupt, historyVars
<1>3. \A b \in Agents :
        /\ state'[b] = "Woken" <=> state[b] = "Woken"
        /\ state'[b] = "Idle" <=> state[b] = "Idle"
        /\ ~InWait(b) => state'[b] = "Idle"
        /\ pc'[b] = "sleep" => \/ state'[b] = "Waiting"
                               \/ /\ state'[b] \in {"WaitingNotifiedForInterrupt", "Woken"}
                                  /\ signalled'[b]
  BY DEF IInv, TypeOK, WaitersExact, InWait, NotifyForJSInterrupt, IsWaiting
<1> QED
  BY <1>1, <1>2, <1>3, FrameIInv DEF InWait

\* Steps that change neither the list nor what a thread is told.
LEMMA QuietIInv ==
  ASSUME IInv, TypeOK',
         UNCHANGED <<waiters, state, wait, signalled, counted, nested, result>>,
         \A b \in Agents : /\ InWait(b)' <=> InWait(b)
                           /\ pc'[b] \in {"refused", "sleep"} => pc[b] = pc'[b]
  PROVE  IInv'
BY FrameIInv DEF IInv, WaitersExact

LEMMA NextIInv == IInv /\ [Next]_vars => IInv'
<1> SUFFICES ASSUME IInv, [Next]_vars PROVE IInv'
  OBVIOUS
<1>1. ASSUME NEW a \in Agents, HandleInterrupt(a)
      PROVE  IInv'
  <2>1. TypeOK'
    BY <1>1 DEF IInv, TypeOK, HandleInterrupt, historyVars
  <2>2. \A b \in Agents : /\ InWait(b)' <=> InWait(b)
                          /\ pc'[b] \in {"refused", "sleep"} => pc[b] = pc'[b]
    BY <1>1 DEF IInv, TypeOK, HandleInterrupt, InWait
  <2> QED
    BY <1>1, <2>1, <2>2, QuietIInv DEF HandleInterrupt, historyVars
<1>2. ASSUME NEW a \in Agents, RequestInterrupt(a) \/ Poll(a)
      PROVE  IInv'
  <2>1. requests' \in 0..MaxInterrupts
    BY <1>2, FutexAssumption DEF IInv, TypeOK, RequestInterrupt, Poll
  <2>2. bits' \in [Agents -> BOOLEAN] /\ asked' \in [Agents -> BOOLEAN]
    BY <1>2 DEF IInv, TypeOK, RequestInterrupt, Poll
  <2>3. UNCHANGED <<waiters, state, pc, wait, signalled, counted, nested, result>>
    BY <1>2 DEF RequestInterrupt, Poll, historyVars
  <2>4. TypeOK'
    BY <2>1, <2>2, <2>3 DEF IInv, TypeOK
  <2> QED
    BY <2>3, <2>4, QuietIInv DEF InWait
<1>3. CASE UNCHANGED vars
  <2>1. TypeOK'
    BY <1>3 DEF IInv, TypeOK, vars
  <2> QED
    BY <1>3, <2>1, QuietIInv DEF vars, InWait
<1> QED
  BY <1>1, <1>2, <1>3, WaitIInv, NotifyIInv, WakeUpIInv, RefusedIInv, HandlerIInv,
     NotifyForJSInterruptIInv
  DEF Next

\* The invariant holds in every reachable state.
LEMMA Invariant == Spec => []IInv
BY InitIInv, NextIInv, PTL DEF Spec

\* States and lists stay well formed: only threads that may wait are listed.
THEOREM TypeCorrect == Spec => []TypeOK
<1>1. IInv => TypeOK
  BY DEF IInv
<1> QED
  BY <1>1, Invariant, PTL

\* The list of waiters (SharedArrayRawBuffer::waiters()) holds exactly the open
\* calls of wait(), those that handlers make included, each once and those of a
\* thread in the order of nesting, and nobody sleeps with a change of state it
\* was not signalled for.
THEOREM ListIsExact == Spec => []WaitersExact
<1>1. IInv => WaitersExact
  BY DEF IInv
<1> QED
  BY <1>1, Invariant, PTL

\* As long as a thread's own interrupt handlers call no wait(), a wait of it
\* that atomics_notify_impl() has counted is over, and no other one returns
\* "ok", whatever timeouts and interrupts come in between, and whatever the
\* handlers of other threads call.
THEOREM CountedWaitsEnd == Spec => []CountedIsWoken
<1>1. IInv => CountedIsWoken
  BY DEF IInv
<1> QED
  BY <1>1, Invariant, PTL

\* Among the threads that wait for one location none is woken before one that
\* came earlier and whose handlers have called no wait().
THEOREM InOrderOfArrival == Spec => []FirstComeFirstWoken
<1>1. IInv => FirstComeFirstWoken
  BY DEF IInv
<1> QED
  BY <1>1, Invariant, PTL

-----------------------------------------------------------------------------
(* The list implements the abstract one.                                   *)

Order == {p \in Waiting \X Waiting : Before(p[1], p[2])}

At == [a \in Agents |-> IF InWait(a) /\ ~nested[a] THEN wait[a][1].loc ELSE "none"]

Woken == {a \in Agents : state[a] = "Woken" /\ ~nested[a]}

Outcome == [a \in Agents |-> IF nested[a] THEN "none" ELSE result[a]]

Astray == {a \in Agents : nested[a]}

\* The abstract specification under the names used here.
LEMMA AbstractNames ==
  /\ \A S : List!Cardinality(S) = Cardinality(S)
  /\ \A l, count : List!First(l, count) =
       {a \in {b \in Waiting : At[b] = l} :
          count = -1 \/ Cardinality({b \in {c \in Waiting : At[c] = l} : <<b, a>> \in Order}) < count}
<1>1. \A S : List!Cardinality(S) = Cardinality(S)
  BY DEF List!Cardinality, Cardinality
<1> QED
  BY <1>1 DEF List!First, At, Order

\* A thread that is not astray is on the list, woken, or not in wait().
LEMMA WaitingOrWoken ==
  ASSUME IInv, NEW a \in Agents, ~nested[a]
  PROVE  /\ InWait(a) <=> (a \in Waiting \/ a \in Woken)
         /\ a \notin Waiting \/ a \notin Woken
         /\ InWait(a) => /\ Depth(a) = 1 /\ result[a] = "none"
                         /\ \E i \in DOMAIN waiters : waiters[i] = <<a, 1>>
<1>1. InWait(a) <=> (a \in Waiting \/ a \in Woken)
  BY DEF IInv, TypeOK, Nesting, Waiting, Woken, IsWaiting
<1>2. a \notin Waiting \/ a \notin Woken
  BY DEF Waiting, Woken, IsWaiting
<1>3. ASSUME InWait(a)
      PROVE  /\ Depth(a) = 1 /\ result[a] = "none"
             /\ \E i \in DOMAIN waiters : waiters[i] = <<a, 1>>
  <2>1. Depth(a) > 0 /\ Depth(a) <= 1 /\ Depth(a) \in Nat /\ result[a] = "none"
    BY <1>3, Deep DEF IInv, WaitersExact, Nesting
  <2>2. Depth(a) = 1 /\ 1 \in 1 .. Depth(a)
    BY <2>1
  <2> QED
    BY <2>1, <2>2, HasNode
<1> QED
  BY <1>1, <1>2, <1>3

\* A node comes before another one.
Precedes(u, v) == \E i, j \in DOMAIN waiters : i < j /\ waiters[i] = u /\ waiters[j] = v

LEMMA BeforeIsPrecedes ==
  \A x, y : /\ Before(x, y) <=> Precedes(<<x, 1>>, <<y, 1>>)
            /\ Before(x, y)' <=> Precedes(<<x, 1>>, <<y, 1>>)'
BY DEF Before, Precedes

\* What a node at the end comes after.
LEMMA AtEnd ==
  ASSUME NEW S, waiters \in Seq(S), NEW e, e \notin ToSet(waiters), waiters' = Append(waiters, e)
  PROVE  \A u, v : Precedes(u, v)' <=> (Precedes(u, v) \/ (u \in ToSet(waiters) /\ v = e))
<1> DEFINE n == Len(waiters)
<1>1. /\ n \in Nat /\ DOMAIN waiters = 1..n /\ DOMAIN waiters' = 1..(n + 1)
      /\ \A i \in 1..n : waiters'[i] = waiters[i]
      /\ waiters'[n + 1] = e
  <2>1. Append(waiters, e) = waiters \o <<e>>
    OBVIOUS
  <2> QED
    BY <2>1
<1>2. ASSUME NEW u, NEW v, Precedes(u, v) PROVE Precedes(u, v)'
  BY <1>1, <1>2 DEF Precedes
<1>3. ASSUME NEW u \in ToSet(waiters) PROVE Precedes(u, e)'
  <2>1. PICK i \in 1..n : waiters[i] = u
    BY <1>1 DEF ToSet
  <2>2. i \in 1..(n + 1) /\ n + 1 \in 1..(n + 1) /\ i < n + 1
    BY <1>1
  <2> QED
    BY <1>1, <2>1, <2>2 DEF Precedes
<1>4. ASSUME NEW u, NEW v, Precedes(u, v)'
      PROVE  Precedes(u, v) \/ (u \in ToSet(waiters) /\ v = e)
  <2>1. PICK i, j \in 1..(n + 1) : i < j /\ waiters'[i] = u /\ waiters'[j] = v
    BY <1>1, <1>4 DEF Precedes
  <2>2. i \in 1..n /\ waiters[i] = u
    BY <1>1, <2>1
  <2>3. CASE j = n + 1
    BY <1>1, <2>1, <2>2, <2>3 DEF ToSet
  <2>4. CASE j # n + 1
    BY <1>1, <2>1, <2>2, <2>4 DEF Precedes
  <2> QED
    BY <2>3, <2>4
<1> QED
  BY <1>2, <1>3, <1>4

\* The order of the others when a node is taken out.
LEMMA Without ==
  ASSUME IInv, NEW a \in Agents, Unlink(a)
  PROVE  LET e == <<a, Depth(a)>>
         IN  \A u, v : Precedes(u, v)' <=> (Precedes(u, v) /\ u # e /\ v # e)
<1> DEFINE n == Len(waiters)
           e == <<a, Depth(a)>>
<1>1. PICK k \in DOMAIN waiters :
        /\ waiters[k] = e
        /\ DOMAIN waiters' = 1 .. (Len(waiters) - 1)
        /\ \A i \in 1 .. (Len(waiters) - 1) : waiters'[i] = waiters[IF i < k THEN i ELSE i + 1]
  BY Unlinked
<1> HIDE DEF e
<1> DEFINE old(i) == IF i < k THEN i ELSE i + 1
<1>2. /\ n \in Nat /\ DOMAIN waiters = 1..n /\ k \in 1..n
      /\ \A i \in 1..(n - 1) : waiters'[i] = waiters[old(i)]
  BY <1>1, LenProperties DEF IInv, TypeOK
<1>3. \A i, j \in 1..n : waiters[i] = waiters[j] => i = j
  BY <1>2 DEF IInv, WaitersExact, IsInjective
<1>4. /\ \A i \in 1..(n - 1) : old(i) \in 1..n /\ old(i) # k
      /\ \A i, j \in 1..(n - 1) : i < j <=> old(i) < old(j)
  BY <1>2
<1>5. \A i \in 1..n : i # k => \E j \in 1..(n - 1) : old(j) = i
  <2> TAKE i \in 1..n
  <2> HAVE i # k
  <2>1. CASE i < k
    <3>1. i \in 1..(n - 1) /\ old(i) = i
      BY <1>2, <2>1
    <3> QED
      BY <3>1
  <2>2. CASE i > k
    <3>1. i - 1 \in 1..(n - 1) /\ old(i - 1) = i
      BY <1>2, <2>2
    <3> QED
      BY <3>1
  <2> QED
    BY <1>2, <2>1, <2>2
<1> HIDE DEF old
<1>6. ASSUME NEW u, NEW v, Precedes(u, v)' PROVE Precedes(u, v) /\ u # e /\ v # e
  <2>1. PICK i, j \in 1..(n - 1) : i < j /\ waiters'[i] = u /\ waiters'[j] = v
    BY <1>1, <1>6 DEF Precedes
  <2>2. /\ old(i) \in 1..n /\ old(j) \in 1..n /\ old(i) < old(j) /\ old(i) # k /\ old(j) # k
        /\ waiters[old(i)] = u /\ waiters[old(j)] = v
    BY <1>2, <1>4, <2>1
  <2> QED
    BY <1>1, <1>2, <1>3, <2>2 DEF Precedes
<1>7. ASSUME NEW u, NEW v, Precedes(u, v), u # e, v # e PROVE Precedes(u, v)'
  <2>1. PICK i, j \in 1..n : i < j /\ waiters[i] = u /\ waiters[j] = v
    BY <1>2, <1>7 DEF Precedes
  <2>2. i # k /\ j # k
    BY <1>1, <1>7, <2>1
  <2>3. PICK p, q \in 1..(n - 1) : old(p) = i /\ old(q) = j
    BY <1>5, <2>1, <2>2
  <2>4. p < q /\ waiters'[p] = u /\ waiters'[q] = v
    BY <1>2, <1>4, <2>1, <2>3
  <2> QED
    BY <1>1, <2>4 DEF Precedes
<1> QED
  BY <1>6, <1>7 DEF e

\* What the list does not show: sleep, interrupts, and whatever a thread astray does.
LEMMA Unseen ==
  ASSUME UNCHANGED nested,
         \A a \in Agents : ~nested[a] => /\ IsWaiting(a)' <=> IsWaiting(a)
                                         /\ InWait(a)' <=> InWait(a)
                                         /\ state'[a] = "Woken" <=> state[a] = "Woken"
                                         /\ wait'[a] = wait[a]
                                         /\ result'[a] = result[a],
         \A x, y \in Agents : ~nested[x] /\ ~nested[y] => (Before(x, y)' <=> Before(x, y))
  PROVE  UNCHANGED List!listVars
<1>1. /\ Waiting' = Waiting /\ Woken' = Woken
      /\ At' = At /\ Outcome' = Outcome /\ Astray' = Astray
  BY DEF Waiting, Woken, At, Outcome, Astray
<1>2. \A a \in Waiting : a \in Agents /\ ~nested[a]
  BY DEF Waiting
<1>3. Order' = {p \in Waiting' \X Waiting' : Before(p[1], p[2])'}
  BY DEF Order
<1> HIDE DEF Waiting
<1>4. Order' = Order
  BY <1>1, <1>2, <1>3 DEF Order
<1> QED
  BY <1>1, <1>4 DEF List!listVars, Order, At, Woken, Outcome, Astray

\* Steps that leave the list of nodes and the results alone.
LEMMA UnseenFrame ==
  ASSUME UNCHANGED <<waiters, wait, nested, result>>,
         \A a \in Agents : /\ InWait(a)' <=> InWait(a)
                           /\ ~nested[a] => /\ IsWaiting(a)' <=> IsWaiting(a)
                                            /\ state'[a] = "Woken" <=> state[a] = "Woken"
  PROVE  UNCHANGED List!listVars
<1>1. \A x, y : Before(x, y)' <=> Before(x, y)
  BY DEF Before
<1> QED
  BY <1>1, Unseen

\* A script's wait() gets on the list; a handler's takes its thread off it, for
\* good or until its next wait.
LEMMA WaitMaps ==
  ASSUME IInv, NEW a \in Agents, NEW l \in Locations, NEW timed \in BOOLEAN, Wait(a, l, timed)
  PROVE  List!LWait(a, l) \/ List!LStray(a) \/ UNCHANGED List!listVars
<1> DEFINE d == Depth(a)
           e == <<a, d + 1>>
<1>1. /\ d \in Nat /\ wait[a] \in Seq([loc : Locations, timed : BOOLEAN])
      /\ InWait(a) <=> d > 0
      /\ waiters \in Seq(CanWait \X Nat)
  BY Deep DEF IInv, TypeOK, WaitersExact
<1>2. e \notin ToSet(waiters)
  <2>1. d + 1 \notin 1 .. d
    BY <1>1
  <2> QED
    BY <2>1, Open DEF IInv, WaitersExact
<1>3. \A u, v : Precedes(u, v)' <=> (Precedes(u, v) \/ (u \in ToSet(waiters) /\ v = e))
  <2>1. waiters' = Append(waiters, e)
    BY DEF Wait, Enqueue
  <2> HIDE DEF e
  <2> QED
    BY <1>1, <1>2, <2>1, AtEnd
<1> HIDE DEF d
<1>4. /\ \A b \in Agents : b # a => /\ state'[b] = state[b] /\ pc'[b] = pc[b]
                                    /\ wait'[b] = wait[b] /\ nested'[b] = nested[b]
                                    /\ result'[b] = result[b]
      /\ nested' = [nested EXCEPT ![a] = (pc[a] = "handler")]
      /\ pc[a] \in {"script", "handler"}
      /\ InWait(a)'
      /\ DOMAIN result = Agents /\ DOMAIN nested = Agents
  BY DEF IInv, TypeOK, Wait, Refuse, Sleep, Runs, InWait
<1>5. Order' = {p \in Waiting' \X Waiting' : Before(p[1], p[2])'}
  BY DEF Order
<1>6. CASE pc[a] = "script"
  <2>1. ~InWait(a) /\ state[a] = "Idle" /\ a \notin Waiting /\ a \notin Woken /\ d = 0
    <3>1. ~InWait(a) /\ state[a] = "Idle"
      BY <1>6 DEF InWait, IInv, WaitersExact
    <3> QED
      BY <1>1, <3>1 DEF Waiting, Woken, IsWaiting
  <2>2. state' = [state EXCEPT ![a] = "Waiting"] /\ ~nested'[a] /\ result' = [result EXCEPT ![a] = "none"]
    BY <1>4, <1>6, <2>1 DEF Wait, Sleep
  <2>3. wait'[a][1].loc = l
    <3>1. wait[a] = <<>>
      BY <1>1, <2>1, EmptySeq DEF Depth, d
    <3>2. wait'[a] = Append(wait[a], [loc |-> l, timed |-> timed])
      BY DEF Wait, IInv, TypeOK
    <3> QED
      BY <3>1, <3>2
  <2>4. Waiting' = Waiting \cup {a} /\ Woken' = Woken
    BY <1>4, <2>1, <2>2 DEF IInv, TypeOK, Waiting, Woken, IsWaiting
  <2>5. Order' = Order \cup (Waiting \X {a})
    <3>1. \A x, y : Before(x, y)' <=> (Before(x, y) \/ (<<x, 1>> \in ToSet(waiters) /\ y = a))
      <4>1. \A y : e = <<y, 1>> <=> y = a
        BY <2>1
      <4> HIDE DEF e
      <4> QED
        BY <1>3, <4>1, BeforeIsPrecedes
    <3>2. \A x : ~Before(x, a) /\ ~Before(a, x)
      BY <1>2, <2>1 DEF Before, ToSet
    <3>3. \A x \in Waiting : <<x, 1>> \in ToSet(waiters)
      <4> TAKE x \in Waiting
      <4>1. x \in Agents /\ ~nested[x]
        BY DEF Waiting
      <4> QED
        BY <4>1, WaitingOrWoken DEF ToSet
    <3>4. <<a, 1>> \notin ToSet(waiters)
      BY <1>2, <2>1
    <3> HIDE DEF Waiting
    <3> QED
      <4>1. Order' = {p \in (Waiting \cup {a}) \X (Waiting \cup {a}) :
                        Before(p[1], p[2]) \/ (<<p[1], 1>> \in ToSet(waiters) /\ p[2] = a)}
        BY <1>5, <2>4, <3>1
      <4>2. Order = {p \in Waiting \X Waiting : Before(p[1], p[2])}
        BY DEF Order
      <4>3. \A x \in Waiting \cup {a}, y \in Waiting \cup {a} :
              Before(x, y) \/ (<<x, 1>> \in ToSet(waiters) /\ y = a)
                <=> (x \in Waiting /\ y \in Waiting /\ Before(x, y)) \/ (x \in Waiting /\ y = a)
        BY <2>1, <3>2, <3>3, <3>4
      <4> QED
        BY <4>1, <4>2, <4>3
  <2>6. At' = [At EXCEPT ![a] = l]
    <3>1. \A b \in Agents : b # a => (InWait(b)' <=> InWait(b))
      BY <1>4 DEF InWait
    <3> QED
      BY <1>4, <2>2, <2>3, <3>1 DEF At
  <2>7. Outcome' = [Outcome EXCEPT ![a] = "none"] /\ Astray' = Astray \ {a}
    BY <1>4, <2>2 DEF Outcome, Astray
  <2> QED
    BY <2>1, <2>4, <2>5, <2>6, <2>7
    DEF List!LWait, Order, At, Woken, Outcome, Astray
<1>7. CASE pc[a] = "handler"
  <2>1. InWait(a) /\ nested'[a] /\ d >= 1 /\ result' = result
    <3>1. InWait(a) /\ nested'[a] /\ result' = result
      BY <1>4, <1>7 DEF InWait, Wait
    <3> QED
      BY <1>1, <3>1
  <2>2. \A x, y : Before(x, y)' <=> Before(x, y)
    <3>1. \A y : e # <<y, 1>>
      BY <1>1, <2>1
    <3> HIDE DEF e
    <3>2. \A x, y : Precedes(<<x, 1>>, <<y, 1>>)' <=> Precedes(<<x, 1>>, <<y, 1>>)
      BY <1>3, <3>1
    <3> QED
      BY <3>2, BeforeIsPrecedes
  <2>3. CASE nested[a]
    <3>1. UNCHANGED nested
      <4>1. nested \in [Agents -> BOOLEAN] /\ nested' \in [Agents -> BOOLEAN]
        BY <1>4 DEF IInv, TypeOK
      <4>2. \A b \in Agents : nested'[b] <=> nested[b]
        BY <1>4, <2>1, <2>3
      <4> QED
        BY <4>1, <4>2
    <3>2. \A b \in Agents : ~nested[b] => b # a
      BY <2>3
    <3> QED
      BY <1>4, <2>1, <2>2, <3>1, <3>2, Unseen DEF IsWaiting, InWait
  <2>4. CASE ~nested[a]
    <3>1. a \in Waiting \cup Woken /\ result[a] = "none"
      BY <2>1, <2>4, WaitingOrWoken
    <3>2. Waiting' = Waiting \ {a} /\ Woken' = Woken \ {a}
      BY <1>4, <2>1 DEF Waiting, Woken, IsWaiting
    <3>3. Order' = {p \in Order : p[1] \notin {a} /\ p[2] \notin {a}}
      <4> HIDE DEF Waiting
      <4> QED
        BY <1>5, <2>2, <3>2 DEF Order
    <3>4. At' = [At EXCEPT ![a] = "none"]
      BY <1>4, <2>1 DEF At, InWait
    <3>5. Outcome' = Outcome /\ Astray' = Astray \cup {a}
      BY <1>4, <2>1, <2>4, <3>1 DEF Outcome, Astray
    <3> QED
      BY <3>1, <3>2, <3>3, <3>4, <3>5
      DEF List!LStray, List!TakeOff, Order, At, Woken, Outcome, Astray
  <2> QED
    BY <2>3, <2>4
<1> QED
  BY <1>4, <1>6, <1>7

\* A wait that returns is taken off the list, if notify() has not done so.
LEMMA ReturnMaps ==
  ASSUME IInv, NEW a \in Agents, NEW r \in {"OK", "TimedOut", "Error"}, Return(a, r), InWait(a),
         r = "OK" => state[a] = "Woken", r = "TimedOut" => state[a] = "Waiting", ~nested[a]
  PROVE  List!LReturn(a, r)
<1>1. /\ r = "OK" => a \in Woken
      /\ r = "TimedOut" => a \in Waiting
      /\ a \in Waiting \cup Woken
      /\ Depth(a) = 1
  BY WaitingOrWoken DEF Woken, Waiting, IsWaiting
<1>2. /\ state' = [state EXCEPT ![a] = "Idle"]
      /\ pc' = [pc EXCEPT ![a] = "script"]
      /\ \A b \in Agents : b # a => wait'[b] = wait[b]
      /\ result' = [result EXCEPT ![a] = r]
      /\ UNCHANGED nested
      /\ Unlink(a)
  BY <1>1 DEF IInv, TypeOK, Return, Leave
<1>3. Waiting' = Waiting \ {a} /\ Woken' = Woken \ {a}
  BY <1>2 DEF IInv, TypeOK, Waiting, Woken, IsWaiting
<1>4. Order' = {p \in Order : p[1] \notin {a} /\ p[2] \notin {a}}
  <2>1. \A u, v : Precedes(u, v)' <=> (Precedes(u, v) /\ u # <<a, 1>> /\ v # <<a, 1>>)
    BY <1>1, <1>2, Without
  <2>2. \A x, y : Before(x, y)' <=> (Before(x, y) /\ x # a /\ y # a)
    BY <2>1, BeforeIsPrecedes
  <2>3. Order' = {p \in Waiting' \X Waiting' : Before(p[1], p[2])'}
    BY DEF Order
  <2> HIDE DEF Waiting
  <2> QED
    BY <1>3, <2>2, <2>3 DEF Order
<1>5. At' = [At EXCEPT ![a] = "none"]
  BY <1>2 DEF IInv, TypeOK, At, InWait
<1>6. Outcome' = [Outcome EXCEPT ![a] = r] /\ Astray' = Astray
  BY <1>2 DEF IInv, TypeOK, Outcome, Astray
<1> QED
  BY <1>1, <1>3, <1>4, <1>5, <1>6
  DEF List!LReturn, List!TakeOff, Order, At, Woken, Outcome, Astray

\* What a thread astray takes out of the list of nodes was not on the list.
LEMMA StrayLeaves ==
  ASSUME IInv, NEW a \in Agents, Leave(a), nested[a],
         \A b \in Agents : b # a => state'[b] = state[b] /\ result'[b] = result[b]
  PROVE  UNCHANGED List!listVars
<1>1. /\ UNCHANGED nested /\ Unlink(a)
      /\ \A b \in Agents : b # a => pc'[b] = pc[b] /\ wait'[b] = wait[b]
  BY DEF Leave, IInv, TypeOK
<1>2. \A x, y : x # a /\ y # a => (Before(x, y)' <=> Before(x, y))
  <2> SUFFICES ASSUME NEW x, NEW y, x # a, y # a PROVE Before(x, y)' <=> Before(x, y)
    OBVIOUS
  <2>1. <<x, 1>> # <<a, Depth(a)>> /\ <<y, 1>> # <<a, Depth(a)>>
    OBVIOUS
  <2>2. Precedes(<<x, 1>>, <<y, 1>>)' <=> Precedes(<<x, 1>>, <<y, 1>>)
    BY <1>1, <2>1, Without
  <2> QED
    BY <2>2, BeforeIsPrecedes
<1>3. \A b \in Agents : ~nested[b] => b # a
  OBVIOUS
<1>4. \A b \in Agents : b # a => /\ IsWaiting(b)' <=> IsWaiting(b)
                                 /\ InWait(b)' <=> InWait(b)
  BY <1>1 DEF IsWaiting, InWait
<1>5. \A b \in Agents : ~nested[b] => /\ IsWaiting(b)' <=> IsWaiting(b)
                                      /\ InWait(b)' <=> InWait(b)
                                      /\ state'[b] = "Woken" <=> state[b] = "Woken"
                                      /\ wait'[b] = wait[b]
                                      /\ result'[b] = result[b]
  BY <1>1, <1>3, <1>4
<1>6. \A x, y \in Agents : ~nested[x] /\ ~nested[y] => (Before(x, y)' <=> Before(x, y))
  BY <1>2, <1>3
<1> QED
  BY <1>1, <1>5, <1>6, Unseen

\* A set that holds whatever comes before one of its members is a first part of
\* the order: its members are told by how many come before them.
LEMMA FirstPart ==
  ASSUME NEW W, IsFiniteSet(W), NEW B \in [W -> SUBSET W],
         \A x \in W : x \notin B[x],
         \A x, y \in W : x = y \/ x \in B[y] \/ y \in B[x],
         \A x, y, z \in W : x \in B[y] /\ y \in B[z] => x \in B[z],
         NEW K \in SUBSET W,
         \A x \in K : B[x] \subseteq K,
         NEW n \in Nat,
         \A x \in K : Cardinality(B[x]) < n
  PROVE  /\ Cardinality(K) \in 0..n
         /\ \A x \in W : x \in K <=> Cardinality(B[x]) < Cardinality(K)
<1>1. \A x \in W : B[x] \in SUBSET W /\ IsFiniteSet(B[x]) /\ Cardinality(B[x]) \in Nat
  BY FS_Subset, FS_CardinalityType
<1>2. IsFiniteSet(K) /\ Cardinality(K) \in Nat
  BY FS_Subset, FS_CardinalityType
<1>3. ASSUME NEW S, NEW T \in SUBSET S, IsFiniteSet(S), NEW x \in S, x \notin T
      PROVE  Cardinality(T) < Cardinality(S)
  <2>1. IsFiniteSet(T) /\ Cardinality(T) <= Cardinality(S) /\ Cardinality(S) # Cardinality(T)
    BY <1>3, FS_Subset
  <2>2. Cardinality(S) \in Nat /\ Cardinality(T) \in Nat
    BY <1>3, <2>1, FS_CardinalityType
  <2> QED
    BY <2>1, <2>2
<1>4. \A x, y \in W : x \in B[y] => Cardinality(B[x]) < Cardinality(B[y])
  <2> SUFFICES ASSUME NEW x \in W, NEW y \in W, x \in B[y]
               PROVE  Cardinality(B[x]) < Cardinality(B[y])
    OBVIOUS
  <2>1. B[x] \in SUBSET B[y]
    <3>1. \A z \in B[x] : z \in B[y]
      BY <1>1
    <3> QED
      BY <3>1
  <2> QED
    BY <1>1, <1>3, <2>1
<1>5. ASSUME NEW x \in K PROVE Cardinality(B[x]) < Cardinality(K)
  BY <1>2, <1>3
<1>6. ASSUME NEW x \in W, x \notin K PROVE ~(Cardinality(B[x]) < Cardinality(K))
  <2>1. K \in SUBSET B[x]
    BY <1>6
  <2>2. Cardinality(K) <= Cardinality(B[x])
    BY <1>1, <2>1, FS_Subset
  <2> QED
    BY <1>1, <1>2, <2>2
<1>7. Cardinality(K) <= n
  <2> SUFFICES ASSUME n < Cardinality(K) PROVE FALSE
    BY <1>2
  <2> DEFINE T == 0 .. (n - 1)
             f == [x \in K |-> Cardinality(B[x])]
  <2>1. IsFiniteSet(T) /\ Cardinality(T) = n
    BY FS_Interval
  <2>2. f \in [K -> T]
    <3>1. \A x \in K : Cardinality(B[x]) \in Nat /\ Cardinality(B[x]) < n
      BY <1>1
    <3> QED
      BY <3>1
  <2>3. PICK x, y \in K : x # y /\ f[x] = f[y]
    <3> HIDE DEF T, f
    <3> QED
      BY <1>2, <2>1, <2>2, FS_PigeonHole
  <2>4. Cardinality(B[x]) = Cardinality(B[y])
    BY <2>3
  <2>5. x \in W /\ y \in W /\ (x \in B[y] \/ y \in B[x])
    BY <2>3
  <2>6. Cardinality(B[x]) < Cardinality(B[y]) \/ Cardinality(B[y]) < Cardinality(B[x])
    BY <1>4, <2>5
  <2>7. Cardinality(B[x]) \in Nat
    BY <1>1, <2>5
  <2> QED
    BY <2>4, <2>6, <2>7
<1> QED
  BY <1>2, <1>5, <1>6, <1>7

\* notify() takes those off the list that came first: as many as it is asked for,
\* or fewer if there are no more or some of the threads it wakes are astray.
LEMMA NotifyMaps ==
  ASSUME IInv, NEW b \in Agents, NEW l \in Locations, NEW count \in Counts, Notify(b, l, count)
  PROVE  List!LNotify(l, count)
<1> DEFINE W == {c \in Waiting : At[c] = l}
           A(c) == {d \in Eligible(l) : Ahead(l, d, c)}
           B(c) == {d \in W : <<d, c>> \in Order}
           chosen == Chosen(l, count)
           K == {c \in chosen : ~nested[c]}
<1>1. /\ W = {c \in Eligible(l) : ~nested[c]}
      /\ \A c \in W : /\ c \in Agents /\ c \in Waiting
                      /\ \E i \in DOMAIN waiters : NodeAt(i, l, c)
                      /\ \A i \in DOMAIN waiters : NodeAt(i, l, c) <=> waiters[i] = <<c, 1>>
  <2>1. ASSUME NEW c \in W
        PROVE  /\ c \in Eligible(l) /\ ~nested[c] /\ c \in Agents
               /\ \E i \in DOMAIN waiters : NodeAt(i, l, c)
               /\ \A i \in DOMAIN waiters : NodeAt(i, l, c) <=> waiters[i] = <<c, 1>>
    <3>1. c \in Agents /\ ~nested[c] /\ IsWaiting(c) /\ c \in Waiting
      BY DEF Waiting
    <3>2. InWait(c)
      BY <3>1, WaitingOrWoken
    <3>3. wait[c][1].loc = l
      BY <3>1, <3>2 DEF At
    <3>4. \A i \in DOMAIN waiters : waiters[i] = <<c, 1>> => NodeAt(i, l, c)
      BY <3>3 DEF NodeAt
    <3>5. \A i \in DOMAIN waiters : NodeAt(i, l, c) => waiters[i] = <<c, 1>>
      BY <3>1, OneNode DEF NodeAt
    <3>6. \E i \in DOMAIN waiters : waiters[i] = <<c, 1>>
      BY <3>1, <3>2, WaitingOrWoken
    <3>7. \E i \in DOMAIN waiters : NodeAt(i, l, c)
      BY <3>4, <3>6
    <3> QED
      BY <3>1, <3>4, <3>5, <3>7 DEF Eligible
  <2>2. ASSUME NEW c \in Eligible(l), ~nested[c]
        PROVE  c \in W
    <3>1. c \in Agents /\ IsWaiting(c) /\ InWait(c) /\ wait[c][1].loc = l
      BY <2>2, WaitsAt
    <3> QED
      BY <2>2, <3>1 DEF Waiting, At
  <2> QED
    BY <2>1, <2>2
<1> HIDE DEF W
<1>2. \A d \in W, c \in W : /\ <<d, c>> \in Order <=> Before(d, c)
                            /\ Ahead(l, d, c) <=> Before(d, c)
  <2> TAKE d \in W, c \in W
  <2>1. <<d, c>> \in Order <=> Before(d, c)
    BY <1>1 DEF Order
  <2>2. PICK p, q \in DOMAIN waiters : waiters[p] = <<d, 1>> /\ waiters[q] = <<c, 1>>
    BY <1>1
  <2>3. \A i \in DOMAIN waiters : /\ waiters[i] = <<d, 1>> <=> i = p
                                  /\ waiters[i] = <<c, 1>> <=> i = q
    BY <2>2 DEF IInv, WaitersExact, IsInjective
  <2>4. Before(d, c) <=> p < q
    BY <2>3 DEF Before
  <2>5. Ahead(l, d, c) <=> p < q
    BY <1>1, <2>3 DEF Ahead
  <2> QED
    BY <2>1, <2>4, <2>5
<1>3. /\ \A x \in W : <<x, x>> \notin Order
      /\ \A x, y \in W : x = y \/ <<x, y>> \in Order \/ <<y, x>> \in Order
      /\ \A x, y, z \in W : <<x, y>> \in Order /\ <<y, z>> \in Order => <<x, z>> \in Order
  <2>1. DOMAIN waiters \subseteq Nat
    BY LenProperties DEF IInv, TypeOK
  <2>2. \A i, j \in DOMAIN waiters : waiters[i] = waiters[j] => i = j
    BY DEF IInv, WaitersExact, IsInjective
  <2>3. ASSUME NEW x \in W PROVE ~Before(x, x)
    BY <2>1, <2>2 DEF Before
  <2>4. ASSUME NEW x \in W, NEW y \in W, x # y PROVE Before(x, y) \/ Before(y, x)
    <3>1. PICK p, q \in DOMAIN waiters : waiters[p] = <<x, 1>> /\ waiters[q] = <<y, 1>>
      BY <1>1
    <3>2. p # q
      BY <2>4, <3>1
    <3>3. p < q \/ q < p
      BY <2>1, <3>2
    <3> QED
      BY <3>1, <3>3 DEF Before
  <2>5. ASSUME NEW x \in W, NEW y \in W, NEW z \in W, Before(x, y), Before(y, z)
        PROVE  Before(x, z)
    <3>1. PICK p, q \in DOMAIN waiters : p < q /\ waiters[p] = <<x, 1>> /\ waiters[q] = <<y, 1>>
      BY <2>5 DEF Before
    <3>2. PICK s, t \in DOMAIN waiters : s < t /\ waiters[s] = <<y, 1>> /\ waiters[t] = <<z, 1>>
      BY <2>5 DEF Before
    <3>3. p < t
      <4>1. q = s
        BY <2>2, <3>1, <3>2
      <4> QED
        BY <2>1, <3>1, <3>2, <4>1
    <3> QED
      BY <3>1, <3>2, <3>3 DEF Before
  <2> QED
    BY <1>2, <2>3, <2>4, <2>5
<1>4. /\ \A c \in Eligible(l) : c \in chosen <=> (count = -1 \/ Cardinality(A(c)) < count)
      /\ chosen \subseteq Eligible(l)
  BY DEF Chosen
<1>5. K \in SUBSET W /\ \A c \in W : c \in K <=> (count = -1 \/ Cardinality(A(c)) < count)
  <2> HIDE DEF chosen, A
  <2> QED
    BY <1>1, <1>4
<1>6. /\ IsFiniteSet(W)
      /\ \A c : IsFiniteSet(A(c)) /\ Cardinality(A(c)) \in Nat
      /\ count = -1 \/ count \in Nat
  <2>1. W \in SUBSET Agents
    BY <1>1
  <2>2. \A c : A(c) \in SUBSET Agents
    BY DEF Eligible
  <2> HIDE DEF A
  <2> QED
    BY <2>1, <2>2, FutexAssumption, FS_Subset, FS_CardinalityType
<1>7. \E n \in (IF Astray = {} \/ count = -1 THEN {count} ELSE 0 .. count) : K = List!First(l, n)
  <2>1. \A n : List!First(l, n) = {c \in W : n = -1 \/ Cardinality(B(c)) < n}
    BY AbstractNames DEF W
  <2>2. \A c \in W : B(c) \in SUBSET A(c)
    BY <1>1, <1>2
  <2>3. CASE count = -1
    <3>1. K = W
      BY <1>5, <2>3
    <3>2. List!First(l, count) = W
      BY <2>1, <2>3
    <3> QED
      BY <2>3, <3>1, <3>2
  <2>4. CASE Astray = {} /\ count # -1
    <3>1. Eligible(l) = W
      BY <1>1, <2>4 DEF Astray, Eligible
    <3>2. \A c \in W : A(c) = B(c)
      BY <1>2, <3>1
    <3>3. K = List!First(l, count)
      <4> HIDE DEF K, A, B
      <4> QED
        BY <1>5, <2>1, <2>4, <3>2
    <3> QED
      BY <2>4, <3>3
  <2>5. CASE Astray # {} /\ count # -1
    <3>1. \A x \in K : Cardinality(B(x)) < count
      <4> TAKE x \in K
      <4>1. x \in W /\ Cardinality(A(x)) < count
        BY <1>5, <2>5
      <4>2. Cardinality(B(x)) <= Cardinality(A(x)) /\ Cardinality(B(x)) \in Nat
        <5>1. B(x) \in SUBSET A(x) /\ IsFiniteSet(A(x))
          BY <1>6, <2>2, <4>1
        <5> HIDE DEF A, B
        <5> QED
          BY <5>1, FS_Subset, FS_CardinalityType
      <4> HIDE DEF A, B
      <4> QED
        BY <1>6, <2>5, <4>1, <4>2
    <3>2. ASSUME NEW x \in K, NEW y \in W, <<y, x>> \in Order PROVE y \in K
      <4>1. x \in W /\ Cardinality(A(x)) < count
        BY <1>5, <2>5
      <4>2. A(y) \in SUBSET A(x)
        <5> SUFFICES ASSUME NEW c \in Eligible(l), Ahead(l, c, y) PROVE Ahead(l, c, x)
          OBVIOUS
        <5>1. PICK i \in DOMAIN waiters :
                NodeAt(i, l, c) /\ \A j \in DOMAIN waiters : NodeAt(j, l, y) => i < j
          BY DEF Ahead
        <5>2. PICK p, q \in DOMAIN waiters : p < q /\ waiters[p] = <<y, 1>> /\ waiters[q] = <<x, 1>>
          BY <1>2, <3>2, <4>1 DEF Before
        <5>3. i < p
          BY <1>1, <5>1, <5>2
        <5>4. \A j \in DOMAIN waiters : NodeAt(j, l, x) => j = q
          BY <1>1, <4>1, <5>2 DEF IInv, WaitersExact, IsInjective
        <5>5. i < q
          <6>1. DOMAIN waiters \subseteq Nat
            BY LenProperties DEF IInv, TypeOK
          <6> QED
            BY <5>2, <5>3, <6>1
        <5> QED
          BY <5>1, <5>4, <5>5 DEF Ahead
      <4>3. Cardinality(A(y)) < count
        <5>1. Cardinality(A(y)) <= Cardinality(A(x))
          <6> HIDE DEF A
          <6> QED
            BY <1>6, <4>2, FS_Subset
        <5> HIDE DEF A
        <5> QED
          BY <1>6, <2>5, <4>1, <5>1
      <4> QED
        BY <1>5, <4>3
    <3> DEFINE before == [c \in W |-> B(c)]
    <3>3. Cardinality(K) \in 0..count /\ \A x \in W : x \in K <=> Cardinality(B(x)) < Cardinality(K)
      <4>1. /\ before \in [W -> SUBSET W]
            /\ \A x, y \in W : x \in before[y] <=> <<x, y>> \in Order
            /\ \A x \in W : before[x] = B(x)
        OBVIOUS
      <4>2. K \in SUBSET W /\ count \in Nat
        BY <1>5, <1>6, <2>5
      <4> HIDE DEF K, A, B, before
      <4>3. /\ \A x \in W : x \notin before[x]
            /\ \A x, y \in W : x = y \/ x \in before[y] \/ y \in before[x]
            /\ \A x, y, z \in W : x \in before[y] /\ y \in before[z] => x \in before[z]
        BY <1>3, <4>1
      <4>4. \A x \in K : before[x] \subseteq K /\ Cardinality(before[x]) < count
        BY <3>1, <3>2, <4>1, <4>2
      <4>5. /\ Cardinality(K) \in 0..count
            /\ \A x \in W : x \in K <=> Cardinality(before[x]) < Cardinality(K)
        BY <1>6, <4>1, <4>2, <4>3, <4>4, FirstPart
      <4> QED
        BY <4>1, <4>5
    <3>4. Cardinality(K) # -1
      BY <3>3
    <3>5. K = List!First(l, Cardinality(K))
      <4>1. K \in SUBSET W
        BY <1>5
      <4> HIDE DEF K, A, B
      <4> QED
        BY <2>1, <3>3, <3>4, <4>1
    <3> HIDE DEF K
    <3> QED
      BY <2>5, <3>3, <3>5
  <2> QED
    BY <2>3, <2>4, <2>5
<1>8. /\ K = {c \in chosen : ~nested[c]}
      /\ \A c \in chosen : c \in Agents
      /\ state' = [a \in Agents |-> IF a \in chosen THEN "Woken" ELSE state[a]]
      /\ UNCHANGED <<waiters, wait, pc, nested, result>>
  BY DEF Chosen, Eligible, Notify
<1> HIDE DEF chosen, K
<1>9. Waiting' = Waiting \ K /\ Woken' = Woken \cup K
  BY <1>8 DEF Waiting, Woken, IsWaiting
<1>10. Order' = {p \in Order : p[1] \notin K /\ p[2] \notin K}
  <2>1. \A x, y : Before(x, y)' <=> Before(x, y)
    BY <1>8 DEF Before
  <2>2. Order' = {p \in Waiting' \X Waiting' : Before(p[1], p[2])'}
    BY DEF Order
  <2> HIDE DEF Waiting
  <2> QED
    BY <1>9, <2>1, <2>2 DEF Order
<1>11. At' = At /\ Outcome' = Outcome /\ Astray' = Astray
  BY <1>8 DEF At, Outcome, Astray, InWait
<1> QED
  BY <1>7, <1>9, <1>10, <1>11
  DEF List!LNotify, List!TakeOff, Order, At, Woken, Outcome, Astray

LEMMA InitMaps == Init => List!LInit
<1> SUFFICES ASSUME Init PROVE List!LInit
  OBVIOUS
<1>1. Waiting = {} /\ Woken = {} /\ Astray = {}
  BY DEF Init, Waiting, Woken, Astray, IsWaiting
<1>2. At = [a \in Agents |-> "none"] /\ Outcome = [a \in Agents |-> "none"]
  BY DEF Init, At, Outcome, InWait
<1>3. Order = {}
  BY <1>1 DEF Order
<1> QED
  BY <1>1, <1>2, <1>3 DEF List!LInit, Order, At, Woken, Outcome, Astray

LEMMA StepMaps ==
  ASSUME IInv, [Next]_vars
  PROVE  [List!LNext]_List!listVars
<1>1. ASSUME NEW a \in Agents, NEW l \in Locations, NEW timed \in BOOLEAN, Wait(a, l, timed)
      PROVE  List!LNext \/ UNCHANGED List!listVars
  BY <1>1, WaitMaps DEF List!LNext
<1>2. ASSUME NEW a \in Agents, NEW l \in Locations, NEW count \in Counts, Notify(a, l, count)
      PROVE  List!LNext
  BY <1>2, NotifyMaps DEF List!LNext
<1>3. ASSUME NEW a \in Agents, NEW r \in {"OK", "TimedOut", "Error"}, Return(a, r), InWait(a),
             r = "OK" => state[a] = "Woken", r = "TimedOut" => state[a] = "Waiting"
      PROVE  List!LNext \/ UNCHANGED List!listVars
  <2>1. CASE ~nested[a]
    BY <1>3, <2>1, ReturnMaps DEF List!LNext
  <2>2. CASE nested[a]
    <3>1. /\ Leave(a)
          /\ \A b \in Agents : b # a => state'[b] = state[b] /\ result'[b] = result[b]
      BY <1>3 DEF Return, IInv, TypeOK
    <3> QED
      BY <2>2, <3>1, StrayLeaves
  <2> QED
    BY <2>1, <2>2
<1>4. ASSUME NEW a \in Agents, WakeUp(a) PROVE List!LNext \/ UNCHANGED List!listVars
  <2>1. InWait(a)
    BY <1>4 DEF WakeUp, InWait
  <2>2. CASE state[a] = "Waiting" /\ Return(a, "TimedOut")
    BY <1>3, <2>1, <2>2
  <2>3. CASE state[a] = "Woken" /\ Return(a, "OK")
    BY <1>3, <2>1, <2>3
  <2>4. CASE /\ state[a] = "WaitingNotifiedForInterrupt"
             /\ state' = [state EXCEPT ![a] = "WaitingInterrupted"]
             /\ pc' = [pc EXCEPT ![a] = "handleInterrupt"]
             /\ UNCHANGED <<waiters, wait, historyVars>>
    <3>1. \A b \in Agents : /\ InWait(b)' <=> InWait(b)
                            /\ state'[b] = "Woken" <=> state[b] = "Woken"
                            /\ IsWaiting(b)' <=> IsWaiting(b)
      BY <2>1, <2>4 DEF IInv, TypeOK, IsWaiting, InWait
    <3> QED
      BY <2>4, <3>1, UnseenFrame DEF historyVars
  <2> QED
    BY <1>4, <2>2, <2>3, <2>4 DEF WakeUp
<1>5. ASSUME NEW a \in Agents, HandlerReturns(a) PROVE List!LNext \/ UNCHANGED List!listVars
  <2>1. InWait(a)
    BY <1>5 DEF HandlerReturns, InWait
  <2>2. CASE Return(a, "Error")
    BY <1>3, <2>1, <2>2
  <2>3. CASE state[a] = "Woken" /\ Return(a, "OK")
    BY <1>3, <2>1, <2>3
  <2>4. CASE state[a] # "Woken" /\ Sleep(a) /\ UNCHANGED <<waiters, wait, historyVars>>
    <3>1. ~nested[a] => IsWaiting(a)
      BY <2>1, <2>4 DEF IInv, TypeOK, Nesting, IsWaiting
    <3>2. \A b \in Agents :
            /\ InWait(b)' <=> InWait(b)
            /\ ~nested[b] => /\ state'[b] = "Woken" <=> state[b] = "Woken"
                             /\ IsWaiting(b)' <=> IsWaiting(b)
      BY <2>1, <2>4, <3>1 DEF IInv, TypeOK, IsWaiting, InWait, Sleep
    <3> QED
      BY <2>4, <3>2, UnseenFrame DEF historyVars
  <2> QED
    BY <1>5, <2>2, <2>3, <2>4 DEF HandlerReturns, HandlerSucceeds
<1>6. ASSUME NEW a \in Agents, RefusedReturns(a) PROVE UNCHANGED List!listVars
  <2>1. nested[a] /\ Leave(a) /\ UNCHANGED <<state, result>>
    BY <1>6 DEF RefusedReturns, IInv, Nesting
  <2> QED
    BY <2>1, StrayLeaves
<1>7. ASSUME NEW a \in Agents, NotifyForJSInterrupt(a) PROVE UNCHANGED List!listVars
  <2>1. \A b \in Agents : /\ state'[b] = "Woken" <=> state[b] = "Woken"
                          /\ IsWaiting(b)' <=> IsWaiting(b)
    BY <1>7 DEF IInv, TypeOK, NotifyForJSInterrupt, IsWaiting
  <2> QED
    BY <1>7, <2>1, UnseenFrame DEF NotifyForJSInterrupt, historyVars, InWait
<1>8. ASSUME NEW a \in Agents, HandleInterrupt(a) PROVE UNCHANGED List!listVars
  <2>1. \A b \in Agents : InWait(b)' <=> InWait(b)
    BY <1>8 DEF IInv, TypeOK, HandleInterrupt, InWait
  <2> QED
    BY <1>8, <2>1, UnseenFrame DEF HandleInterrupt, IsWaiting, historyVars
<1>9. ASSUME NEW a \in Agents, RequestInterrupt(a) \/ Poll(a)
      PROVE  UNCHANGED List!listVars
  BY <1>9, UnseenFrame DEF RequestInterrupt, Poll, IsWaiting, InWait, historyVars
<1>10. CASE UNCHANGED vars
  BY <1>10, UnseenFrame DEF vars, IsWaiting, InWait
<1> QED
  BY <1>1, <1>2, <1>4, <1>5, <1>6, <1>7, <1>8, <1>9, <1>10 DEF Next

\* Atomics.wait() and Atomics.notify() implement the list of waiters that they
\* promise, for every thread whose interrupt handlers call no wait() while it
\* waits: AtomicsWait() puts it behind all others, atomics_notify_impl() takes
\* off those that came first although their nodes stay linked, and no timeout,
\* interrupt or handler puts one back or wakes another.  A thread whose handler
\* does wait goes astray, and what it is woken with, or refused, while astray
\* costs the others no more than a place in a notify()'s count.
THEOREM FutexImplementsWaiterList == Spec => ImplementsWaiterList
<1>1. Spec => List!LInit /\ [][List!LNext]_List!listVars
  BY InitMaps, StepMaps, Invariant, PTL DEF Spec
<1> QED
  BY <1>1 DEF ImplementsWaiterList, List!LSpec
=============================================================================
