-------------------------------- MODULE Futex --------------------------------
(***************************************************************************)
(* Atomics.wait() and Atomics.notify() (builtin/AtomicsObject.cpp), with   *)
(* the interrupts that reach a waiting thread (JSContext::requestInterrupt *)
(* in vm/Runtime.cpp).                                                     *)
(*                                                                         *)
(* Every agent has one FutexThread; the waiters of a buffer are on one     *)
(* list in the order of their arrival.  A step that holds the futex lock   *)
(* from beginning to end is one action; wait() releases the lock while it  *)
(* sleeps and while the interrupt handler runs.  A handler may call wait() *)
(* in turn, so that a thread has a stack of waits and a node in the list   *)
(* for each.  The assertion at the head of wait() is that of a debug       *)
(* build; this is a release build, which has none.                         *)
(***************************************************************************)
EXTENDS Integers, SequencesExt

CONSTANTS
  Agents,        \* the threads that share the buffer
  CanWait,       \* those whose canWait() is true
  Locations,     \* byte offsets in the buffer
  Counts,        \* the counts given to notify(); -1 is all
  MaxInterrupts  \* a bound on the urgent interrupts asked for

ASSUME FutexAssumption ==
  /\ IsFiniteSet(Agents)
  /\ CanWait \subseteq Agents
  /\ Locations # {}
  /\ Counts \subseteq {-1} \cup Nat
  /\ MaxInterrupts \in Nat

VARIABLES
  waiters,    \* SharedArrayRawBuffer::waiters(), the highest priority first:
              \* the n-th wait of thread a's stack is the node <<a, n>>
  state,      \* FutexThread::state_
  pc,         \* script, in cond_->wait(), in the interrupt handler, or about
              \* to return from a wait() that was refused
  wait,       \* the stack of waits of each thread, the innermost last
  signalled,  \* cond_ was notified since the agent went to sleep
  bits,       \* interruptBits_ holds CallbackUrgent
  asked,      \* requestInterrupt() has set the bits and wants the lock
  requests,   \* the interrupts asked for
  counted,    \* history: a notify() has counted the outermost wait as woken
  nested,     \* history: a handler has called wait() since that one began
  result      \* what the last outermost wait returned

vars == <<waiters, state, pc, wait, signalled, bits, asked, requests, counted, nested, result>>
interruptVars == <<bits, asked, requests>>
historyVars == <<counted, nested, result>>

-----------------------------------------------------------------------------
Init ==
  /\ waiters = <<>>
  /\ state = [a \in Agents |-> "Idle"]
  /\ pc = [a \in Agents |-> "script"]
  /\ wait = [a \in Agents |-> <<>>]
  /\ signalled = [a \in Agents |-> FALSE]
  /\ bits = [a \in Agents |-> FALSE]
  /\ asked = [a \in Agents |-> FALSE]
  /\ requests = 0
  /\ counted = [a \in Agents |-> FALSE]
  /\ nested = [a \in Agents |-> FALSE]
  /\ result = [a \in Agents |-> "none"]

\* Script runs in the interrupt handler too.
Runs(a) == pc[a] \in {"script", "handler"}

(***************************************************************************)
(* wait().                                                                 *)
(***************************************************************************)
Depth(a) == Len(wait[a])

\* Defect: the new waiter is put before the others.
EnqueueFirst(a) == waiters' = <<<<a, Depth(a) + 1>>>> \o waiters

\* A new waiter is the last of the list.
Enqueue(a) == waiters' = Append(waiters, <<a, Depth(a) + 1>>)

\* The loop of FutexThread::wait() goes to sleep.
Sleep(a) ==
  /\ state' = [state EXCEPT ![a] = "Waiting"]
  /\ pc' = [pc EXCEPT ![a] = "sleep"]
  /\ signalled' = [signalled EXCEPT ![a] = FALSE]

\* In a handler wait() is refused, if the state still tells of the handler: the
\* lock is released to report the error, with the node in the list.
Refuse(a) ==
  /\ pc' = [pc EXCEPT ![a] = "refused"]
  /\ UNCHANGED <<state, signalled>>

(* AtomicsWait() up to the first sleep, if the element holds the value that *)
(* the caller expects.  A thread that may not wait throws, and one that     *)
(* finds another value returns "not-equal": nothing changes.                *)
Wait(a, l, timed) ==
  /\ Runs(a)
  /\ a \in CanWait
  /\ Enqueue(a)
  /\ wait' = [wait EXCEPT ![a] = Append(@, [loc |-> l, timed |-> timed])]
  /\ IF state[a] = "WaitingInterrupted" THEN Refuse(a) ELSE Sleep(a)
  /\ nested' = [nested EXCEPT ![a] = (pc[a] = "handler")]
  /\ IF pc[a] = "handler"
     THEN UNCHANGED <<counted, result>>
     ELSE /\ counted' = [counted EXCEPT ![a] = FALSE]
          /\ result' = [result EXCEPT ![a] = "none"]
  /\ UNCHANGED interruptVars

\* Defect: the head of the list is taken out, whoever it is.
UnlinkHead(a) == waiters' = Tail(waiters)

Unlink(a) ==
  \E i \in DOMAIN waiters : waiters[i] = <<a, Depth(a)>> /\ waiters' = RemoveAt(waiters, i)

\* The caller of FutexThread::wait() unlinks the waiter of the innermost wait
\* and returns to the script, or to the handler, that made it.
Leave(a) ==
  /\ Unlink(a)
  /\ wait' = [wait EXCEPT ![a] = Front(@)]
  /\ pc' = [pc EXCEPT ![a] = IF Depth(a) = 1 THEN "script" ELSE "handler"]
  /\ UNCHANGED <<interruptVars, counted, nested>>

\* wait() returns r and leaves the thread Idle, in a handler too.
Return(a, r) ==
  /\ Leave(a)
  /\ state' = [state EXCEPT ![a] = "Idle"]
  /\ signalled' = [signalled EXCEPT ![a] = FALSE]
  /\ result' = IF Depth(a) = 1 THEN [result EXCEPT ![a] = r] ELSE result

\* The error is reported, wait() has the lock again and leaves the state alone.
RefusedReturns(a) ==
  /\ pc[a] = "refused"
  /\ Leave(a)
  /\ UNCHANGED <<state, signalled, result>>

(* The switch after cond_->wait() has returned: notified, at the end of    *)
(* the time, or for no reason.  In state Waiting before the end of the     *)
(* time the loop goes to sleep again, and nothing has changed.             *)
WakeUp(a) ==
  /\ pc[a] = "sleep"
  /\ \/ state[a] = "Waiting" /\ Last(wait[a]).timed /\ Return(a, "TimedOut")
     \/ state[a] = "Woken" /\ Return(a, "OK")
     \/ /\ state[a] = "WaitingNotifiedForInterrupt"
        /\ state' = [state EXCEPT ![a] = "WaitingInterrupted"]
        /\ pc' = [pc EXCEPT ![a] = "handleInterrupt"]
        /\ UNCHANGED <<waiters, wait, signalled, interruptVars, historyVars>>

\* JSContext::handleInterrupt() clears the bits and calls the callbacks.
HandleInterrupt(a) ==
  /\ pc[a] = "handleInterrupt"
  /\ bits' = [bits EXCEPT ![a] = FALSE]
  /\ pc' = [pc EXCEPT ![a] = "handler"]
  /\ UNCHANGED <<waiters, state, wait, signalled, asked, requests, historyVars>>

\* Defect: a notify() during the handler is not looked for.
HandlerSucceedsAndSleeps(a) ==
  /\ Sleep(a)
  /\ UNCHANGED <<waiters, wait, interruptVars, historyVars>>

\* The handler has returned true.  A wait() in it may have left any state.
HandlerSucceeds(a) ==
  \/ state[a] = "Woken" /\ Return(a, "OK")
  \/ /\ state[a] # "Woken"
     /\ Sleep(a)
     /\ UNCHANGED <<waiters, wait, interruptVars, historyVars>>

HandlerReturns(a) ==
  /\ pc[a] = "handler"
  /\ HandlerSucceeds(a) \/ Return(a, "Error")

-----------------------------------------------------------------------------
(***************************************************************************)
(* notify().                                                               *)
(***************************************************************************)
\* Defect: a thread that was woken counts as waiting until it returns.
IsWaitingOrWoken(a) == state[a] # "Idle"

IsWaiting(a) ==
  state[a] \in {"Waiting", "WaitingInterrupted", "WaitingNotifiedForInterrupt"}

\* The i-th node of the list is one of a thread's that waits for a location.
NodeAt(i, l, a) == waiters[i][1] = a /\ wait[a][waiters[i][2]].loc = l

Eligible(l) == {a \in Agents : IsWaiting(a) /\ \E i \in DOMAIN waiters : NodeAt(i, l, a)}

\* notify() comes to a node of thread a before it comes to any of thread b's.
Ahead(l, a, b) ==
  \E i \in DOMAIN waiters :
    NodeAt(i, l, a) /\ \A j \in DOMAIN waiters : NodeAt(j, l, b) => i < j

\* The threads that notify() comes to before the count is used up.  The first
\* node of a thread is its outermost; at the next one it no longer waits.
Chosen(l, count) ==
  {a \in Eligible(l) :
     count = -1 \/ Cardinality({b \in Eligible(l) : Ahead(l, b, a)}) < count}

\* A thread in its handler, or on its way there, is not signalled again.
Notify(b, l, count) ==
  LET chosen == Chosen(l, count)
  IN  /\ Runs(b)
      /\ state' = [a \in Agents |-> IF a \in chosen THEN "Woken" ELSE state[a]]
      /\ signalled' = [a \in Agents |-> (a \in chosen /\ state[a] = "Waiting") \/ signalled[a]]
      /\ counted' = [a \in Agents |-> (a \in chosen /\ wait[a][1].loc = l) \/ counted[a]]
      /\ UNCHANGED <<waiters, pc, wait, interruptVars, nested, result>>

(***************************************************************************)
(* Urgent interrupts: requestInterrupt() sets the bits without a lock,     *)
(* then takes the futex lock to reach a thread that waits.  Those of a     *)
(* thread that may not wait never meet the futex and are left out.         *)
(***************************************************************************)
RequestInterrupt(a) ==
  /\ a \in CanWait
  /\ requests < MaxInterrupts
  /\ ~asked[a]
  /\ requests' = requests + 1
  /\ bits' = [bits EXCEPT ![a] = TRUE]
  /\ asked' = [asked EXCEPT ![a] = TRUE]
  /\ UNCHANGED <<waiters, state, pc, wait, signalled, historyVars>>

NotifyForJSInterrupt(a) ==
  /\ asked[a]
  /\ asked' = [asked EXCEPT ![a] = FALSE]
  /\ IF IsWaiting(a) /\ state[a] # "WaitingNotifiedForInterrupt"
     THEN /\ state' = [state EXCEPT ![a] = "WaitingNotifiedForInterrupt"]
          /\ signalled' = [signalled EXCEPT ![a] = (pc[a] = "sleep")]
     ELSE UNCHANGED <<state, signalled>>
  /\ UNCHANGED <<waiters, pc, wait, bits, requests, historyVars>>

\* Running script polls the bits.
Poll(a) ==
  /\ Runs(a)
  /\ bits[a]
  /\ bits' = [bits EXCEPT ![a] = FALSE]
  /\ UNCHANGED <<waiters, state, pc, wait, signalled, asked, requests, historyVars>>

Next ==
  \E a \in Agents :
    \/ \E l \in Locations, timed \in BOOLEAN : Wait(a, l, timed)
    \/ \E l \in Locations, count \in Counts : Notify(a, l, count)
    \/ WakeUp(a) \/ RefusedReturns(a) \/ HandleInterrupt(a) \/ HandlerReturns(a)
    \/ RequestInterrupt(a) \/ NotifyForJSInterrupt(a) \/ Poll(a)

Spec == Init /\ [][Next]_vars

(* Fairness: time passes, a thread whose condition variable was notified   *)
(* or whose time is over comes back and gets the lock, so does one that    *)
(* has reported an error, and handlers end.  Nothing is assumed of wakeups *)
(* without a reason.                                                       *)
ReturnsFromSleep(a) == pc[a] = "sleep" /\ (signalled[a] \/ Last(wait[a]).timed) /\ WakeUp(a)

Fairness ==
  \A a \in Agents :
    /\ WF_vars(ReturnsFromSleep(a))
    /\ WF_vars(RefusedReturns(a))
    /\ WF_vars(HandleInterrupt(a))
    /\ WF_vars(HandlerReturns(a))
    /\ WF_vars(NotifyForJSInterrupt(a))

FairSpec == Spec /\ Fairness

-----------------------------------------------------------------------------
(***************************************************************************)
(* Properties.                                                             *)
(***************************************************************************)
InWait(a) == pc[a] # "script"

OpenWaits == UNION {{a} \X (1 .. Depth(a)) : a \in Agents}

\* Type correctness: only threads that may wait are ever listed.
TypeOK ==
  /\ waiters \in Seq(CanWait \X Nat)
  /\ state \in [Agents -> {"Idle", "Waiting", "WaitingNotifiedForInterrupt",
                           "WaitingInterrupted", "Woken"}]
  /\ pc \in [Agents -> {"script", "sleep", "handleInterrupt", "handler", "refused"}]
  /\ wait \in [Agents -> Seq([loc : Locations, timed : BOOLEAN])]
  /\ signalled \in [Agents -> BOOLEAN]
  /\ bits \in [Agents -> BOOLEAN] /\ asked \in [Agents -> BOOLEAN]
  /\ requests \in 0..MaxInterrupts
  /\ counted \in [Agents -> BOOLEAN] /\ nested \in [Agents -> BOOLEAN]
  /\ result \in [Agents -> {"none", "OK", "TimedOut", "Error"}]

(* The list holds exactly the open waits, each once and those of a thread  *)
(* in the order of nesting, so that no node of a returned stack frame      *)
(* stays linked.  A thread outside wait() is Idle, and one that sleeps is  *)
(* in one of the states that wait() expects there and has been signalled   *)
(* if there is anything to learn, whatever its handlers have called.       *)
WaitersExact ==
  /\ IsInjective(waiters)
  /\ ToSet(waiters) = OpenWaits
  /\ \A i, j \in DOMAIN waiters :
       waiters[i][1] = waiters[j][1] /\ waiters[i][2] < waiters[j][2] => i < j
  /\ \A a \in Agents :
       /\ InWait(a) <=> Depth(a) > 0
       /\ ~InWait(a) => state[a] = "Idle"
       /\ pc[a] = "sleep" => \/ state[a] = "Waiting"
                             \/ /\ state[a] \in {"WaitingNotifiedForInterrupt", "Woken"}
                                /\ signalled[a]

(* A wait counted by a notify() is over: no later interrupt, timeout or    *)
(* end of a handler puts the thread to sleep again, and it returns "ok"    *)
(* unless its handler fails.  A wait that was not counted never returns    *)
(* "ok".  This is so as long as the thread's own handlers call no wait();  *)
(* those of other threads may.                                             *)
CountedIsWoken ==
  \A a \in Agents : ~nested[a] =>
    /\ InWait(a) => (counted[a] <=> state[a] = "Woken")
    /\ ~InWait(a) /\ counted[a] => result[a] \in {"OK", "Error"}
    /\ result[a] = "OK" => counted[a]

(* "the highest priority waiter" first: among the threads whose outermost  *)
(* waits are for one location none is woken before one that came earlier   *)
(* and whose handlers have not called wait(), whatever interrupts them.    *)
FirstComeFirstWoken ==
  \A i, j \in DOMAIN waiters :
    LET a == waiters[i][1]
        b == waiters[j][1]
        inOrder == i < j /\ waiters[i][2] = 1 /\ waiters[j][2] = 1
    IN  inOrder /\ wait[a][1].loc = wait[b][1].loc /\ counted[b] /\ ~nested[a] => counted[a]

(* A wait with a timeout, and one that was counted and whose handlers did  *)
(* not wait, ends or goes on to a handler that calls wait().  A thread has *)
(* no more waits open than interrupts and one.                             *)
WaitsReturn ==
  \A a \in CanWait, n \in 1 .. (MaxInterrupts + 1) :
    (Depth(a) = n /\ (wait[a][n].timed \/ (counted[a] /\ ~nested[a]))) ~> Depth(a) # n

(* The list of waiters as notify() sees it: the code leaves a woken thread *)
(* linked until it has the lock again, and takes it for gone.  Threads     *)
(* whose handlers wait are on a list of their own.                         *)
Waiting == {a \in Agents : IsWaiting(a) /\ ~nested[a]}

Before(a, b) == \E i, j \in DOMAIN waiters : i < j /\ waiters[i] = <<a, 1>> /\ waiters[j] = <<b, 1>>

List ==
  INSTANCE WaiterList WITH
    waiting <- Waiting,
    earlier <- {p \in Waiting \X Waiting : Before(p[1], p[2])},
    at <- [a \in Agents |-> IF InWait(a) /\ ~nested[a] THEN wait[a][1].loc ELSE "none"],
    woken <- {a \in Agents : state[a] = "Woken" /\ ~nested[a]},
    outcome <- [a \in Agents |-> IF nested[a] THEN "none" ELSE result[a]],
    astray <- {a \in Agents : nested[a]}

(* Whatever wakes a thread up or interrupts it, the threads see a list     *)
(* that notify() takes them off in the order of their arrival, except for  *)
(* a thread whose interrupt handler itself calls wait().                   *)
ImplementsWaiterList == List!LSpec

(* "If the thread is waiting in a call to wait() and the reason is         *)
(* NotifyExplicit then the wait() call will return with Woken" (notify()): *)
(* a thread whose only open wait was notified is never asleep in it with   *)
(* nothing to wake it.                                                     *)
NotifiedWaitReturns ==
  \A a \in Agents : counted[a] /\ Depth(a) = 1 /\ pc[a] = "sleep" => signalled[a]

(* An urgent interrupt reaches a thread that does not poll: "take          *)
(* additional steps to interrupt corner cases where the above fields are   *)
(* not regularly polled" (requestInterrupt()).  No thread sleeps untold    *)
(* while its bits are set and requestInterrupt() has returned.             *)
UrgentInterruptArrives ==
  \A a \in Agents : bits[a] /\ ~asked[a] => ~(pc[a] = "sleep" /\ state[a] = "Waiting")

=============================================================================
