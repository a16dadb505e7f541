----------------------------- MODULE WaiterList -----------------------------
(***************************************************************************)
(* What Atomics.wait() and Atomics.notify() promise to the threads that    *)
(* share a buffer, whatever else happens to a thread while it waits.  A    *)
(* thread that waits is on a list in the order of arrival; notify() takes  *)
(* those that came first off the list at once, and whoever is off the list *)
(* never gets on it again before it has returned.  A wait ends as timed    *)
(* out only from the list, and as "ok" only from outside it.               *)
(*                                                                         *)
(* Nothing of this is promised to a thread that goes astray: one whose     *)
(* interrupt handler itself calls wait().  It has the promise again for    *)
(* its next wait, and meanwhile the others have it, except that it may use *)
(* up some of the count of a notify().                                     *)
(*                                                                         *)
(* This is the abstract specification that Futex implements.  It knows     *)
(* nothing of spurious wakeups, condition variables or interrupts.         *)
(***************************************************************************)
EXTENDS Integers, FiniteSets

CONSTANTS
  Agents,
  Locations,
  Counts    \* the counts given to notify(); -1 is all

VARIABLES
  waiting,    \* the threads on the list
  earlier,    \* the order of the list: pairs of the earlier and the later one
  at,         \* the location that each thread has waited for since it called wait()
  woken,      \* the threads that notify() has taken off the list
  outcome,    \* what the last wait of each thread returned
  astray      \* the threads that have called wait() while they waited

listVars == <<waiting, earlier, at, woken, outcome, astray>>

LInit ==
  /\ waiting = {} /\ earlier = {} /\ woken = {} /\ astray = {}
  /\ at = [a \in Agents |-> "none"]
  /\ outcome = [a \in Agents |-> "none"]

(* A thread gets on the list behind all others. *)
LWait(a, l) ==
  /\ a \notin waiting /\ a \notin woken
  /\ waiting' = waiting \cup {a}
  /\ earlier' = earlier \cup (waiting \X {a})
  /\ at' = [at EXCEPT ![a] = l]
  /\ outcome' = [outcome EXCEPT ![a] = "none"]
  /\ astray' = astray \ {a}
  /\ UNCHANGED woken

(* The waiters of a location that have fewer than `count' of them before   *)
(* them.                                                                   *)
First(l, count) ==
  LET here == {a \in waiting : at[a] = l}
  IN  {a \in here : count = -1 \/ Cardinality({b \in here : <<b, a>> \in earlier}) < count}

(* The list without the threads of S. *)
TakeOff(S) ==
  /\ waiting' = waiting \ S
  /\ earlier' = {p \in earlier : p[1] \notin S /\ p[2] \notin S}

(* Those that came first are taken off, as many as the count says: fewer    *)
(* only if there are no more, or if threads astray have used up the rest.  *)
LNotify(l, count) ==
  \E n \in IF astray = {} \/ count = -1 THEN {count} ELSE 0 .. count :
    /\ TakeOff(First(l, n))
    /\ woken' = woken \cup First(l, n)
    /\ UNCHANGED <<at, outcome, astray>>

(* A wait ends.  It may throw at any time: an interrupt handler has failed. *)
LReturn(a, r) ==
  /\ \/ r = "TimedOut" /\ a \in waiting
     \/ r = "OK" /\ a \in woken
     \/ r = "Error" /\ a \in waiting \cup woken
  /\ TakeOff({a})
  /\ woken' = woken \ {a}
  /\ at' = [at EXCEPT ![a] = "none"]
  /\ outcome' = [outcome EXCEPT ![a] = r]
  /\ UNCHANGED astray

(* A thread that waits calls wait(). *)
LStray(a) ==
  /\ a \in waiting \cup woken
  /\ TakeOff({a})
  /\ woken' = woken \ {a}
  /\ at' = [at EXCEPT ![a] = "none"]
  /\ astray' = astray \cup {a}
  /\ UNCHANGED outcome

LNext ==
  \/ \E a \in Agents, l \in Locations : LWait(a, l)
  \/ \E l \in Locations, count \in Counts : LNotify(l, count)
  \/ \E a \in Agents : LStray(a)
  \/ \E a \in Agents, r \in {"TimedOut", "OK", "Error"} : LReturn(a, r)

LSpec == LInit /\ [][LNext]_listVars

=============================================================================
