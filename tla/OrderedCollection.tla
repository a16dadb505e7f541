-------------------------- MODULE OrderedCollection --------------------------
(***************************************************************************)
(* What a Map or a Set promises to a program that iterates over it while   *)
(* it changes: its keys stand in the order of their insertion, and an      *)
(* iterator has passed some of them from the front.  It returns each of    *)
(* the others in turn, those inserted after it was created too, until it   *)
(* meets the end once: then it is done for ever.                           *)
(*                                                                         *)
(* This is the abstract specification that OrderedHashTable implements.    *)
(***************************************************************************)
EXTENDS Naturals, SequencesExt

CONSTANTS
  Keys,
  Iterators,
  NoKey,        \* delete() returns the key or NoKey, next() NoKey at the end
  OutOfMemory   \* a call has thrown

VARIABLES
  entries,    \* the keys, in the order of insertion
  iters,      \* what each iterator is doing, and how many keys it has passed
  returned    \* what the last call returned

abstractVars == <<entries, iters, returned>>

Unused == [state |-> "unused", passed |-> 0]
Done == [state |-> "done", passed |-> 0]
At(n) == [state |-> "live", passed |-> n]

AInit ==
  /\ entries = <<>>
  /\ iters = [r \in Iterators |-> Unused]
  /\ returned = NoKey

(* A new key goes to the end; out of memory, nothing changes. *)
APut(k) ==
  /\ UNCHANGED iters
  /\ \/ /\ returned' = NoKey
        /\ entries' = IF Contains(entries, k) THEN entries ELSE Append(entries, k)
     \/ /\ returned' = OutOfMemory
        /\ ~Contains(entries, k)
        /\ UNCHANGED entries

(* The iterators that have passed the key have passed one key less.  The   *)
(* call may throw although the key is gone.                                *)
ARemove(k) ==
  \/ /\ returned' = NoKey
     /\ UNCHANGED iters
     /\ ~Contains(entries, k)
     /\ UNCHANGED entries
  \/ /\ returned' \in {k, OutOfMemory}
     /\ \E p \in DOMAIN entries :
          /\ entries[p] = k
          /\ entries' = RemoveAt(entries, p)
          /\ iters' = [r \in Iterators |->
                         IF iters[r].state = "live" /\ p <= iters[r].passed
                         THEN At(iters[r].passed - 1) ELSE iters[r]]

AClear ==
  \/ /\ returned' = NoKey
     /\ entries' = <<>>
     /\ iters' = [r \in Iterators |->
                    IF iters[r].state = "live" THEN At(0) ELSE iters[r]]
  \/ /\ returned' = OutOfMemory
     /\ UNCHANGED <<entries, iters>>

AIterate(r) ==
  /\ iters[r] = Unused
  /\ iters' = [iters EXCEPT ![r] = At(0)]
  /\ UNCHANGED <<entries, returned>>

ANext(r) ==
  /\ iters[r] # Unused
  /\ IF iters[r].state = "live" /\ iters[r].passed < Len(entries)
     THEN /\ returned' = entries[iters[r].passed + 1]
          /\ iters' = [iters EXCEPT ![r] = At(@.passed + 1)]
     ELSE /\ returned' = NoKey
          /\ iters' = [iters EXCEPT ![r] = Done]
  /\ UNCHANGED entries

(* Nothing refers to these iterators any more. *)
ADrop(R) ==
  /\ iters' = [r \in Iterators |-> IF r \in R THEN Unused ELSE iters[r]]
  /\ UNCHANGED <<entries, returned>>

ANextState ==
  \/ \E k \in Keys : APut(k) \/ ARemove(k)
  \/ AClear
  \/ \E r \in Iterators : AIterate(r) \/ ANext(r)
  \/ \E R \in SUBSET Iterators : ADrop(R)

ASpec == AInit /\ [][ANextState]_abstractVars

=============================================================================
