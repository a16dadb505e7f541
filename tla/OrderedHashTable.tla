--------------------------- MODULE OrderedHashTable ---------------------------
(***************************************************************************)
(* ds/OrderedHashTable.h, the table behind Map and Set, with the iterators *)
(* and the write barrier of builtin/MapObject.cpp, Map.js and Set.js.      *)
(*                                                                         *)
(* Entries stay in the vector `data' in the order of insertion; removal    *)
(* leaves an empty entry behind.  Growing, shrinking and compaction move   *)
(* the entries while iterators are under way: every operation tells all    *)
(* Ranges, which are on one list in malloc memory and one in the nursery.  *)
(* A minor collection moves the second list to the first.  It also moves   *)
(* the keys that are in the nursery, whose hash codes come from their      *)
(* addresses: those the write barrier has recorded get a new chain.        *)
(*                                                                         *)
(* The pointers of a hash chain are a sequence of indices.                 *)
(***************************************************************************)
EXTENDS Integers, SequencesExt

CONSTANTS
  Keys,         \* the keys of the map
  ObjectKeys,   \* those that are objects or BigInts, which collections move
  Iterators,    \* its iterators
  NoKey,        \* the key of an empty entry; what a call without a key returns
  OutOfMemory,  \* what a call that throws returns
  HashRange,    \* the number of hash codes, 2^kHashNumberBits
  Hashes,       \* those that occur
  FillNum,      \* fillFactor() is FillNum / FillDen
  FillDen

ASSUME TableAssumption ==
  /\ ObjectKeys \subseteq Keys
  /\ NoKey \notin Keys /\ OutOfMemory \notin Keys
  /\ HashRange \in Nat \ {0} /\ Hashes \subseteq 0..(HashRange - 1)
  /\ FillDen \in Nat \ {0} /\ FillNum \in Nat /\ FillNum >= FillDen

VARIABLES
  data,         \* data[0:dataLength]: the keys of the entries
  hashTable,    \* per bucket, the indices of its chain
  hashBuckets,  \* hashBuckets(), the power of 2 that hashShift stands for
  liveCount,    \* nonempty entries
  ranges,       \* per iterator: its list, index and count
  hash,         \* prepareHash() of each key
  young,        \* the keys in the nursery
  mapYoung,     \* the MapObject is in the nursery
  nurseryKeys,  \* NurseryKeysSlot: the keys the write barrier has recorded
  hasNurseryMemory, \* HasNurseryMemorySlot
  registered,   \* the map is in Nursery::mapsWithNurseryMemory_
  returned      \* what the last call returned

tableVars == <<data, hashTable, hashBuckets, liveCount>>
gcVars == <<hash, young, mapYoung, nurseryKeys>>
memoryVars == <<hasNurseryMemory, registered>>
vars == <<tableVars, ranges, gcVars, memoryVars, returned>>

-----------------------------------------------------------------------------
Capacity(n) == (n * FillNum) \div FillDen
initialBuckets == 2

(* h >> hashShift: the high bits of the hash code. *)
Bucket(h, n) == (h * n) \div HashRange
EmptyTable(n) == [b \in 0..(n - 1) |-> <<>>]

(* A finite set of indices in ascending order. *)
Before(S, i) == Cardinality({j \in S : j < i})
InOrder(S) ==
  [p \in 1..Cardinality(S) |-> CHOOSE i \in S : Before(S, i) = p - 1]

IsLive(k) == k # NoKey
LiveEntries(d) == {i \in DOMAIN d : IsLive(d[i])}
Live(d) == LET at == InOrder(LiveEntries(d)) IN [p \in DOMAIN at |-> d[at[p]]]

(* lookup(), which is all of get() and has(): the entry of the chain whose *)
(* key is k; 0 is nullptr.                                                 *)
lookup(k) ==
  LET chain == hashTable[Bucket(hash[k], hashBuckets)]
      found == {i \in ToSet(chain) : data[i] = k}
  IN  IF found = {} THEN 0 ELSE CHOOSE i \in found : TRUE

(* rehash(): every entry, from the first on, goes to the head of its chain. *)
ChainsOf(d, n) ==
  [b \in 0..(n - 1) |->
     Reverse(InOrder({i \in DOMAIN d : Bucket(hash[d[i]], n) = b}))]

(***************************************************************************)
(* Ranges.  A Range with index i is at data[i], counted from 1 here.  An   *)
(* iterator may have none (unused or done), or one on the list of a heap   *)
(* area that has been freed.                                               *)
(***************************************************************************)
Lists == {"malloc", "nursery"}
NoRange == [list |-> "none", i |-> 1, count |-> 0]
DoneRange == [list |-> "done", i |-> 1, count |-> 0]
Dangling == [list |-> "dangling", i |-> 1, count |-> 0]
OnList(r) == ranges[r].list \in Lists

(* seek(): the first nonempty entry from i on, or the end. *)
Seek(d, i) ==
  Min({j \in i..Len(d) : IsLive(d[j])} \cup {Max({i, Len(d) + 1})})

(* Defect: the count of a Range that has passed the entry stays. *)
OnRemoveKeepsCount(range, d, j) ==
  IF j = range.i THEN [range EXCEPT !.i = Seek(d, @)] ELSE range

(* onRemove(j), after the entry was emptied. *)
OnRemove(range, d, j) ==
  [range EXCEPT !.count = IF j < range.i THEN @ - 1 ELSE @,
                !.i = IF j = range.i THEN Seek(d, @) ELSE @]

OnCompact(range) == [range EXCEPT !.i = range.count + 1]
OnClear(range) == [range EXCEPT !.i = 1, !.count = 0]

(* forEachRange(): the Ranges of both lists get their new value. *)
ForEachRange(rs, new) ==
  [r \in Iterators |-> IF rs[r].list \in Lists THEN new[r] ELSE rs[r]]

-----------------------------------------------------------------------------
Init ==
  /\ data = <<>>
  /\ hashBuckets = initialBuckets
  /\ hashTable = EmptyTable(initialBuckets)
  /\ liveCount = 0
  /\ ranges = [r \in Iterators |-> NoRange]
  /\ hash \in [Keys -> Hashes]
  /\ young \in SUBSET ObjectKeys
  /\ mapYoung \in BOOLEAN
  /\ nurseryKeys = {}
  /\ hasNurseryMemory = mapYoung
  /\ registered = mapYoung
  /\ returned = NoKey

(***************************************************************************)
(* MapObject::set(): the write barrier, then put().  A full vector is      *)
(* compacted, in place if more than a quarter of it is empty and into a    *)
(* larger one otherwise; only the latter allocates.                        *)
(***************************************************************************)
(* Defect: a young key is recorded for a young map, not for an old one. *)
WriteBarrierPostInverted(k) ==
  nurseryKeys' = IF mapYoung /\ k \in young THEN nurseryKeys \cup {k} ELSE nurseryKeys

WriteBarrierPost(k) ==
  nurseryKeys' = IF ~mapYoung /\ k \in young THEN nurseryKeys \cup {k} ELSE nurseryKeys

NeedsRehash == Len(data) = Capacity(hashBuckets)
PutBuckets == IF 4 * liveCount >= 3 * Capacity(hashBuckets)
              THEN 2 * hashBuckets ELSE hashBuckets

(* The end of put(): the entry is appended and goes to the head of its chain. *)
PutEntry(k, d, chains, n) ==
  /\ data' = Append(d, k)
  /\ hashTable' = [chains EXCEPT ![Bucket(hash[k], n)] = <<Len(d) + 1>> \o @]
  /\ hashBuckets' = n
  /\ liveCount' = liveCount + 1
  /\ returned' = NoKey

Put(k) ==
  /\ WriteBarrierPost(k)
  /\ UNCHANGED <<hash, young, mapYoung, memoryVars>>
  /\ \/ /\ lookup(k) # 0
        /\ returned' = NoKey
        /\ UNCHANGED <<tableVars, ranges>>
     \/ /\ lookup(k) = 0 /\ ~NeedsRehash
        /\ PutEntry(k, data, hashTable, hashBuckets)
        /\ UNCHANGED ranges
     \/ /\ lookup(k) = 0 /\ NeedsRehash
        /\ PutEntry(k, Live(data), ChainsOf(Live(data), PutBuckets), PutBuckets)
        /\ ranges' = ForEachRange(ranges, [r \in Iterators |-> OnCompact(ranges[r])])
     \/ /\ lookup(k) = 0 /\ NeedsRehash /\ PutBuckets # hashBuckets
        /\ returned' = OutOfMemory
        /\ UNCHANGED <<tableVars, ranges>>

(***************************************************************************)
(* MapObject::delete().  The entry stays in its chain.  A table with too   *)
(* few entries left shrinks; if it cannot, delete() throws.                *)
(***************************************************************************)
NeedsShrink(live) ==
  /\ hashBuckets > initialBuckets
  /\ 4 * live < Len(data)

Delete(k) ==
  LET j == lookup(k)
      emptied == [data EXCEPT ![j] = NoKey]
      told == ForEachRange(ranges, [r \in Iterators |-> OnRemove(ranges[r], emptied, j)])
      half == hashBuckets \div 2
  IN  /\ UNCHANGED <<gcVars, memoryVars>>
      /\ \/ /\ j = 0
            /\ returned' = NoKey
            /\ UNCHANGED <<tableVars, ranges>>
         \/ /\ j # 0 /\ NeedsShrink(liveCount - 1)
            /\ data' = Live(emptied)
            /\ hashBuckets' = half
            /\ hashTable' = ChainsOf(Live(emptied), half)
            /\ liveCount' = liveCount - 1
            /\ ranges' = ForEachRange(told, [r \in Iterators |-> OnCompact(told[r])])
            /\ returned' = k
         \/ /\ j # 0
            /\ data' = emptied
            /\ liveCount' = liveCount - 1
            /\ ranges' = told
            /\ returned' = IF NeedsShrink(liveCount - 1) THEN OutOfMemory ELSE k
            /\ UNCHANGED <<hashTable, hashBuckets>>

(* clear(): a new table, or nothing if memory cannot be had. *)
Clear ==
  /\ UNCHANGED <<gcVars, memoryVars>>
  /\ \/ /\ data # <<>>
        /\ data' = <<>>
        /\ hashBuckets' = initialBuckets
        /\ hashTable' = EmptyTable(initialBuckets)
        /\ liveCount' = 0
        /\ ranges' = ForEachRange(ranges, [r \in Iterators |-> OnClear(ranges[r])])
        /\ returned' = NoKey
     \/ /\ data # <<>>
        /\ returned' = OutOfMemory
        /\ UNCHANGED <<tableVars, ranges>>
     \/ /\ data = <<>>
        /\ returned' = NoKey
        /\ UNCHANGED <<tableVars, ranges>>

-----------------------------------------------------------------------------
(* MapIteratorObject::create(): the Range goes where the object is; the    *)
(* first one in the nursery puts the map on the nursery's list.            *)
Iterate(r, list) ==
  /\ ranges[r] = NoRange
  /\ ranges' = [ranges EXCEPT ![r] = [list |-> list, i |-> Seek(data, 1), count |-> 0]]
  /\ registered' = (registered \/ (list = "nursery" /\ ~hasNurseryMemory))
  /\ hasNurseryMemory' = (hasNurseryMemory \/ list = "nursery")
  /\ UNCHANGED <<tableVars, gcVars, returned>>

PopFront(range) ==
  [range EXCEPT !.count = @ + 1, !.i = Seek(data, @ + 1)]

(* MapIteratorObject::next() under MapIteratorNext, MapForEach and their   *)
(* counterparts for Set.  A Range at the end is destroyed.                 *)
IteratorNext(r) ==
  /\ \/ /\ ranges[r] = DoneRange
        /\ returned' = NoKey
        /\ UNCHANGED ranges
     \/ /\ OnList(r) /\ ranges[r].i > Len(data)
        /\ ranges' = [ranges EXCEPT ![r] = DoneRange]
        /\ returned' = NoKey
     \/ /\ OnList(r) /\ ranges[r].i <= Len(data)
        /\ returned' = data[ranges[r].i]
        /\ ranges' = [ranges EXCEPT ![r] = PopFront(@)]
  /\ UNCHANGED <<tableVars, gcVars, memoryVars>>

(* MapIteratorObject::finalize(): outside the nursery, or done. *)
Finalize(r) ==
  /\ ranges[r].list \in {"malloc", "done"}
  /\ ranges' = [ranges EXCEPT ![r] = NoRange]
  /\ UNCHANGED <<tableVars, gcVars, memoryVars, returned>>

(* The program makes a new object to use as a key. *)
NewKey(k, h) ==
  /\ lookup(k) = 0
  /\ k \notin young
  /\ young' = young \cup {k}
  /\ hash' = [hash EXCEPT ![k] = h]
  /\ UNCHANGED <<tableVars, ranges, mapYoung, nurseryKeys, memoryVars, returned>>

-----------------------------------------------------------------------------
(***************************************************************************)
(* Collections.  rekeyOneEntry() and rekeyFront() take an entry out of its *)
(* chain and put it into another in descending order.                      *)
(***************************************************************************)
Rekey(moved, newHash) ==
  [b \in DOMAIN hashTable |->
     LET arrives == {i \in moved : Bucket(newHash[data[i]], hashBuckets) = b}
     IN  Reverse(InOrder((ToSet(hashTable[b]) \ moved) \cup arrives))]

(* The entries whose keys are in K, found before the keys move. *)
EntriesOf(K) == {lookup(k) : k \in K} \ {0}

(* Defect: the flag stays. *)
NurseryMemoryKept == hasNurseryMemory

(* sweepAfterMinorGC() resets the flag. *)
NurseryMemoryAfterSweep == FALSE

(* objectMoved(): the Range of a surviving iterator moves to the other     *)
(* list; destroyNurseryRanges() drops those of the dead, if the map is on  *)
(* the nursery's list.                                                     *)
RangesAfterMinorGC(dead) ==
  [r \in Iterators |->
     CASE r \in dead -> IF registered \/ ranges[r] = DoneRange THEN NoRange ELSE Dangling
       [] r \notin dead /\ ranges[r].list = "nursery" -> [ranges[r] EXCEPT !.list = "malloc"]
       [] OTHER -> ranges[r]]

(* The hash codes once the keys in the domain of h have moved. *)
Rehashed(h) == [k \in Keys |-> IF k \in DOMAIN h THEN h[k] ELSE hash[k]]

(* A minor collection empties the nursery.  A map that was in it is traced *)
(* whole, another only where OrderedHashTableRef says.                     *)
MinorGC(dead, h) ==
  /\ \A r \in dead : ranges[r].list = "nursery"
  /\ ranges' = RangesAfterMinorGC(dead)
  /\ hash' = Rehashed(h)
  /\ hashTable' = Rekey(EntriesOf(IF mapYoung THEN young ELSE nurseryKeys), hash')
  /\ young' = {}
  /\ mapYoung' = FALSE
  /\ nurseryKeys' = {}
  /\ hasNurseryMemory' = IF registered THEN NurseryMemoryAfterSweep ELSE hasNurseryMemory
  /\ registered' = FALSE
  /\ UNCHANGED <<data, hashBuckets, liveCount, returned>>

(* A compacting collection, after the nursery was emptied, moves any keys; *)
(* MapObject::trace() rekeys the entries.                                  *)
CompactingGC(h) ==
  /\ young = {} /\ ~mapYoung
  /\ \A r \in Iterators : ranges[r].list # "nursery"
  /\ hash' = Rehashed(h)
  /\ hashTable' = Rekey(EntriesOf({k \in Keys : hash'[k] # hash[k]}), hash')
  /\ UNCHANGED <<data, hashBuckets, liveCount, ranges, young, mapYoung, nurseryKeys,
                 memoryVars, returned>>

Next ==
  \/ \E k \in Keys : Put(k) \/ Delete(k)
  \/ Clear
  \/ \E r \in Iterators : IteratorNext(r) \/ Finalize(r)
  \/ \E r \in Iterators, l \in Lists : Iterate(r, l)
  \/ \E k \in ObjectKeys, h \in Hashes : NewKey(k, h)
  \/ \E dead \in SUBSET Iterators, h \in [young -> Hashes] : MinorGC(dead, h)
  \/ \E h \in [ObjectKeys -> Hashes] : CompactingGC(h)

Spec == Init /\ [][Next]_vars

-----------------------------------------------------------------------------
(***************************************************************************)
(* Properties.                                                             *)
(***************************************************************************)
(* The two structures of the table agree: no key is stored twice, every    *)
(* nonempty entry is found through the chain of its key's hash code, each  *)
(* entry is on one chain, chains go in reverse insertion order (the        *)
(* comment in rekeyFront()), the count is exact and the vector never       *)
(* overflows its capacity, through all growing, shrinking, compaction and  *)
(* moving of keys.                                                         *)
ChainsFindEntries ==
  /\ liveCount = Cardinality(LiveEntries(data))
  /\ Len(data) <= Capacity(hashBuckets)
  /\ \A i \in DOMAIN data :
       /\ \E b \in DOMAIN hashTable :
            \A c \in DOMAIN hashTable : Contains(hashTable[c], i) <=> c = b
       /\ IsLive(data[i]) => lookup(data[i]) = i
  /\ \A b \in DOMAIN hashTable : \A p \in DOMAIN hashTable[b] :
       /\ hashTable[b][p] \in DOMAIN data
       /\ p > 1 => hashTable[b][p] < hashTable[b][p - 1]

(* A live Range stands at a nonempty entry or at the end, and its count is *)
(* the number of nonempty entries before it, which is all onCompact() has  *)
(* to find its place again.  No list leads to a Range in freed memory.     *)
RangesExact ==
  \A r \in Iterators :
    /\ ranges[r] # Dangling
    /\ OnList(r) =>
         /\ ranges[r].i \in 1..(Len(data) + 1)
         /\ ranges[r].i \in DOMAIN data => IsLive(data[ranges[r].i])
         /\ ranges[r].count = Before(LiveEntries(data), ranges[r].i)

(* Refinement mapping: the nonempty entries, and for each iterator the     *)
(* count of its Range.                                                     *)
IterOf(range) ==
  [state |-> CASE range.list \in Lists -> "live"
               [] range.list = "done" -> "done"
               [] OTHER -> "unused",
   passed |-> IF range.list \in Lists THEN range.count ELSE 0]

Abstract ==
  INSTANCE OrderedCollection WITH
    entries <- Live(data),
    iters <- [r \in Iterators |-> IterOf(ranges[r])]

(* The table implements the collection: whatever is removed, added,        *)
(* cleared, resized or collected between two calls of next(), each         *)
(* iterator returns every entry that is there when it comes to it, in the  *)
(* order of insertion and none twice, and ends once.                       *)
ImplementsCollection == Abstract!ASpec

=============================================================================
