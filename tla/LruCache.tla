------------------------------ MODULE LruCache ------------------------------
(***************************************************************************)
(* One shard of the cache: handles with reference counts, a hash table of  *)
(* buckets that grows, a list of the entries nobody uses, oldest first,    *)
(* and a list of those in use.  Every call holds the mutex to its end, so  *)
(* it is one action.  An entry is known by the order of its insertion.     *)
(***************************************************************************)
EXTENDS Integers, SequencesExt, FiniteSetsExt

CONSTANTS
    Keys,                       \* keys, numbers that are their own hash
    Charges,                    \* the charges an insertion may have
    Capacity,
    MinLength,                  \* buckets of an empty table: 4 in HandleTable::Resize
    MaxEntries,                 \* bound: insertions
    MaxHandles                  \* bound: handles that clients have of one entry

VARIABLES
    cache,                      \* the state of the LRUCache
    handles,                    \* handles[e]: how many handles clients have of entry e
    deleted                     \* deleted[e]: calls of e's deleter

vars == <<cache, handles, deleted>>

Ids == 1..MaxEntries
NoEntry == [key |-> 0, charge |-> 0, refs |-> 0, inCache |-> FALSE]

Buckets(length) == [i \in 0..(length - 1) |-> <<>>]

Init ==
    /\ cache = [entry |-> [e \in Ids |-> NoEntry], used |-> 0, usage |-> 0, lru |-> <<>>, inUse |-> <<>>,
                length |-> MinLength, elems |-> 0, list |-> Buckets(MinLength)]
    /\ handles = [e \in Ids |-> 0]
    /\ deleted = [e \in Ids |-> 0]

-----------------------------------------------------------------------------
(* HandleTable.                                                            *)
Bucket(c, key) == key % c.length

\* The place of a key in its bucket, 0 if it is not there.
FindPointer(c, key) == SelectInSeq(c.list[Bucket(c, key)], LAMBDA e : c.entry[e].key = key)

TableLookup(c, key) ==
    LET i == FindPointer(c, key) IN IF i = 0 THEN {} ELSE {c.list[Bucket(c, key)][i]}

\* Mutant: entries stay in the bucket they were in.
KeepBucket(key, length) == key % MinLength

NewBucket(key, length) == key % length

\* The smallest power of two times the minimum that is not below elems_; every
\* entry is put in front of its new bucket.
Resize(c) ==
    LET length == MinLength * 2^(Min({n \in 0..MaxEntries : MinLength * 2^n >= c.elems}))
        all == FlattenSeq([i \in 1..c.length |-> c.list[i - 1]])
        rehash(list, e) == [list EXCEPT ![NewBucket(c.entry[e].key, length)] = <<e>> \o @]
    IN  [c EXCEPT !.length = length, !.list = FoldLeft(rehash, Buckets(length), all)]

\* A new entry takes the place of an old one of its key, or goes to the end.
TableInsert(c, e) ==
    LET key == c.entry[e].key
        b == Bucket(c, key)
        i == FindPointer(c, key)
        d == [c EXCEPT !.list[b] = IF i = 0 THEN Append(@, e) ELSE [@ EXCEPT ![i] = e],
                       !.elems = IF i = 0 THEN @ + 1 ELSE @]
    IN  IF d.elems > d.length THEN Resize(d) ELSE d

TableRemove(c, key) ==
    LET i == FindPointer(c, key)
    IN  IF i = 0 THEN c ELSE [c EXCEPT !.list[Bucket(c, key)] = RemoveAt(@, i), !.elems = @ - 1]

-----------------------------------------------------------------------------
(* LRUCache.                                                               *)
Counted(refs) == refs + 1

\* From the list of the unused to that of the used, if it is the first reference.
Ref(c, e) ==
    LET first == c.entry[e].refs = 1 /\ c.entry[e].inCache
    IN  [c EXCEPT !.entry[e].refs = Counted(@),
                  !.lru = IF first THEN Remove(@, e) ELSE @,
                  !.inUse = IF first THEN Append(@, e) ELSE @]

BecomesUnused(c, e) == c.entry[e].inCache /\ c.entry[e].refs = 2

Unref(c, e) ==
    [c EXCEPT !.entry[e].refs = @ - 1,
              !.inUse = IF BecomesUnused(c, e) THEN Remove(@, e) ELSE @,
              !.lru = IF BecomesUnused(c, e) THEN Append(@, e) ELSE @]

Discharged(usage, charge) == usage - charge

\* An entry that is in the hash table no more leaves its list and loses the
\* reference of the cache.
FinishErase(c, e) ==
    LET d == [c EXCEPT !.lru = Remove(@, e), !.inUse = Remove(@, e), !.entry[e].inCache = FALSE,
                       !.usage = Discharged(@, c.entry[e].charge)]
    IN  Unref(d, e)

EraseKey(c, key) ==
    LET old == TableLookup(c, key)
        d == TableRemove(c, key)
    IN  IF old = {} THEN d ELSE FinishErase(d, CHOOSE e \in old : TRUE)

Oldest(lru) == lru[1]

\* While needed and possible, the oldest of the unused entries goes.
Evict(c, needed(_)) ==
    FoldLeft(LAMBDA d, i : IF needed(d) /\ d.lru # <<>> THEN EraseKey(d, d.entry[Oldest(d.lru)].key) ELSE d,
             c, [i \in Ids |-> i])

OverCapacity(c) == c.usage > Capacity

InsertInto(c, e, key, charge) ==
    LET new == [key |-> key, charge |-> charge, refs |-> 1, inCache |-> FALSE]
        old == TableLookup(c, key)
        a == [c EXCEPT !.used = e, !.entry[e] = [new EXCEPT !.refs = 2, !.inCache = TRUE],
                       !.inUse = Append(@, e), !.usage = @ + charge]
        b == TableInsert(a, e)
        d == IF old = {} THEN b ELSE FinishErase(b, CHOOSE o \in old : TRUE)
    IN  Evict(IF Capacity > 0 THEN d ELSE [c EXCEPT !.used = e, !.entry[e] = new], OverCapacity)

\* The deleters called on the way from one state of the cache to another.
Freed(c, d) == {e \in Ids : d.entry[e].refs = 0 /\ (c.entry[e].refs > 0 \/ (e > c.used /\ e <= d.used))}

Becomes(c) ==
    /\ cache' = c
    /\ deleted' = [e \in Ids |-> IF e \in Freed(cache, c) THEN deleted[e] + 1 ELSE deleted[e]]

Insert(key, charge) ==
    /\ cache.used < MaxEntries
    /\ Becomes(InsertInto(cache, cache.used + 1, key, charge))
    /\ handles' = [handles EXCEPT ![cache.used + 1] = 1]

Lookup(key) ==
    \E e \in TableLookup(cache, key) :
        /\ handles[e] < MaxHandles
        /\ Becomes(Ref(cache, e))
        /\ handles' = [handles EXCEPT ![e] = @ + 1]

Release(e) ==
    /\ handles[e] > 0
    /\ Becomes(Unref(cache, e))
    /\ handles' = [handles EXCEPT ![e] = @ - 1]

Erase(key) == Becomes(EraseKey(cache, key)) /\ UNCHANGED handles

Prune == Becomes(Evict(cache, LAMBDA c : TRUE)) /\ UNCHANGED handles

Next ==
    \/ \E key \in Keys : Lookup(key) \/ Erase(key) \/ \E charge \in Charges : Insert(key, charge)
    \/ \E e \in Ids : Release(e)
    \/ Prune

Spec == Init /\ [][Next]_vars

-----------------------------------------------------------------------------
Live == {e \in Ids : cache.entry[e].inCache}
Charge(S) == MapThenSumSet(LAMBDA e : cache.entry[e].charge, S)

\* An entry of an insertion of the key that no later insertion of it followed.
LastOf(key) == {e \in 1..cache.used : cache.entry[e].key = key /\ \A f \in (e + 1)..cache.used : cache.entry[f].key # key}

(* The counts agree: references are the handles of clients and the one of  *)
(* the cache; the entries in the cache are those in the lists, by whether  *)
(* anyone uses them, and those in the table; usage_ is their charge        *)
(* (cache.cc:17-39).                                                       *)
CountsAgree ==
    /\ \A e \in Ids : cache.entry[e].refs = handles[e] + (IF e \in Live THEN 1 ELSE 0)
    /\ ToSet(cache.lru) = {e \in Live : handles[e] = 0}
    /\ ToSet(cache.inUse) = {e \in Live : handles[e] > 0}
    /\ Len(cache.lru) + Len(cache.inUse) = Cardinality(Live)
    /\ cache.elems = Cardinality(Live)
    /\ cache.usage = Charge(Live)

(* What clients use is not deleted, and everything else that is not in the *)
(* cache has been deleted once (cache.cc:241-251).                         *)
DeletedOnceUnused ==
    \A e \in 1..cache.used : deleted[e] = IF handles[e] = 0 /\ e \notin Live THEN 1 ELSE 0

(* A lookup finds what was inserted last under its key or nothing, also    *)
(* after the table has grown (cache.cc:77-107).                            *)
LookupFindsTheLast ==
    \A key \in Keys : TableLookup(cache, key) \subseteq LastOf(key)
                      /\ \A e \in Live : cache.entry[e].key = key => TableLookup(cache, key) = {e}

(* Over its capacity the cache holds only what clients use.                *)
KeepsCapacity ==
    \A key \in Keys, charge \in Charges :
        Insert(key, charge) => cache'.usage <= Capacity \/ cache'.lru = <<>>

WithinCapacity == [][KeepsCapacity]_vars

(* An insertion gives up only entries nobody uses, the longest unused      *)
(* before the others (cache.cc:309-315).                                   *)
EvictsOldest ==
    cache'.used > cache.used =>
        \E n \in 0..Len(cache.lru) :
            cache'.lru = SelectSeq(SubSeq(cache.lru, n + 1, Len(cache.lru)),
                                              LAMBDA e : cache.entry[e].key # cache'.entry[cache'.used].key)

EvictsTheOldest == [][EvictsOldest]_vars
=============================================================================
