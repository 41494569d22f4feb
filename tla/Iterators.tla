----------------------------- MODULE Iterators ------------------------------
(***************************************************************************)
(* The iterators of the store, each made of others:                        *)
(*   - a "list" has its entries in order: a memtable or a block (see       *)
(*     SkipList and Block);                                                *)
(*   - a "two" is a TwoLevelIterator over an index and what the index      *)
(*     leads to: a table over its blocks, a level over its tables;         *)
(*   - a "merge" is a MergingIterator over its children;                   *)
(*   - a "bad" one is the iterator that stands for an unreadable block.    *)
(* On top of them DBIter shows the newest value of every key that a        *)
(* snapshot may see.  An entry is [key, type, value]; the key is an        *)
(* internal one, <<user key, sequence>>, and a DBIter shows <<user key>>.  *)
(***************************************************************************)
EXTENDS Integers, Sequences, SequencesExt, FiniteSets

CONSTANTS
    Sources,                    \* trees of [kind, entries, keys, children]
    Snapshots,                  \* sequence numbers
    UserTargets, InternalTargets

VARIABLES
    source,
    sequence,                   \* 0 for the internal iterator, else a DBIter of this sequence
    it,
    db,
    op,
    entries,                    \* what is there to be shown, in order
    scanned                     \* all calls since SeekToFirst were Next

vars == <<source, sequence, it, db, op, entries, scanned>>

\* By user key, and of one user key the newest first.
Before(a, b) == a[1] < b[1] \/ (a[1] = b[1] /\ Len(a) = 2 /\ Len(b) = 2 /\ a[2] > b[2])

FirstOf(S) == CHOOSE n \in S : \A m \in S : n <= m
LastOf(S) == CHOOSE n \in S : \A m \in S : n >= m

-----------------------------------------------------------------------------
\* Iterators of iterators.  A list stands at pos, 0 for nowhere; a two-level
\* one has its place in the index and the iterator it opened, 0 for NULL.
RECURSIVE NewIterator(_), Valid(_, _), StatusOk(_, _), EntryOf(_, _), Moved(_, _, _, _)

NewIterator(s) ==
    CASE s.kind \in {"list", "bad"} -> [pos |-> 0]
      [] s.kind = "two" -> [index |-> 0, opened |-> 0, data |-> <<>>, ok |-> TRUE]
      [] s.kind = "merge" ->
            [children |-> [i \in DOMAIN s.children |-> NewIterator(s.children[i])], current |-> 0, reverse |-> FALSE]

Valid(s, i) ==
    CASE s.kind \in {"list", "bad"} -> i.pos # 0
      [] s.kind = "two" -> i.opened # 0 /\ Valid(s.children[i.opened], i.data)
      [] s.kind = "merge" -> i.current # 0

StatusOk(s, i) ==
    CASE s.kind = "list" -> TRUE
      [] s.kind = "bad" -> FALSE
      [] s.kind = "two" -> i.ok /\ (i.opened # 0 => StatusOk(s.children[i.opened], i.data))
      [] s.kind = "merge" -> \A c \in DOMAIN s.children : StatusOk(s.children[c], i.children[c])

EntryOf(s, i) ==
    CASE s.kind = "list" -> s.entries[i.pos]
      [] s.kind = "two" -> EntryOf(s.children[i.opened], i.data)
      [] s.kind = "merge" -> EntryOf(s.children[i.current], i.children[i.current])

Key(s, i) == EntryOf(s, i).key

\* Where a call leads in a sequence of keys: an array, the index of a table
\* or the files of a level.
Place(keys, pos, call, target) ==
    LET after == {n \in DOMAIN keys : ~Before(keys[n], target)}
    IN  CASE call = "SeekToFirst" -> IF keys = <<>> THEN 0 ELSE 1
          [] call = "SeekToLast" -> Len(keys)
          [] call = "Next" -> IF pos = Len(keys) THEN 0 ELSE pos + 1
          [] call = "Prev" -> pos - 1
          [] call = "Seek" -> IF after = {} THEN 0 ELSE FirstOf(after)

KeysOf(list) == [n \in DOMAIN list |-> list[n].key]

-----------------------------------------------------------------------------
(* two_level_iterator.cc                                                   *)

\* The status of the iterator that is given up is kept.
SetDataIterator(s, i, n) ==
    [i EXCEPT !.ok = StatusOk(s, i), !.opened = n, !.data = IF n = 0 THEN <<>> ELSE NewIterator(s.children[n])]

InitDataBlock(s, i) == IF i.index # 0 /\ i.opened = i.index THEN i ELSE SetDataIterator(s, i, i.index)

OnData(s, i, call, target) ==
    IF i.opened = 0 THEN i ELSE [i EXCEPT !.data = Moved(s.children[i.opened], @, call, target)]

\* Passes blocks without entries and unreadable ones, by step and then by start.
RECURSIVE SkipEmptyDataBlocks(_, _, _, _)
SkipEmptyDataBlocks(s, i, step, start) ==
    LET n == [i EXCEPT !.index = Place(s.keys, @, step, <<0>>)]
    IN  IF Valid(s, i) THEN i
        ELSE IF i.index = 0 THEN SetDataIterator(s, i, 0)
        ELSE SkipEmptyDataBlocks(s, OnData(s, InitDataBlock(s, n), start, <<0>>), step, start)

SkipEmptyDataBlocksForward(s, i) == SkipEmptyDataBlocks(s, i, "Next", "SeekToFirst")
SkipEmptyDataBlocksBackward(s, i) == SkipEmptyDataBlocks(s, i, "Prev", "SeekToLast")

TwoLevelMoved(s, i, call, target) ==
    LET placed == InitDataBlock(s, [i EXCEPT !.index = Place(s.keys, @, call, target)])
        n == IF call \in {"Next", "Prev"} THEN OnData(s, i, call, target) ELSE OnData(s, placed, call, target)
    IN  IF call \in {"Prev", "SeekToLast"} THEN SkipEmptyDataBlocksBackward(s, n)
        ELSE SkipEmptyDataBlocksForward(s, n)

-----------------------------------------------------------------------------
(* merger.cc                                                               *)

ChildrenMoved(s, i, call, target) ==
    [i EXCEPT !.children = [c \in DOMAIN @ |-> Moved(s.children[c], @[c], call, target)]]

\* The first child with the smallest key, or the last one with the largest.
FindSmallest(s, i) ==
    LET valid == {c \in DOMAIN s.children : Valid(s.children[c], i.children[c])}
        smallest == {c \in valid : \A d \in valid :
                        ~Before(Key(s.children[d], i.children[d]), Key(s.children[c], i.children[c]))}
    IN  [i EXCEPT !.current = IF valid = {} THEN 0 ELSE FirstOf(smallest), !.reverse = FALSE]
FindLargest(s, i) ==
    LET valid == {c \in DOMAIN s.children : Valid(s.children[c], i.children[c])}
        largest == {c \in valid : \A d \in valid :
                        ~Before(Key(s.children[c], i.children[c]), Key(s.children[d], i.children[d]))}
    IN  [i EXCEPT !.current = IF valid = {} THEN 0 ELSE LastOf(largest), !.reverse = TRUE]

\* A child other than the current one, when the direction turns: behind key or before it.
TurnedForward(s, i, key) ==
    LET n == Moved(s, i, "Seek", key)
    IN  IF Valid(s, n) /\ Key(s, n) = key THEN Moved(s, n, "Next", key) ELSE n
TurnedBackward(s, i, key) ==
    LET n == Moved(s, i, "Seek", key)
    IN  IF Valid(s, n) THEN Moved(s, n, "Prev", key) ELSE Moved(s, n, "SeekToLast", key)

\* Mutant: the other children stay where they are when the direction turns.
NotTurned(s, i, forward) == i

Turned(s, i, forward) ==
    [i EXCEPT !.children = [c \in DOMAIN @ |->
        IF c = i.current \/ i.reverse # forward THEN @[c]
        ELSE IF forward THEN TurnedForward(s.children[c], @[c], Key(s, i))
        ELSE TurnedBackward(s.children[c], @[c], Key(s, i))]]

CurrentMoved(s, i, call) ==
    [i EXCEPT !.children[i.current] = Moved(s.children[i.current], @, call, <<0>>)]

MergeMoved(s, i, call, target) ==
    CASE call \in {"SeekToFirst", "Seek"} -> FindSmallest(s, ChildrenMoved(s, i, call, target))
      [] call = "SeekToLast" -> FindLargest(s, ChildrenMoved(s, i, call, target))
      [] call = "Next" -> FindSmallest(s, CurrentMoved(s, Turned(s, i, TRUE), call))
      [] call = "Prev" -> FindLargest(s, CurrentMoved(s, Turned(s, i, FALSE), call))

Moved(s, i, call, target) ==
    CASE s.kind = "bad" -> i
      [] s.kind = "list" -> [i EXCEPT !.pos = Place(KeysOf(s.entries), @, call, target)]
      [] s.kind = "two" -> TwoLevelMoved(s, i, call, target)
      [] s.kind = "merge" -> MergeMoved(s, i, call, target)

-----------------------------------------------------------------------------
(* db_iter.cc.  d.it is the internal iterator.  The sample that a read may *)
(* take for the next compaction is left out.                               *)

NewDBIter == [it |-> NewIterator(source), reverse |-> FALSE, valid |-> FALSE, ok |-> TRUE, saved |-> <<>>, value |-> <<>>]

InternalValid(d) == Valid(source, d.it)
Internal(d, call, target) == [d EXCEPT !.it = Moved(source, @, call, target)]
At(d) == EntryOf(source, d.it)

\* A key that does not parse is passed, and leaves a bad status.
ParseKey(d) == [d EXCEPT !.ok = @ /\ At(d).type # "corrupt"]
Seen(d) == At(d).type # "corrupt" /\ At(d).key[2] <= sequence
UserKey(d) == <<At(d).key[1]>>

\* Hides the rest of a key that is deleted, and all up to skip.
RECURSIVE FindNextUserEntry(_, _, _)
FindNextUserEntry(d, skipping, skip) ==
    LET p == ParseKey(d)
        deleted == Seen(d) /\ At(d).type = "deletion"
        hidden == skipping /\ ~Before(skip, UserKey(d))
        n == Internal(p, "Next", <<0>>)
    IN  IF Seen(d) /\ At(d).type = "value" /\ ~hidden THEN [p EXCEPT !.valid = TRUE, !.saved = <<>>]
        ELSE IF ~InternalValid(n) THEN [n EXCEPT !.valid = FALSE, !.saved = <<>>]
        ELSE FindNextUserEntry(n, skipping \/ deleted, IF deleted THEN UserKey(d) ELSE skip)

\* Goes back to before the entries of the last key that has a value.
RECURSIVE FindPrevFrom(_, _)
FindPrevFrom(d, type) ==
    LET p == ParseKey(d)
        passed == type # "deletion" /\ Before(UserKey(d), d.saved)
        n == IF ~Seen(d) THEN p
             ELSE IF At(d).type = "deletion" THEN [p EXCEPT !.saved = <<>>, !.value = <<>>]
             ELSE [p EXCEPT !.saved = UserKey(d), !.value = <<At(d).value>>]
    IN  IF ~InternalValid(d) \/ (Seen(d) /\ passed) THEN [d |-> d, type |-> type]
        ELSE FindPrevFrom(Internal(n, "Prev", <<0>>), IF Seen(d) THEN At(d).type ELSE type)

FindPrevUserEntry(d) ==
    LET found == FindPrevFrom(d, "deletion")
    IN  IF found.type = "deletion"
        THEN [found.d EXCEPT !.valid = FALSE, !.saved = <<>>, !.value = <<>>, !.reverse = FALSE]
        ELSE [found.d EXCEPT !.valid = TRUE]

\* Goes back until the user key changes.
RECURSIVE BackBefore(_, _)
BackBefore(d, key) ==
    LET n == Internal(d, "Prev", <<0>>)
    IN  IF ~InternalValid(n) \/ Before(UserKey(n), key) THEN n ELSE BackBefore(n, key)

Ended(d) == [d EXCEPT !.valid = FALSE, !.saved = <<>>]

DBNext(d) ==
    LET turned == Internal([d EXCEPT !.reverse = FALSE], IF InternalValid(d) THEN "Next" ELSE "SeekToFirst", <<0>>)
    IN  IF ~d.reverse THEN FindNextUserEntry([d EXCEPT !.saved = UserKey(d)], TRUE, UserKey(d))
        ELSE IF ~InternalValid(turned) THEN Ended(turned)
        ELSE FindNextUserEntry(turned, TRUE, d.saved)

DBPrev(d) ==
    LET turned == BackBefore([d EXCEPT !.saved = UserKey(d)], UserKey(d))
    IN  IF d.reverse THEN FindPrevUserEntry(d)
        ELSE IF ~InternalValid(turned) THEN [Ended(turned) EXCEPT !.value = <<>>]
        ELSE FindPrevUserEntry([turned EXCEPT !.reverse = TRUE])

\* Seek and SeekToFirst go on from where the internal iterator arrives.
DBForward(d, call, target) ==
    LET n == Internal([d EXCEPT !.reverse = FALSE, !.value = <<>>], call, target)
    IN  IF InternalValid(n) THEN FindNextUserEntry(n, FALSE, <<0>>) ELSE [n EXCEPT !.valid = FALSE]

DBMoved(d, call, target) ==
    CASE call = "SeekToFirst" -> DBForward(d, call, <<0>>)
      [] call = "Seek" -> DBForward([d EXCEPT !.saved = target], call, <<target[1], sequence>>)
      [] call = "SeekToLast" ->
            FindPrevUserEntry(Internal([d EXCEPT !.reverse = TRUE, !.value = <<>>], call, <<0>>))
      [] call = "Next" -> DBNext(d)
      [] call = "Prev" -> DBPrev(d)

-----------------------------------------------------------------------------
OfUser == sequence # 0

RECURSIVE EntriesOf(_), HasBad(_)
EntriesOf(s) ==
    CASE s.kind = "bad" -> {}
      [] s.kind = "list" -> Range(s.entries)
      [] OTHER -> UNION {EntriesOf(s.children[c]) : c \in DOMAIN s.children}
HasBad(s) ==
    CASE s.kind = "bad" -> TRUE
      [] s.kind = "list" -> OfUser /\ \E n \in DOMAIN s.entries : s.entries[n].type = "corrupt"
      [] OTHER -> \E c \in DOMAIN s.children : HasBad(s.children[c])

\* What is there to be shown: every entry, or the newest value of each key
\* that the snapshot may see, unless it is a deletion.
Shown ==
    LET seen == {e \in EntriesOf(source) : e.key[2] <= sequence /\ e.type # "corrupt"}
        newest == {e \in seen : \A o \in seen : o.key[1] = e.key[1] => o.key[2] <= e.key[2]}
    IN  IF OfUser THEN {[e EXCEPT !.key = <<@[1]>>] : e \in {n \in newest : n.type = "value"}}
        ELSE EntriesOf(source)
ShownInOrder == SetToSortSeq(Shown, LAMBDA d, e : Before(d.key, e.key))

-----------------------------------------------------------------------------
(* A caller moves the internal iterator or a DBIter over it.               *)

Standing == IF OfUser THEN db.valid ELSE Valid(source, it)
Reported == IF OfUser THEN ~(db.ok /\ StatusOk(source, db.it)) ELSE ~StatusOk(source, it)

Init ==
    /\ source \in Sources
    /\ sequence \in Snapshots \cup {0}
    /\ it = NewIterator(source)
    /\ db = NewDBIter
    /\ op = [name |-> "none", target |-> <<>>]
    /\ entries = ShownInOrder
    /\ scanned = FALSE

Call(call, target) ==
    /\ IF OfUser THEN db' = DBMoved(db, call, target) /\ UNCHANGED it
       ELSE it' = Moved(source, it, call, target) /\ UNCHANGED db
    /\ op' = [name |-> call, target |-> target]
    /\ scanned' = (call = "SeekToFirst" \/ (scanned /\ call = "Next"))
    /\ UNCHANGED <<source, sequence, entries>>

SeekToFirst == Call("SeekToFirst", <<>>)
SeekToLast == Call("SeekToLast", <<>>)
Seek == \E target \in IF OfUser THEN UserTargets ELSE InternalTargets : Call("Seek", target)
Forward == Standing /\ Call("Next", <<>>)
Back == Standing /\ Call("Prev", <<>>)

Next == SeekToFirst \/ SeekToLast \/ Seek \/ Forward \/ Back

Spec == Init /\ [][Next]_vars

-----------------------------------------------------------------------------
\* The entry it stands on, as [key, value].
Standpoint ==
    IF OfUser /\ db.reverse THEN <<db.saved, db.value[1]>>
    ELSE IF OfUser THEN <<UserKey(db), At(db).value>>
    ELSE <<Key(source, it), EntryOf(source, it).value>>

\* Its place in what is to be shown; -1 when it shows anything else.
Pos ==
    LET places == {n \in DOMAIN entries : <<entries[n].key, entries[n].value>> = Standpoint}
    IN  IF ~Standing THEN 0 ELSE IF places = {} THEN -1 ELSE FirstOf(places)

\* Every iterator moves over the entries it is there to show as if they were
\* one sorted sequence, whatever they are spread over and however often the
\* direction turns; of a key a DBIter shows what its snapshot sees.  What is
\* not readable is passed.
Targets == UserTargets \cup InternalTargets
Promise == INSTANCE SortedIterator WITH pos <- Pos, Less <- Before
MovesAsPromised == Promise!Spec

\* A scan from the first entry to the end tells if something was not readable.
ScanTellsOfDamage == scanned /\ ~Standing /\ HasBad(source) => Reported
=============================================================================
