------------------------------- MODULE Block --------------------------------
(***************************************************************************)
(* Blocks of a table: how BlockBuilder writes one and Block::Iter moves    *)
(* over it, and over one that was damaged on the disk: blocks are read     *)
(* without a checksum unless the caller asks for it.  A block is a         *)
(* sequence of units: a length, one character of a key or a value, and a   *)
(* restart offset are one unit each.  Offsets count from 0 as in the code. *)
(***************************************************************************)
EXTENDS Formats

CONSTANT
    Word                        \* 2^32 in the code; greater than any block is long

Less(a, b) == Compare(a, b) < 0

SharedLen(a, b) ==
    LET common == {i \in 0..Len(a) : i <= Len(b) /\ SubSeq(a, 1, i) = SubSeq(b, 1, i)}
    IN  CHOOSE n \in common : \A m \in common : m <= n

-----------------------------------------------------------------------------
(* BlockBuilder.                                                           *)

EmptyBlock == [buffer |-> <<>>, restarts |-> <<0>>, counter |-> 0, last_key |-> <<>>]

Shared(b, key, interval) == IF b.counter < interval THEN SharedLen(b.last_key, key) ELSE 0

NextCounter(b, interval) == IF b.counter < interval THEN b.counter + 1 ELSE 1

BlockAdd(b, key, value, interval) ==
    LET shared == Shared(b, key, interval)
        delta == SubSeq(key, shared + 1, Len(key))
    IN  [buffer |-> b.buffer \o <<shared, Len(delta), Len(value)>> \o delta \o value,
         restarts |-> IF b.counter < interval THEN b.restarts ELSE Append(b.restarts, Len(b.buffer)),
         counter |-> NextCounter(b, interval),
         last_key |-> SubSeq(b.last_key, 1, shared) \o delta]

CurrentSizeEstimate(b) == Len(b.buffer) + Len(b.restarts) + 1
BlockFinish(b) == b.buffer \o b.restarts \o <<Len(b.restarts)>>
IsEmptyBlock(b) == b.buffer = <<>>

-----------------------------------------------------------------------------
(* Block::Iter.  An entry ends where its value ends: [offset, size].       *)

NumRestarts(block) == block[Len(block)]

HasRestarts(block) == block # <<>> /\ NumRestarts(block) <= Len(block) - 1

RestartOffset(block) == Len(block) - (1 + NumRestarts(block))
GetRestartPoint(block, index) == block[RestartOffset(block) + index + 1]

NoIter(block) ==
    [current |-> RestartOffset(block), index |-> NumRestarts(block), key |-> <<>>, value |-> <<0, 0>>,
     ok |-> TRUE, outside |-> FALSE]

Valid(block, it) == it.current < RestartOffset(block)
NextEntryOffset(it) == it.value[1] + it.value[2]
CorruptionError(block) == [NoIter(block) EXCEPT !.ok = FALSE]

\* An entry is taken whose key or value does not end in the block: what is read
\* is not defined, and the model ends.
ReadsOutside(block) == [NoIter(block) EXCEPT !.outside = TRUE]

\* DecodeEntry does not return NULL.  The two lengths are added as uint32_t.
Decodes(block, p) ==
    /\ p + 3 <= RestartOffset(block)
    /\ (block[p + 2] + block[p + 3]) % Word <= RestartOffset(block) - (p + 3)

EndsInside(block, p) == p + 3 + block[p + 2] + block[p + 3] <= RestartOffset(block)

\* The last restart before current that the index has reached.
RestartFor(block, it, current) ==
    LET beyond == {i \in (it.index + 1)..(NumRestarts(block) - 1) : GetRestartPoint(block, i) >= current}
    IN  IF it.index >= NumRestarts(block) THEN it.index
        ELSE LeastOf(beyond \cup {NumRestarts(block)}) - 1

ParseNextKey(block, it) ==
    LET current == NextEntryOffset(it)
    IN  IF current >= RestartOffset(block)
        THEN [it EXCEPT !.current = RestartOffset(block), !.index = NumRestarts(block)]
        ELSE IF ~Decodes(block, current) \/ Len(it.key) < block[current + 1]
        THEN [CorruptionError(block) EXCEPT !.value = <<0, 0>>]
        ELSE IF ~EndsInside(block, current) THEN ReadsOutside(block)
        ELSE [it EXCEPT !.current = current,
                        !.key = SubSeq(it.key, 1, block[current + 1])
                                    \o SubSeq(block, current + 4, current + 3 + block[current + 2]),
                        !.value = <<current + 3 + block[current + 2], block[current + 3]>>,
                        !.index = RestartFor(block, it, current)]

SeekToRestartPoint(block, it, index) ==
    [it EXCEPT !.key = <<>>, !.index = index, !.value = <<GetRestartPoint(block, index), 0>>]

\* Parses on as long as the entry it reached ends before an offset.
RECURSIVE ParseUpTo(_, _, _)
ParseUpTo(block, it, end) ==
    LET n == ParseNextKey(block, it)
    IN  IF Valid(block, n) /\ NextEntryOffset(n) < end THEN ParseUpTo(block, n, end) ELSE n

RECURSIVE ParseToKey(_, _, _)
ParseToKey(block, it, target) ==
    LET n == ParseNextKey(block, it)
    IN  IF Valid(block, n) /\ Less(n.key, target) THEN ParseToKey(block, n, target) ELSE n

IterSeekToFirst(block, it) == ParseNextKey(block, SeekToRestartPoint(block, it, 0))

IterSeekToLast(block, it) ==
    ParseUpTo(block, SeekToRestartPoint(block, it, NumRestarts(block) - 1), RestartOffset(block))

\* Mutant: a restart point at the entry itself will do.
AtOrBefore(block, i, original) == GetRestartPoint(block, i) <= original

StrictlyBefore(block, i, original) == GetRestartPoint(block, i) < original

IterPrev(block, it) ==
    LET before == {i \in 0..it.index : StrictlyBefore(block, i, it.current)}
        index == CHOOSE i \in before : \A j \in before : j <= i
    IN  IF before = {} THEN [it EXCEPT !.current = RestartOffset(block), !.index = NumRestarts(block)]
        ELSE ParseUpTo(block, SeekToRestartPoint(block, it, index), it.current)

\* The binary search over the restart points: the one to start from,
\* -1 for a bad entry, -2 for one that does not end in the block.
RECURSIVE SeekRestart(_, _, _, _)
SeekRestart(block, target, left, right) ==
    LET mid == (left + right + 1) \div 2
        p == GetRestartPoint(block, mid)
        mid_key == SubSeq(block, p + 4, p + 3 + block[p + 2])
    IN  IF left >= right THEN left
        ELSE IF ~Decodes(block, p) \/ block[p + 1] # 0 THEN -1
        ELSE IF ~EndsInside(block, p) THEN -2
        ELSE IF Less(mid_key, target) THEN SeekRestart(block, target, mid, right)
        ELSE SeekRestart(block, target, left, mid - 1)

IterSeek(block, it, target) ==
    LET left == SeekRestart(block, target, 0, NumRestarts(block) - 1)
    IN  IF left = -1 THEN CorruptionError(block)
        ELSE IF left = -2 THEN ReadsOutside(block)
        ELSE ParseToKey(block, SeekToRestartPoint(block, it, left), target)

-----------------------------------------------------------------------------
CONSTANTS
    Targets,                    \* the keys that are in blocks and that are sought
    kValue,                     \* the values
    kMaxEntries,
    interval                    \* block_restart_interval, at least 1

VARIABLES
    entries,                    \* what was added
    block,                      \* the block as it is read
    iter,
    op

vars == <<entries, block, iter, op>>

Written ==
    BlockFinish(FoldLeft(LAMBDA b, e : BlockAdd(b, e.key, e.value, interval), EmptyBlock, entries))

Sorted(s) == \A i \in 1..(Len(s) - 1) : Less(s[i].key, s[i + 1].key)
Contents == UNION {{s \in [1..n -> [key : Targets, value : kValue]] : Sorted(s)} : n \in 0..kMaxEntries}

InitOver(blocks) ==
    /\ block \in blocks
    /\ iter = NoIter(block)
    /\ op = [name |-> "none", target |-> <<>>]

Init == entries \in Contents /\ InitOver({Written})

\* One unit of the block reads as another, or as the greatest number.  A count of restarts that cannot be
\* gives an iterator that is never valid.
Damaged == {[Written EXCEPT ![i] = u] : i \in DOMAIN Written, u \in (0..Len(Written)) \cup {Word - 1}}
DamagedInit == entries \in Contents /\ InitOver({b \in Damaged : HasRestarts(b) /\ NumRestarts(b) > 0})

Call(name, target, it) ==
    /\ ~iter.outside
    /\ iter' = it
    /\ op' = [name |-> name, target |-> target]
    /\ UNCHANGED <<entries, block>>

SeekToFirst == Call("SeekToFirst", <<>>, IterSeekToFirst(block, iter))
SeekToLast == Call("SeekToLast", <<>>, IterSeekToLast(block, iter))
Seek(target) == Call("Seek", target, IterSeek(block, iter, target))
Forward == Valid(block, iter) /\ Call("Next", <<>>, ParseNextKey(block, iter))
Back == Valid(block, iter) /\ Call("Prev", <<>>, IterPrev(block, iter))

Next == SeekToFirst \/ SeekToLast \/ Forward \/ Back \/ (\E target \in Targets : Seek(target))

Spec == Init /\ [][Next]_vars
DamagedSpec == DamagedInit /\ [][Next]_vars

-----------------------------------------------------------------------------
Value == SubSeq(block, iter.value[1] + 1, NextEntryOffset(iter))

\* The entry the iterator shows; 0 when it shows none, -1 when it shows what was never added.
Shown ==
    LET same == {i \in DOMAIN entries : entries[i] = [key |-> iter.key, value |-> Value]}
    IN  IF ~Valid(block, iter) THEN 0 ELSE IF same = {} THEN -1 ELSE LeastOf(same)

\* An iterator over an intact block is one over the entries that were added:
\* every call moves it as it says, through restart points and shared prefixes.
Promise == INSTANCE SortedIterator WITH pos <- Shown
ShowsTheEntries == Promise!Spec

\* The restart point the iterator holds is at or before its entry and the
\* next one is not before it, so that Prev finds a restart to go back to.
RestartIsBefore ==
    Valid(block, iter) =>
        /\ GetRestartPoint(block, iter.index) <= iter.current
        /\ iter.index + 1 < NumRestarts(block) => GetRestartPoint(block, iter.index + 1) >= iter.current

\* Two lengths of the block whose sum is taken for a smaller one.
LengthsWrap ==
    \E p \in 0..(RestartOffset(block) - 3) : block[p + 2] + block[p + 3] >= Word

\* Over a damaged block the iterator stays among its entries and shows keys and
\* values from inside the block.  The one way out of it is an entry whose two
\* lengths wrap around: DecodeEntry takes it for a short one.
StaysInside ==
    /\ Valid(block, iter) =>
        /\ iter.index < NumRestarts(block)
        /\ NextEntryOffset(iter) <= RestartOffset(block)
    /\ iter.outside => LengthsWrap

\* Next moves on through a damaged block too: it cannot go round.
NextMovesOn ==
    [][op'.name = "Next" => ~Valid(block, iter)' \/ iter'.current > iter.current]_vars
=============================================================================
