------------------------------- MODULE Table --------------------------------
(***************************************************************************)
(* A table: TableBuilder writes blocks of entries, a filter block, an      *)
(* index and a footer, and Table finds entries in them.  A block is the    *)
(* sequence of its entries (Block tells how they are laid out); its size   *)
(* is what the size of its entries adds up to, so that offsets differ.     *)
(***************************************************************************)
EXTENDS Formats

CONSTANTS
    Entries,                    \* sets of entries [key, value], keys being internal keys
    Lookups,                    \* internal keys that are looked up
    block_size,
    kFilterBase,                \* a filter for every so many bytes of data
    BloomHash(_),               \* of a user key, HashBits wide
    bits_per_key, NumProbes,    \* k_
    Calls                       \* numbers of calls of the file that succeed

VARIABLES
    todo,                       \* entries to be added, in order
    added,
    r,                          \* TableBuilder::Rep with the blocks it wrote
    table,                      \* Table::Rep, or none
    careless,                   \* a block was read without its checksum
    spoilt,                     \* and blocks were damaged
    got

tableVars == <<todo, added, r, table, careless, spoilt, got>>

kBlockTrailerSize == 1
HashBits == 4                   \* 32
MinFilterBits == 8              \* 64
NoHandle == [offset |-> -1, size |-> 0]
Handle(offset, size) == [offset |-> offset, size |-> size]

SizeOf(contents) == 1 + FoldLeft(LAMBDA n, e : n + 1 + e.value, 0, contents)

-----------------------------------------------------------------------------
(* bloom.cc and filter_block.cc.  A filter is the set of its bits that are *)
(* one and their number; NoFilter is one of no bytes.                      *)

Rotated(h) == (h \div 4) + ((h % 4) * 2^(HashBits - 2))
Probes(user_key, bits) ==
    LET h == BloomHash(user_key) IN {((h + j * Rotated(h)) % 2^HashBits) % bits : j \in 0..(NumProbes - 1)}

NoFilter == [ones |-> {}, bits |-> 0]

\* The bits are rounded up to whole bytes; a small filter has more of them.
FilterBits(n) ==
    LET bits == IF n * bits_per_key < MinFilterBits THEN MinFilterBits ELSE n * bits_per_key
    IN  ((bits + ByteBits - 1) \div ByteBits) * ByteBits
CreateFilter(keys) ==
    LET bits == FilterBits(Len(keys))
    IN  [ones |-> UNION {Probes(ExtractUserKey(keys[i]), bits) : i \in DOMAIN keys}, bits |-> bits]
BloomMayMatch(key, filter) == Probes(ExtractUserKey(key), filter.bits) \subseteq filter.ones

\* FilterBlockBuilder: the filters and the keys of the next one.
GenerateFilter(f) ==
    [filters |-> Append(f.filters, IF f.keys = <<>> THEN NoFilter ELSE CreateFilter(f.keys)), keys |-> <<>>]

RECURSIVE GenerateUpTo(_, _)
GenerateUpTo(f, filter_index) ==
    IF filter_index > Len(f.filters) THEN GenerateUpTo(GenerateFilter(f), filter_index) ELSE f

\* Mutant: the filter ends one range late.
StartBlockLate(f, block_offset) == GenerateUpTo(f, (block_offset - 1) \div kFilterBase)

StartBlock(f, block_offset) == GenerateUpTo(f, block_offset \div kFilterBase)

FinishFilters(f) == IF f.keys = <<>> THEN f.filters ELSE GenerateFilter(f).filters

\* FilterBlockReader: what is not there matches.
KeyMayMatch(filters, block_offset, key) ==
    LET index == block_offset \div kFilterBase + 1
    IN  index \in DOMAIN filters => filters[index] # NoFilter /\ BloomMayMatch(key, filters[index])

-----------------------------------------------------------------------------
(* table_builder.cc.  calls is how many calls of the file still succeed.   *)

NewBuilder(calls) ==
    [ok |-> TRUE, closed |-> FALSE, offset |-> 0, blocks |-> <<>>, calls |-> calls, data |-> <<>>, index |-> <<>>,
     last_key |-> <<>>, pending_index_entry |-> FALSE, pending_handle |-> NoHandle,
     filter |-> StartBlock([filters |-> <<>>, keys |-> <<>>], 0),
     metaindex_handle |-> NoHandle, index_handle |-> NoHandle, filter_handle |-> NoHandle]

\* A call of the file: Append or Flush.
Called(b) == IF b.calls = 0 THEN [b EXCEPT !.ok = FALSE] ELSE [b EXCEPT !.calls = @ - 1]

Block(b, contents, size) ==
    [offset |-> b.offset, contents |-> contents, size |-> size, type |-> "kNoCompression", crc |-> TRUE]

\* The contents and the trailer are two appends.
WriteRawBlock(b, contents, size) ==
    LET n == Called(b)
        m == Called(n)
    IN  IF ~n.ok THEN n ELSE IF ~m.ok THEN m
        ELSE [m EXCEPT !.offset = @ + size + kBlockTrailerSize, !.blocks = Append(@, Block(b, contents, size))]

WriteBlock(b, contents) == WriteRawBlock(b, contents, SizeOf(contents))

Flush(b) ==
    LET handle == Handle(b.offset, SizeOf(b.data))
        n == [WriteBlock(b, b.data) EXCEPT !.pending_handle = handle, !.data = <<>>]
        flushed == IF n.ok THEN Called([n EXCEPT !.pending_index_entry = TRUE]) ELSE n
    IN  IF ~b.ok \/ b.data = <<>> THEN b
        ELSE [flushed EXCEPT !.filter = StartBlock(@, flushed.offset)]

\* The last key of a block gives way to a shorter one before the next block.
WithIndexEntry(b, key) ==
    IF ~b.pending_index_entry THEN b
    ELSE [b EXCEPT !.index = Append(@, [key |-> key, value |-> b.pending_handle]), !.pending_index_entry = FALSE]

BuilderAdd(b, e) ==
    LET n == WithIndexEntry(b, InternalSeparator(b.last_key, e.key))
        m == [n EXCEPT !.filter.keys = Append(@, e.key), !.last_key = e.key, !.data = Append(@, e)]
    IN  IF ~b.ok THEN b ELSE IF SizeOf(m.data) >= block_size THEN Flush(m) ELSE m

\* The index holds handles: an entry of it counts as one of one byte.
IndexSize(index) == 1 + 2 * Len(index)

\* Filters, metaindex, index and footer; each step only when all before were done.
Then(b, Op(_)) == IF b.ok THEN Op(b) ELSE b
WriteFilter(b) ==
    LET filters == FinishFilters(b.filter)
    IN  [WriteRawBlock(b, filters, Len(filters) + 1) EXCEPT !.filter_handle = Handle(b.offset, Len(filters) + 1)]
WriteMetaindex(b) ==
    LET meta == <<[key |-> "filter", value |-> b.filter_handle]>>
    IN  [WriteRawBlock(b, meta, IndexSize(meta)) EXCEPT !.metaindex_handle = Handle(b.offset, IndexSize(meta))]
WriteIndex(b) ==
    LET n == WithIndexEntry(b, InternalSuccessor(b.last_key))
    IN  [WriteRawBlock(n, n.index, IndexSize(n.index)) EXCEPT !.index_handle = Handle(b.offset, IndexSize(n.index))]
WriteFooter(b) == Called(b)

BuilderFinish(b) ==
    Then(Then(Then(Then([Flush(b) EXCEPT !.closed = TRUE], WriteFilter), WriteMetaindex), WriteIndex), WriteFooter)

-----------------------------------------------------------------------------
(* format.cc and table.cc.                                                 *)

Corruption == [ok |-> FALSE, contents |-> <<>>]

\* Where no block begins there is something whose checksum is wrong.
ReadBlock(handle, verify_checksums) ==
    LET there == SelectSeq(r.blocks, LAMBDA b : b.offset = handle.offset /\ b.size = handle.size)
        block == there[1]
    IN  IF handle = NoHandle \/ there = <<>> THEN Corruption
        ELSE IF (verify_checksums /\ ~block.crc) \/ block.type # "kNoCompression" THEN Corruption
        ELSE [ok |-> TRUE, contents |-> block.contents]

NoTable == [open |-> FALSE]

\* The entry that a seek in a block finds, as a sequence of at most one.
SeekEntry(contents, key) ==
    LET from == {i \in DOMAIN contents : InternalCompare(contents[i].key, key) >= 0}
    IN  IF from = {} THEN <<>> ELSE <<contents[LeastOf(from)]>>

\* The filters of a table that has none, or whose are not readable, let every key pass.
ReadMeta(paranoid_checks) ==
    LET meta == ReadBlock(r.metaindex_handle, paranoid_checks)
        filters == ReadBlock(meta.contents[1].value, paranoid_checks)
    IN  IF meta.ok /\ meta.contents # <<>> /\ filters.ok THEN filters.contents ELSE <<>>

\* Without a footer, or with a bad index, there is no table.  What is read of a
\* file that is mapped into memory is not cached.
Opened(paranoid_checks, cachable) ==
    LET index == ReadBlock(r.index_handle, paranoid_checks)
    IN  IF ~index.ok THEN NoTable
        ELSE [open |-> TRUE, index |-> index.contents, filters |-> ReadMeta(paranoid_checks),
              cachable |-> cachable, cache |-> <<>>]

Cached(offset) == SelectSeq(table.cache, LAMBDA b : b.offset = offset)

\* A block in the cache is not read again.
BlockReader(handle, verify_checksums) ==
    IF Cached(handle.offset) # <<>>
    THEN [ok |-> TRUE, contents |-> Cached(handle.offset)[1].contents]
    ELSE ReadBlock(handle, verify_checksums)

CacheWith(handle, read) ==
    IF Cached(handle.offset) = <<>> /\ read.ok /\ table.cachable
    THEN Append(table.cache, [offset |-> handle.offset, contents |-> read.contents])
    ELSE table.cache

\* Whether a get of k reads a block at all.
Reads(k) ==
    LET at == SeekEntry(table.index, k)
    IN  at # <<>> /\ KeyMayMatch(table.filters, at[1].value.offset, k)

ApproximateOffsetOf(k) ==
    LET at == SeekEntry(table.index, k) IN IF at = <<>> THEN r.metaindex_handle.offset ELSE at[1].value.offset

-----------------------------------------------------------------------------
Idle == [status |-> "none", saved |-> <<>>, key |-> <<>>]

Init ==
    /\ \E E \in Entries : todo = SetToSortSeq(E, LAMBDA d, e : InternalCompare(d.key, e.key) < 0)
    /\ \E calls \in Calls : r = NewBuilder(calls)
    /\ added = <<>>
    /\ table = NoTable
    /\ careless = FALSE
    /\ spoilt = FALSE
    /\ got = Idle

Add ==
    /\ ~r.closed
    /\ todo # <<>>
    /\ r' = BuilderAdd(r, Head(todo))
    /\ added' = Append(added, Head(todo))
    /\ todo' = Tail(todo)
    /\ UNCHANGED <<table, careless, spoilt, got>>

Finish ==
    /\ ~r.closed
    /\ todo = <<>>
    /\ r' = BuilderFinish(r)
    /\ UNCHANGED <<todo, added, table, careless, spoilt, got>>

\* Only a table that was finished is opened.
Open(paranoid_checks, cachable) ==
    /\ r.closed /\ r.ok /\ ~table.open
    /\ table' = Opened(paranoid_checks, cachable)
    /\ careless' = ~paranoid_checks
    /\ got' = [Idle EXCEPT !.status = IF table'.open THEN "opened" ELSE "refused"]
    /\ UNCHANGED <<todo, added, r, spoilt>>

InternalGet(k, verify_checksums) ==
    LET handle == SeekEntry(table.index, k)[1].value
        read == BlockReader(handle, verify_checksums)
    IN  /\ table.open
        /\ IF Reads(k)
           THEN /\ table' = [table EXCEPT !.cache = CacheWith(handle, read)]
                /\ careless' = (careless \/ ~verify_checksums)
                /\ got' = [status |-> IF read.ok THEN "ok" ELSE "corruption",
                           saved |-> SeekEntry(read.contents, k), key |-> k]
           ELSE /\ got' = [status |-> "ok", saved |-> <<>>, key |-> k]
                /\ UNCHANGED <<table, careless>>
        /\ UNCHANGED <<todo, added, r, spoilt>>

\* On the disk a block loses an entry or has another type.
Spoil(i) ==
    /\ r.closed /\ r.ok /\ ~spoilt
    /\ spoilt' = TRUE
    /\ \/ r.blocks[i].contents # <<>>
          /\ r' = [r EXCEPT !.blocks[i].contents = Tail(@), !.blocks[i].crc = FALSE]
       \/ r' = [r EXCEPT !.blocks[i].type = "kSnappyCompression", !.blocks[i].crc = FALSE]
    /\ UNCHANGED <<todo, added, table, careless, got>>

Next ==
    \/ Add
    \/ Finish
    \/ \E paranoid_checks, cachable \in BOOLEAN : Open(paranoid_checks, cachable)
    \/ \E k \in Lookups, verify_checksums \in BOOLEAN : InternalGet(k, verify_checksums)
    \/ \E i \in DOMAIN r.blocks : Spoil(i)

Spec == Init /\ [][Next]_tableVars

-----------------------------------------------------------------------------
\* What a lookup must find: the first entry not before the key, if it is one
\* of the same user key.
Sought(k) ==
    SelectSeq(SeekEntry(added, k), LAMBDA e : ExtractUserKey(e.key) = ExtractUserKey(k))

Found(k, saved) == SelectSeq(saved, LAMBDA e : ExtractUserKey(e.key) = ExtractUserKey(k))

\* A table finds what was added to it, for every key and whatever its filters
\* and the ends of its blocks are.  When blocks were damaged, readers that
\* asked for checksums from the opening on find the same or are told.
GetsAreRight ==
    got.status = "ok" /\ (spoilt => ~careless) => Found(got.key, got.saved) = Sought(got.key)

\* A table that could be finished is complete: all that was added is in blocks
\* of the index, and it opens and answers unless it was damaged.
FinishedTablesOpen ==
    LET BlockAt(handle) == SelectSeq(r.blocks, LAMBDA b : b.offset = handle.offset)[1]
    IN  /\ got.status \in {"refused", "corruption"} => spoilt
        /\ r.closed /\ r.ok /\ ~spoilt =>
                added = FlattenSeq([i \in DOMAIN r.index |-> BlockAt(r.index[i].value).contents])

\* Offsets grow with the keys.
OffsetsGrow ==
    table.open => \A k, l \in Lookups :
        InternalCompare(k, l) <= 0 => ApproximateOffsetOf(k) <= ApproximateOffsetOf(l)
=============================================================================
