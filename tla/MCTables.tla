------------------------------ MODULE MCTables -------------------------------
(***************************************************************************)
(* What the store and the message library write and read again, and what   *)
(* the store asks of the system, side by side: part tells which one runs,  *)
(* the others are off.                                                     *)
(*   - block, damaged: blocks of up to four entries with restarts at every *)
(*     second one, and of three with restarts everywhere of which any unit *)
(*     reads as another, with lengths that wrap around where 2^32 is 32;   *)
(*   - records: batches, edits, keys and names around the limits of their  *)
(*     widths;                                                             *)
(*   - table: tables of five or six entries in blocks of about two, with   *)
(*     filters that begin in the middle of blocks, and filters that let    *)
(*     keys pass that are not there;                                       *)
(*   - shared filters: a table whose blocks have a filter in common;       *)
(*   - iterators: three sources of five entries, spread in every way a     *)
(*     store may have them, and the same with an unreadable block or key;  *)
(*   - message: four kinds of messages, among them one of submessages;     *)
(*   - lock, limit, queue, current: two processes, one of two threads, a   *)
(*     limit of one of each kind, four items, two crashes.                 *)
(***************************************************************************)
EXTENDS Integers, Sequences, SequencesExt, FiniteSets

VARIABLES
    part,
    blockEntries, block, iter, blockOp,
    object, bytes, how, intact,
    todo, added, r, table, careless, spoilt, got,
    source, sequence, it, db, op, entries, scanned,
    schema, known, wire, meant, delivery,
    fds, locked_files, owner, dropped, deaths,
    allowed, files,
    queue, bgthread, signalled, scheduled, ran,
    writing, tmp, current, crashes

F == INSTANCE Formats

-----------------------------------------------------------------------------
KeysUpTo2 == UNION {[1..n -> 1..2] : n \in 0..2}
Intact ==
    INSTANCE Block WITH
        Targets <- KeysUpTo2, kValue <- {<<>>, <<9>>}, kMaxEntries <- 4, interval <- 2, Word <- 32,
        entries <- blockEntries, op <- blockOp
Damaged ==
    INSTANCE Block WITH
        Targets <- {<<1>>, <<1, 1>>, <<1, 2>>, <<2>>, <<2, 2>>}, kValue <- {<<1>>}, kMaxEntries <- 3, interval <- 1,
        Word <- 32,
        entries <- blockEntries, op <- blockOp

-----------------------------------------------------------------------------
Put(k, v) == [type |-> F!kTypeValue, key |-> k, value |-> v]
Del(k) == [type |-> F!kTypeDeletion, key |-> k, value |-> <<>>]
LongKey == [i \in 1..9 |-> 8]
Batches ==
    [sequence : {0, 4094},
     own : {<<Put(<<>>, <<>>)>>, <<Del(<<8, 1>>), Put(<<1>>, LongKey)>>},
     other : {<<>>, <<Put(<<1>>, <<0>>)>>, <<Del(LongKey)>>}]
Numbers == {<<>>, <<0>>, <<65535>>}
FileKey == F!AppendInternalKey(<<3>>, 4094, F!kTypeValue)
Edits ==
    {[e EXCEPT !.last_sequence = e.next_file] :
        e \in [comparator : {<<>>, <<<<1, 2>>>>}, log : Numbers, prev_log : {<<>>, <<9>>}, next_file : {<<>>, <<300>>},
               last_sequence : {<<>>}, compact_pointers : {<<>>, <<<<6, FileKey>>>>},
               deleted_files : {{}, {<<0, 9>>, <<1, 300>>}}, new_files : {<<>>, <<<<2, 70, 4000, FileKey, FileKey>>>>}]}
SomeKeys == {F!AppendInternalKey(u, s, F!kTypeValue) : u \in UNION {[1..n -> {0, 1, 14, 15}] : n \in 0..2}, s \in {0, 4095}}
KeyPairs == {[start |-> p[1], limit |-> p[2]] : p \in {q \in SomeKeys \X SomeKeys : F!InternalCompare(q[1], q[2]) < 0}}
Names ==
    [type : {"kLogFile", "kTableFile", "kTempFile", "kDescriptorFile"}, number : {1, 999, 1000, 55535, 65535}]
        \cup [type : {"kCurrentFile", "kDBLockFile", "kInfoLogFile"}, number : {0}]
AllObjects ==
    [kind : {"batch"}, v : Batches] \cup [kind : {"edit"}, v : Edits]
        \cup [kind : {"keys"}, v : KeyPairs] \cup [kind : {"name"}, v : Names]
Rec == INSTANCE Records WITH Objects <- AllObjects, Damages <- {0, 1, 7, 9, 15}

-----------------------------------------------------------------------------
Entry(u, s, v) == [key |-> F!AppendInternalKey(u, s, F!kTypeValue), value |-> v]
TableEntries ==
    {Entry(<<1>>, 1, 0), Entry(<<3, 1>>, 7, 3), Entry(<<3, 1>>, 5, 0), Entry(<<3, 2>>, 2, 3),
     Entry(<<3, 9>>, 3, 0), Entry(<<3, 9>>, 1, 3)}
\* Of the bits of a filter the key <<3, 2>> has those of the keys beside it.
Hash(user_key) ==
    CASE user_key = <<1>> -> 1
      [] user_key = <<3, 1>> -> 6
      [] user_key = <<3, 2>> -> 15
      [] user_key = <<3, 9>> -> 3
Tab ==
    INSTANCE Table WITH
        Entries <- {E \in SUBSET TableEntries : Cardinality(E) \in {5, 6}},
        Lookups <- {F!AppendInternalKey(u, 6, F!kTypeValue) : u \in {<<1>>, <<3, 1>>, <<3, 2>>, <<3, 9>>}}
                       \cup {F!AppendInternalKey(<<3, 1>>, 2, F!kTypeValue)},
        block_size <- 4, kFilterBase <- 4, BloomHash <- Hash, bits_per_key <- 2, NumProbes <- 2, Calls <- {3, 100}
\* Blocks that share a filter with the one before: its range is longer than they.
TabShared ==
    INSTANCE Table WITH
        Entries <- {TableEntries},
        Lookups <- {F!AppendInternalKey(u, 6, F!kTypeValue) : u \in {<<1>>, <<3, 1>>, <<3, 2>>, <<3, 9>>}},
        block_size <- 4, kFilterBase <- 16, BloomHash <- Hash, bits_per_key <- 2, NumProbes <- 2, Calls <- {100}

-----------------------------------------------------------------------------
StoreEntry(u, s, type) == [key |-> <<u, s>>, type |-> type, value |-> s]
StoreEntries ==
    {StoreEntry(1, 3, "value"), StoreEntry(1, 1, "value"), StoreEntry(2, 4, "deletion"),
     StoreEntry(2, 2, "value"), StoreEntry(3, 5, "value")}
SourceOf(kind, es, keys, children) == [kind |-> kind, entries |-> es, keys |-> keys, children |-> children]
ListOf(es) == SourceOf("list", es, <<>>, <<>>)
Unreadable == SourceOf("bad", <<>>, <<>>, <<>>)
\* A table with a block for every entry, of which one may be unreadable.
TableOf(es, bad) ==
    SourceOf("two", <<>>, [n \in DOMAIN es |-> es[n].key],
             [n \in DOMAIN es |-> IF n = bad THEN Unreadable ELSE ListOf(<<es[n]>>)])
\* A level of two tables, one, or none.
LevelOf(es, bad) ==
    LET half == Len(es) \div 2
        runs == SelectSeq(<<SubSeq(es, 1, half), SubSeq(es, half + 1, Len(es))>>, LAMBDA run : run # <<>>)
    IN  SourceOf("two", <<>>, [n \in DOMAIN runs |-> Last(runs[n]).key],
                 [n \in DOMAIN runs |-> TableOf(runs[n], IF n = 1 THEN bad ELSE bad - half)])

SourcesBefore == INSTANCE Iterators WITH Sources <- {}, Snapshots <- {}, UserTargets <- {}, InternalTargets <- {}
\* A newer entry of a key is not below an older one.
Spreads ==
    {f \in [StoreEntries -> 1..3] :
        \A d, e \in StoreEntries : d.key[1] = e.key[1] /\ d.key[2] > e.key[2] => f[d] <= f[e]}
TreeOf(f, bad, corrupt) ==
    LET Marked(e) == IF e.key[2] = corrupt THEN [e EXCEPT !.type = "corrupt"] ELSE e
        At(place) == SetToSortSeq({Marked(e) : e \in {d \in StoreEntries : f[d] = place}},
                                  LAMBDA d, e : SourcesBefore!Before(d.key, e.key))
    IN  SourceOf("merge", <<>>, <<>>, <<ListOf(At(1)), TableOf(At(2), 0), LevelOf(At(3), bad)>>)
Iter ==
    INSTANCE Iterators WITH
        Sources <- {TreeOf(f, d[1], d[2]) : f \in Spreads, d \in {<<0, 0>>, <<1, 0>>, <<0, 3>>}},
        Snapshots <- {3, 5}, UserTargets <- {<<1>>, <<2>>, <<4>>}, InternalTargets <- {<<1, 1>>, <<2, 3>>}

-----------------------------------------------------------------------------
Field(tag, ltype, htype, size) ==
    [tag |-> tag, slot |-> tag, ltype |-> ltype, htype |-> htype, atype |-> "static", size |-> size, array |-> 2,
     has |-> IF htype = "optional" THEN "has_" ELSE "none", fields |-> <<>>, zero |-> 0]
TextField(tag, ltype, htype, size) == [Field(tag, ltype, htype, size) EXCEPT !.zero = <<>>]
Singular(f) == [f EXCEPT !.has = "none"]
InnerFields == <<Field(1, "uvarint", "required", 8), Field(2, "varint", "repeated", 4)>>
AllSchemas ==
    [numbers |->
        <<Field(1, "varint", "required", 8), Field(2, "uvarint", "repeated", 8),
          Singular(Field(3, "fixed32", "optional", 8)), [Field(17, "svarint", "optional", 4) EXCEPT !.zero = 1]>>,
     strings |->
        <<[TextField(1, "fixed_length_bytes", "required", 2) EXCEPT !.zero = <<0, 0>>],
          TextField(2, "bytes", "optional", 2), Singular(TextField(3, "string", "optional", 2)),
          Field(4, "fixed64", "repeated", 16), TextField(5, "string", "repeated", 1)>>,
     nested |->
        <<[Field(1, "submessage", "optional", 0) EXCEPT !.fields = InnerFields],
          [Field(2, "uvarint", "oneof", 8) EXCEPT !.slot = 10],
          [Field(3, "submessage", "oneof", 0) EXCEPT !.slot = 10, !.fields = InnerFields],
          [Field(4, "submessage", "repeated", 0) EXCEPT !.fields = InnerFields]>>,
     open |->
        <<Singular(Field(1, "uvarint", "optional", 16)),
          [Field(2, "uvarint", "optional", 16) EXCEPT !.atype = "callback", !.has = "found"],
          [Field(4, "extension", "optional", 0) EXCEPT
             !.fields = <<[Field(5, "varint", "optional", 16) EXCEPT !.has = "found"]>>]>>]

Cell(n, v) == [n |-> n, v |-> v]
One(S) == {Cell(0, v) : v \in S}
Opt(zero, S) == {Cell(0, zero)} \cup {Cell(1, v) : v \in S}
Many(S) == {Cell(Len(v), v) : v \in S}
InnerMessage(a, b) == [slot \in 1..2 |-> IF slot = 1 THEN Cell(0, a) ELSE Cell(Len(b), b)]
InnerMessages == {InnerMessage(0, <<-8>>), InnerMessage(200, <<7, 1>>)}
\* A message with one cell in each of its slots.
Pairs(slots, cells) == [s \in Range(slots) |-> cells[CHOOSE n \in DOMAIN slots : slots[n] = s]]
AllMessages(s) ==
    CASE s = "numbers" ->
            {Pairs(<<1, 2, 3, 17>>, <<a, b, c, d>>) :
                a \in One({-128, -1, 127}), b \in Many({<<>>, <<255>>, <<0, 9>>}), c \in One({0, 200}), d \in Opt(1, {-8, 7})}
      [] s = "strings" ->
            {Pairs(<<1, 2, 3, 4, 5>>, <<a, b, c, d, e>>) :
                a \in One({<<0, 5>>}), b \in Opt(<<>>, {<<>>, <<0, 8>>}), c \in One({<<>>, <<0, 1>>, <<1, 2>>}),
                d \in Many({<<>>, <<4660, 1>>}), e \in Many({<<>>, <<<<1>>, <<>>>>})}
      [] s = "nested" ->
            {Pairs(<<1, 10, 4>>, <<a, b, c>>) :
                a \in Opt(InnerMessage(0, <<>>), InnerMessages),
                b \in {Cell(0, 0), Cell(2, 3)} \cup {Cell(3, m) : m \in InnerMessages},
                c \in Many({<<>>} \cup {<<m>> : m \in InnerMessages})}
      [] s = "open" ->
            {Pairs(<<1, 2, 5>>, <<a, b, c>>) :
                a \in One({0, 40000}), b \in One({<<>>, <<1>>, <<300, 0>>}), c \in One({0}) \cup Opt(0, {-300, 5})}
Msg == INSTANCE Nanopb WITH Schemas <- AllSchemas, Messages <- AllMessages, Bytes <- {0, 1, 2, 8, 15}, how <- delivery

-----------------------------------------------------------------------------
ProcessOf(t) == IF t = "c" THEN "q" ELSE "p"
Env ==
    INSTANCE PosixEnv WITH
        Processes <- {"p", "q"}, Threads <- {"a", "b", "c"}, Process <- ProcessOf,
        mmap_limit <- 1, fd_limit <- 1, MaxItems <- 4, Crashes <- 2

-----------------------------------------------------------------------------
blockVars == <<blockEntries, block, iter, blockOp>>
recordVars == <<object, bytes, how, intact>>
tableVars == <<todo, added, r, table, careless, spoilt, got>>
iterVars == <<source, sequence, it, db, op, entries, scanned>>
messageVars == <<schema, known, wire, meant, delivery>>
lockVars == <<fds, locked_files, owner, dropped, deaths>>
limitVars == <<allowed, files>>
queueVars == <<queue, bgthread, signalled, scheduled, ran>>
currentVars == <<writing, tmp, current, crashes>>
filesVars == <<blockVars, recordVars, tableVars, iterVars, messageVars>>
envVars == <<lockVars, limitVars, queueVars, currentVars>>
vars == <<part, filesVars, envVars>>

BlockOff == blockEntries = 0 /\ block = 0 /\ iter = 0 /\ blockOp = 0
RecordsOff == object = 0 /\ bytes = 0 /\ how = 0 /\ intact = 0
TableOff == todo = 0 /\ added = 0 /\ r = 0 /\ table = 0 /\ careless = 0 /\ spoilt = 0 /\ got = 0
IterOff == source = 0 /\ sequence = 0 /\ it = 0 /\ db = 0 /\ op = 0 /\ entries = 0 /\ scanned = 0
MessageOff == schema = 0 /\ known = 0 /\ wire = 0 /\ meant = 0 /\ delivery = 0
EnvParts == {"lock", "limit", "queue", "current"}

Init ==
    /\ Env!Init
    /\ \/ part = "block" /\ Intact!Init /\ RecordsOff /\ TableOff /\ IterOff /\ MessageOff
       \/ part = "damaged" /\ Damaged!DamagedInit /\ RecordsOff /\ TableOff /\ IterOff /\ MessageOff
       \/ part = "records" /\ Rec!Init /\ BlockOff /\ TableOff /\ IterOff /\ MessageOff
       \/ part = "shared filters" /\ TabShared!Init /\ BlockOff /\ RecordsOff /\ IterOff /\ MessageOff
       \/ part = "table" /\ Tab!Init /\ BlockOff /\ RecordsOff /\ IterOff /\ MessageOff
       \/ part = "iterators" /\ Iter!Init /\ BlockOff /\ RecordsOff /\ TableOff /\ MessageOff
       \/ part = "message" /\ Msg!Init /\ BlockOff /\ RecordsOff /\ TableOff /\ IterOff
       \/ part \in EnvParts /\ BlockOff /\ RecordsOff /\ TableOff /\ IterOff /\ MessageOff

Step ==
    /\ \/ part = "block" /\ Intact!Next /\ UNCHANGED <<recordVars, tableVars, iterVars, messageVars, envVars>>
       \/ part = "damaged" /\ Damaged!Next /\ UNCHANGED <<recordVars, tableVars, iterVars, messageVars, envVars>>
       \/ part = "records" /\ Rec!Next /\ UNCHANGED <<blockVars, tableVars, iterVars, messageVars, envVars>>
       \/ part = "shared filters" /\ TabShared!Next /\ UNCHANGED <<blockVars, recordVars, iterVars, messageVars, envVars>>
       \/ part = "table" /\ Tab!Next /\ UNCHANGED <<blockVars, recordVars, iterVars, messageVars, envVars>>
       \/ part = "iterators" /\ Iter!Next /\ UNCHANGED <<blockVars, recordVars, tableVars, messageVars, envVars>>
       \/ part = "message" /\ Msg!Next /\ UNCHANGED <<blockVars, recordVars, tableVars, iterVars, envVars>>
       \/ part = "lock" /\ Env!LockNext /\ UNCHANGED <<filesVars, limitVars, queueVars, currentVars>>
       \/ part = "limit" /\ Env!LimitNext /\ UNCHANGED <<filesVars, lockVars, queueVars, currentVars>>
       \/ part = "queue" /\ Env!QueueNext /\ UNCHANGED <<filesVars, lockVars, limitVars, currentVars>>
       \/ part = "current" /\ Env!CurrentNext /\ UNCHANGED <<filesVars, lockVars, limitVars, queueVars>>
    /\ UNCHANGED part

\* The end of a part, which may come at any time: what was written is read
\* then, and the properties say what the reader sees.
End ==
    /\ part \in {"records", "table", "shared filters", "message"}
    /\ part' = "over"
    /\ object' = 0 /\ bytes' = 0 /\ how' = 0 /\ intact' = 0
    /\ todo' = 0 /\ added' = 0 /\ r' = 0 /\ table' = 0 /\ careless' = 0 /\ spoilt' = 0 /\ got' = 0
    /\ schema' = 0 /\ known' = 0 /\ wire' = 0 /\ meant' = 0 /\ delivery' = 0
    /\ UNCHANGED <<blockVars, iterVars, envVars>>

Next == Step \/ End

Spec == Init /\ [][Next]_vars

-----------------------------------------------------------------------------
(* The properties of Block, Records, Table, Iterators, Nanopb, PosixEnv,   *)
(* said of every step, and of what there is when a part ends.              *)

\* An iterator over an intact block moves over the entries that were added as
\* every call says; over a damaged one it stays inside, unless two lengths
\* wrap around, and Next moves on.
BlocksShowTheirEntries ==
    [][/\ part = "block" => Intact!Promise!Next /\ Intact!RestartIsBefore'
       /\ part = "damaged" =>
            /\ Damaged!StaysInside'
            /\ blockOp'.name = "Next" => ~Damaged!Valid(block, iter)' \/ iter'.current > iter.current]_vars

\* What was written into a log, a descriptor or a name is read as it was, and
\* what was cut or damaged is refused or read no further.
RecordsComeBack ==
    [][part = "records" /\ part' = "over" =>
        Rec!BatchesComeBack /\ Rec!EditsComeBack /\ Rec!SeparatorsSeparate /\ Rec!NamesComeBack]_vars

\* A table answers every lookup with what was added to it, or tells of damage.
GetsAreRight ==
    [][part' = "over" =>
        /\ part = "table" => Tab!GetsAreRight /\ Tab!FinishedTablesOpen /\ Tab!OffsetsGrow
        /\ part = "shared filters" =>
              TabShared!GetsAreRight /\ TabShared!FinishedTablesOpen /\ TabShared!OffsetsGrow]_vars

\* Iterators over many sources move as one over the sorted entries, and a scan
\* tells if it passed something that was not readable.
MovesAsPromised ==
    [][part = "iterators" => Iter!Promise!Next /\ Iter!ScanTellsOfDamage']_vars

\* A message arrives as it was meant, in the size that was computed, and one
\* that was cut or damaged does no harm.
MessagesArrive ==
    [][part = "message" /\ part' = "over" =>
        Msg!ArrivesAsMeant /\ Msg!SizeIsExact /\ Msg!CutIsNoticed /\ Msg!DamageStaysInside]_vars

\* One holder of a lock, limits that hold, work that runs once and in order,
\* and a CURRENT that is whole.
EnvIsSound ==
    [][(part \in EnvParts) =>
        (Env!LocksExclude /\ Env!LimitsHold /\ Env!WorkIsRun /\ Env!CurrentIsWhole)']_vars

=============================================================================
