------------------------------ MODULE Formats -------------------------------
(***************************************************************************)
(* What the store writes into its files and names: numbers, batches of     *)
(* writes, edits of the version, internal keys and file names.  Widths are *)
(* scaled down together: a byte has four bits, of which a varint uses      *)
(* three, and 32 and 64 bits are Bits32 and Bits64, so that the last byte  *)
(* of a long varint has bits that do not fit.                              *)
(*                                                                         *)
(* A slice is a sequence of bytes.  What is read from one is [ok, v, rest].*)
(***************************************************************************)
EXTENDS Integers, Sequences, SequencesExt

Payload == 3                    \* 7
ByteBits == 4                   \* 8
Bits32 == 8
Bits64 == 16
kNumLevels == 7

LeastOf(S) == CHOOSE n \in S : \A m \in S : n <= m

-----------------------------------------------------------------------------
(* coding.cc                                                               *)

PutFixed(value, bits) == [i \in 1..(bits \div ByteBits) |-> (value \div 2^(ByteBits * (i - 1))) % 2^ByteBits]
DecodeFixed(bytes) == FoldRight(LAMBDA b, high : b + 2^ByteBits * high, bytes, 0)

\* PutVarint32 and PutVarint64 write the same bytes.
PutVarint(v) ==
    LET n == LeastOf({k \in 1..(Bits64 \div Payload + 1) : v < 2^(Payload * k)})
    IN  [i \in 1..n |-> ((v \div 2^(Payload * (i - 1))) % 2^Payload) + (IF i < n THEN 2^Payload ELSE 0)]

Nothing(input) == [ok |-> FALSE, v |-> 0, rest |-> input]

\* The bits of the last byte that do not fit are dropped.
GetVarint(input, bits) ==
    LET ends == {i \in DOMAIN input : input[i] < 2^Payload /\ Payload * (i - 1) < bits}
        n == LeastOf(ends)
        value == FoldRight(LAMBDA b, high : (b % 2^Payload) + 2^Payload * high, SubSeq(input, 1, n), 0)
    IN  IF ends = {} THEN Nothing(input)
        ELSE [ok |-> TRUE, v |-> value % 2^bits, rest |-> SubSeq(input, n + 1, Len(input))]

PutLengthPrefixedSlice(value) == PutVarint(Len(value)) \o value

GetLengthPrefixedSlice(input) ==
    LET len == GetVarint(input, Bits32)
    IN  IF len.ok /\ len.v <= Len(len.rest)
        THEN [ok |-> TRUE, v |-> SubSeq(len.rest, 1, len.v), rest |-> SubSeq(len.rest, len.v + 1, Len(len.rest))]
        ELSE Nothing(input)

-----------------------------------------------------------------------------
(* write_batch.cc: a sequence number, a count and the records.             *)

kTypeDeletion == 0
kTypeValue == 1
SequenceSize == Bits64 \div ByteBits
kHeader == SequenceSize + Bits32 \div ByteBits

EmptyBatch == [i \in 1..kHeader |-> 0]
BatchSequence(rep) == DecodeFixed(SubSeq(rep, 1, SequenceSize))
BatchCount(rep) == DecodeFixed(SubSeq(rep, SequenceSize + 1, kHeader))
SetSequence(rep, seq) == PutFixed(seq, Bits64) \o SubSeq(rep, SequenceSize + 1, Len(rep))
SetCount(rep, n) ==
    SubSeq(rep, 1, SequenceSize) \o PutFixed(n % 2^Bits32, Bits32) \o SubSeq(rep, kHeader + 1, Len(rep))

BatchPut(rep, key, value) ==
    SetCount(rep, BatchCount(rep) + 1) \o <<kTypeValue>>
        \o PutLengthPrefixedSlice(key) \o PutLengthPrefixedSlice(value)
BatchDelete(rep, key) ==
    SetCount(rep, BatchCount(rep) + 1) \o <<kTypeDeletion>> \o PutLengthPrefixedSlice(key)

\* Mutant: the count of the first batch stays.
AppendCountless(dst, src) == dst \o SubSeq(src, kHeader + 1, Len(src))

BatchAppend(dst, src) ==
    SetCount(dst, BatchCount(dst) + BatchCount(src)) \o SubSeq(src, kHeader + 1, Len(src))

\* One record, handed to the handler as [type, key, value].
ReadBatchRecord(input) ==
    LET key == GetLengthPrefixedSlice(Tail(input))
        value == GetLengthPrefixedSlice(key.rest)
    IN  IF input[1] = kTypeDeletion /\ key.ok
        THEN [key EXCEPT !.v = [type |-> kTypeDeletion, key |-> key.v, value |-> <<>>]]
        ELSE IF input[1] = kTypeValue /\ key.ok /\ value.ok
        THEN [value EXCEPT !.v = [type |-> kTypeValue, key |-> key.v, value |-> value.v]]
        ELSE Nothing(input)

\* The handler has seen the records before a bad one when Iterate fails.
RECURSIVE IterateFrom(_, _, _)
IterateFrom(rep, input, seen) ==
    LET next == ReadBatchRecord(input)
    IN  IF input = <<>> THEN [ok |-> Len(seen) = BatchCount(rep), seen |-> seen]
        ELSE IF next.ok THEN IterateFrom(rep, next.rest, Append(seen, next.v))
        ELSE [ok |-> FALSE, seen |-> seen]

Iterate(rep) ==
    IF Len(rep) < kHeader THEN [ok |-> FALSE, seen |-> <<>>]
    ELSE IterateFrom(rep, SubSeq(rep, kHeader + 1, Len(rep)), <<>>)

\* What the memtable is given, with the sequence number of each.
InsertInto(rep) ==
    LET seen == Iterate(rep).seen IN [i \in DOMAIN seen |-> <<BatchSequence(rep) + i - 1, seen[i]>>]

-----------------------------------------------------------------------------
(* version_edit.cc.  A number or name that may be missing is a sequence of *)
(* at most one element.                                                    *)

kComparator == 1
kLogNumber == 2
kNextFileNumber == 3
kLastSequence == 4
kCompactPointer == 5
kDeletedFile == 6
kNewFile == 7
kPrevLogNumber == 9

NoEdit ==
    [comparator |-> <<>>, log |-> <<>>, prev_log |-> <<>>, next_file |-> <<>>, last_sequence |-> <<>>,
     compact_pointers |-> <<>>, deleted_files |-> {}, new_files |-> <<>>]

Tagged(tag, numbers) == FlattenSeq([i \in DOMAIN numbers |-> PutVarint(tag) \o PutVarint(numbers[i])])
InOrder(files) == SetToSortSeq(files, LAMBDA a, b : a[1] < b[1] \/ (a[1] = b[1] /\ a[2] < b[2]))

EncodeEdit(e) ==
    LET Pointer(p) == PutVarint(kCompactPointer) \o PutVarint(p[1]) \o PutLengthPrefixedSlice(p[2])
        Deleted(f) == PutVarint(kDeletedFile) \o PutVarint(f[1]) \o PutVarint(f[2])
        File(f) ==
            PutVarint(kNewFile) \o PutVarint(f[1]) \o PutVarint(f[2]) \o PutVarint(f[3])
                \o PutLengthPrefixedSlice(f[4]) \o PutLengthPrefixedSlice(f[5])
        Comparator(name) == PutVarint(kComparator) \o PutLengthPrefixedSlice(name)
        Each(Op(_), s) == FlattenSeq([i \in DOMAIN s |-> Op(s[i])])
    IN  Each(Comparator, e.comparator) \o Tagged(kLogNumber, e.log) \o Tagged(kPrevLogNumber, e.prev_log)
            \o Tagged(kNextFileNumber, e.next_file) \o Tagged(kLastSequence, e.last_sequence)
            \o Each(Pointer, e.compact_pointers) \o Each(Deleted, InOrder(e.deleted_files))
            \o Each(File, e.new_files)

GetLevel(input) ==
    LET level == GetVarint(input, Bits32) IN IF level.ok /\ level.v < kNumLevels THEN level ELSE Nothing(input)

\* What follows a tag.
ItemsOf(tag) ==
    CASE tag = kComparator -> <<"slice">>
      [] tag \in {kLogNumber, kPrevLogNumber, kNextFileNumber, kLastSequence} -> <<"number">>
      [] tag = kCompactPointer -> <<"level", "slice">>
      [] tag = kDeletedFile -> <<"level", "number">>
      [] tag = kNewFile -> <<"level", "number", "number", "slice", "slice">>
      [] OTHER -> <<"unknown">>

GetItem(input, item) ==
    CASE item = "slice" -> GetLengthPrefixedSlice(input)
      [] item = "number" -> GetVarint(input, Bits64)
      [] item = "level" -> GetLevel(input)
      [] item = "unknown" -> Nothing(input)

GetItems(input, items) ==
    FoldLeft(LAMBDA got, item :
                 LET next == GetItem(got.rest, item)
                 IN  IF got.ok /\ next.ok THEN [next EXCEPT !.v = Append(got.v, @)] ELSE Nothing(input),
             [ok |-> TRUE, v |-> <<>>, rest |-> input], items)

\* A later number replaces an earlier one.
Applied(e, tag, v) ==
    CASE tag = kComparator -> [e EXCEPT !.comparator = v]
      [] tag = kLogNumber -> [e EXCEPT !.log = v]
      [] tag = kPrevLogNumber -> [e EXCEPT !.prev_log = v]
      [] tag = kNextFileNumber -> [e EXCEPT !.next_file = v]
      [] tag = kLastSequence -> [e EXCEPT !.last_sequence = v]
      [] tag = kCompactPointer -> [e EXCEPT !.compact_pointers = Append(@, v)]
      [] tag = kDeletedFile -> [e EXCEPT !.deleted_files = @ \cup {v}]
      [] tag = kNewFile -> [e EXCEPT !.new_files = Append(@, v)]

\* An input that ends inside a tag is an invalid tag.
RECURSIVE DecodeEdit(_, _)
DecodeEdit(input, e) ==
    LET tag == GetVarint(input, Bits32)
        items == GetItems(tag.rest, ItemsOf(tag.v))
    IN  IF ~tag.ok THEN [ok |-> input = <<>>, edit |-> e]
        ELSE IF items.ok THEN DecodeEdit(items.rest, Applied(e, tag.v, items.v))
        ELSE [ok |-> FALSE, edit |-> e]

-----------------------------------------------------------------------------
(* comparator.cc and dbformat.cc: keys.  The type takes one byte of the    *)
(* eight that follow a user key.                                           *)

kMaxSequenceNumber == 2^(Bits64 - ByteBits) - 1
kMaxByte == 2^ByteBits - 1

Compare(a, b) ==
    LET differ == {i \in DOMAIN a \cap DOMAIN b : a[i] # b[i]}
        first == LeastOf(differ)
    IN  IF differ # {} THEN a[first] - b[first] ELSE Len(a) - Len(b)

FindShortestSeparator(start, limit) ==
    LET differ == {i \in DOMAIN start \cap DOMAIN limit : start[i] # limit[i]}
        first == LeastOf(differ)
    IN  IF differ = {} \/ start[first] = kMaxByte \/ start[first] + 1 >= limit[first] THEN start
        ELSE Append(SubSeq(start, 1, first - 1), start[first] + 1)

FindShortSuccessor(key) ==
    LET smaller == {i \in DOMAIN key : key[i] # kMaxByte}
        first == LeastOf(smaller)
    IN  IF smaller = {} THEN key ELSE Append(SubSeq(key, 1, first - 1), key[first] + 1)

PackSequenceAndType(seq, t) == seq * 2^ByteBits + t
AppendInternalKey(user_key, seq, t) == user_key \o PutFixed(PackSequenceAndType(seq, t), Bits64)
ExtractUserKey(key) == SubSeq(key, 1, Len(key) - SequenceSize)
ExtractNumber(key) == DecodeFixed(SubSeq(key, Len(key) - SequenceSize + 1, Len(key)))

ParseInternalKey(key) ==
    [ok |-> Len(key) >= SequenceSize /\ ExtractNumber(key) % 2^ByteBits <= kTypeValue,
     user_key |-> ExtractUserKey(key),
     sequence |-> ExtractNumber(key) \div 2^ByteBits,
     type |-> ExtractNumber(key) % 2^ByteBits]

InternalCompare(a, b) ==
    LET r == Compare(ExtractUserKey(a), ExtractUserKey(b))
    IN  IF r # 0 THEN r ELSE ExtractNumber(b) - ExtractNumber(a)

\* A user key that became shorter and larger stands before all its entries.
Shortened(key, tmp) ==
    IF Len(tmp) < Len(ExtractUserKey(key)) /\ Compare(ExtractUserKey(key), tmp) < 0
    THEN AppendInternalKey(tmp, kMaxSequenceNumber, kTypeValue)
    ELSE key

InternalSeparator(start, limit) ==
    Shortened(start, FindShortestSeparator(ExtractUserKey(start), ExtractUserKey(limit)))
InternalSuccessor(key) == Shortened(key, FindShortSuccessor(ExtractUserKey(key)))

\* The key a memtable is searched with: a length, the user key and a number.
LookupKey(user_key, seq) ==
    PutVarint(Len(user_key) + SequenceSize) \o AppendInternalKey(user_key, seq, kTypeValue)

-----------------------------------------------------------------------------
(* filename.cc: a name is [base, digits, suffix], read from left to right. *)

MinDigits == 3                  \* 6
MaxDigits == 5                  \* 20
kMaxUint64 == 2^Bits64 - 1

Digits(number) ==
    LET n == LeastOf({k \in MinDigits..MaxDigits : number < 10^k})
    IN  [i \in 1..n |-> (number \div 10^(n - i)) % 10]

Name(base, digits, suffix) == [base |-> base, digits |-> digits, suffix |-> suffix]

MakeFileName(type, number) ==
    CASE type = "kLogFile" -> Name("", Digits(number), ".log")
      [] type = "kTableFile" -> Name("", Digits(number), ".ldb")
      [] type = "kTempFile" -> Name("", Digits(number), ".dbtmp")
      [] type = "kDescriptorFile" -> Name("MANIFEST-", Digits(number), "")
      [] type = "kCurrentFile" -> Name("CURRENT", <<>>, "")
      [] type = "kDBLockFile" -> Name("LOCK", <<>>, "")
      [] type = "kInfoLogFile" -> Name("LOG", <<>>, "")

\* A number that would overflow is refused before it does.
ConsumeDecimalNumber(digits) ==
    FoldLeft(LAMBDA got, d :
                 IF got.v > kMaxUint64 \div 10 \/ (got.v = kMaxUint64 \div 10 /\ d > kMaxUint64 % 10)
                 THEN [got EXCEPT !.ok = FALSE]
                 ELSE [got EXCEPT !.v = @ * 10 + d],
             [ok |-> digits # <<>>, v |-> 0], digits)

ParseFileName(name) ==
    LET number == ConsumeDecimalNumber(name.digits)
        type ==
            CASE name = Name("CURRENT", <<>>, "") -> "kCurrentFile"
              [] name = Name("LOCK", <<>>, "") -> "kDBLockFile"
              [] name \in {Name("LOG", <<>>, ""), Name("LOG", <<>>, ".old")} -> "kInfoLogFile"
              [] name.base = "MANIFEST-" /\ name.suffix = "" /\ number.ok -> "kDescriptorFile"
              [] name.base = "" /\ name.suffix = ".log" /\ number.ok -> "kLogFile"
              [] name.base = "" /\ name.suffix \in {".sst", ".ldb"} /\ number.ok -> "kTableFile"
              [] name.base = "" /\ name.suffix = ".dbtmp" /\ number.ok -> "kTempFile"
              [] OTHER -> "none"
    IN  [type |-> type, number |-> number.v]
=============================================================================
