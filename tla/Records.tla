------------------------------ MODULE Records -------------------------------
(***************************************************************************)
(* Batches, edits, keys and names on their way: each is written, and read  *)
(* as it is, cut short or damaged.                                         *)
(***************************************************************************)
EXTENDS Formats

CONSTANTS
    Objects,                    \* [kind, v]: "batch", "edit", "keys" and "name"
    Damages                     \* what a damaged byte turns into

VARIABLES object, bytes, how, intact

vars == <<object, bytes, how, intact>>

kind == object.kind

WriteBatch(records) ==
    FoldLeft(LAMBDA rep, r : IF r.type = kTypeValue THEN BatchPut(rep, r.key, r.value) ELSE BatchDelete(rep, r.key),
             EmptyBatch, records)

\* A group of two batches, as the writer at the head of the queue builds it.
Group(batch) == SetSequence(BatchAppend(WriteBatch(batch.own), WriteBatch(batch.other)), batch.sequence)

Init ==
    /\ object \in Objects
    /\ bytes = <<>>
    /\ intact = 0
    /\ how = "new"

Write ==
    /\ how = "new"
    /\ how' = "written"
    /\ bytes' = CASE kind = "batch" -> Group(object.v)
                  [] kind = "edit" -> EncodeEdit(object.v)
                  [] kind = "keys" -> InternalSeparator(object.v.start, object.v.limit)
                  [] kind = "name" -> MakeFileName(object.v.type, object.v.number).digits
    /\ intact' = Len(bytes')
    /\ UNCHANGED object

Cut(n) ==
    /\ how = "written" /\ kind \in {"batch", "edit"}
    /\ how' = "cut"
    /\ bytes' = SubSeq(bytes, 1, n)
    /\ intact' = n
    /\ UNCHANGED object

Damage(i, b) ==
    /\ how = "written" /\ kind # "keys" /\ (kind = "name" => b < 10)
    /\ how' = "damaged"
    /\ bytes' = [bytes EXCEPT ![i] = b]
    /\ intact' = i - 1
    /\ UNCHANGED object

Next ==
    \/ Write
    \/ \E n \in 0..(Len(bytes) - 1) : Cut(n)
    \/ \E i \in DOMAIN bytes, b \in Damages : Damage(i, b)

Spec == Init /\ [][Next]_vars

\* Of a group of batches every record arrives, with the next sequence number
\* each.  One that lost its end is refused, and of one that is damaged the
\* records before the damage are as they were written.
BatchesComeBack ==
    LET records == object.v.own \o object.v.other
        EndOf(n) == Len(WriteBatch(SubSeq(records, 1, n)))
        whole == {n \in 0..Len(records) : EndOf(n) <= intact}
    IN  kind = "batch" /\ how # "new" =>
            /\ how = "written" => Iterate(bytes).ok
            /\ how = "cut" => ~Iterate(bytes).ok
            /\ \A n \in whole :
                    SubSeq(InsertInto(bytes), 1, n)
                        = [i \in 1..n |-> <<object.v.sequence + i - 1, records[i]>>]

\* An edit arrives as it was written.  What is read of a damaged one names
\* levels that exist, and one that was cut short is refused unless it ends
\* behind an entry, with nothing lost of what is left.
EditsComeBack ==
    LET got == DecodeEdit(bytes, NoEdit)
        levels ==
            {got.edit.compact_pointers[i][1] : i \in DOMAIN got.edit.compact_pointers}
                \cup {f[1] : f \in got.edit.deleted_files}
                \cup {got.edit.new_files[i][1] : i \in DOMAIN got.edit.new_files}
    IN  kind = "edit" /\ how # "new" =>
            /\ how = "written" => got = [ok |-> TRUE, edit |-> object.v]
            /\ how = "cut" /\ got.ok => EncodeEdit(got.edit) = bytes
            /\ levels \subseteq 0..(kNumLevels - 1)
            /\ got.ok => DecodeEdit(EncodeEdit(got.edit), NoEdit) = got

\* The key that stands for the end of a block is not before its last entry
\* and before the first of the next; the one of the last block is not before
\* its last entry; and keys parse as what they were made of.
SeparatorsSeparate ==
    LET start == object.v.start
        limit == object.v.limit
        user_start == ExtractUserKey(start)
        user_limit == ExtractUserKey(limit)
        parsed == ParseInternalKey(start)
        memtable_key == GetLengthPrefixedSlice(LookupKey(parsed.user_key, parsed.sequence))
    IN  kind = "keys" /\ how = "written" =>
            /\ InternalCompare(start, bytes) <= 0 /\ InternalCompare(bytes, limit) < 0
            /\ InternalCompare(start, InternalSuccessor(start)) <= 0
            /\ user_start # user_limit =>
                    LET sep == FindShortestSeparator(user_start, user_limit)
                    IN  Compare(user_start, sep) <= 0 /\ Compare(sep, user_limit) < 0
            /\ parsed.ok /\ AppendInternalKey(parsed.user_key, parsed.sequence, parsed.type) = start
            /\ memtable_key.v = AppendInternalKey(parsed.user_key, parsed.sequence, kTypeValue)

\* A file is found under its name with its type and its number; a number
\* that has no room is refused and never taken for another one.
NamesComeBack ==
    LET name == [MakeFileName(object.v.type, object.v.number) EXCEPT !.digits = bytes]
        value == FoldLeft(LAMBDA v, d : 10 * v + d, 0, bytes)
    IN  kind = "name" /\ how # "new" =>
            /\ how = "written" => ParseFileName(name) = object.v
            /\ ParseFileName(name).type # "none" => ParseFileName(name).number = value
            /\ value > kMaxUint64 => ParseFileName(name).type = "none"
=============================================================================
