------------------------------ MODULE MemTable ------------------------------
(***************************************************************************)
(* A memtable: entries of user keys and sequence numbers in a skip list.   *)
(* An internal key is a number in the order of InternalKeyComparator: user *)
(* keys up, sequence numbers down.  The writer of the store adds the       *)
(* entries of a batch and only then moves last_sequence_ on; readers look  *)
(* a user key up at a sequence number up to that.  An entry may be of a    *)
(* value or of a deletion, which Get tells apart when it has found it.     *)
(***************************************************************************)
EXTENDS SkipList, Sequences

CONSTANTS
    LastUserKey,                \* user keys are 1..LastUserKey
    MaxSeq,                     \* bound: sequence numbers
    BatchSize                   \* bound: entries of a batch

VARIABLES
    lastSequence,               \* VersionSet::last_sequence_
    batch,                      \* the entries of the batch that are still to be added
    lookup                      \* lookup[r]: what the reader looks for

memVars == <<lastSequence, batch, lookup>>

\* What the constants can be: all internal keys are keys.
MemParameters ==
    /\ ListParameters
    /\ LastUserKey \in Nat \ {0} /\ MaxSeq \in Nat /\ BatchSize \in Nat
    /\ Keys = 1..(LastUserKey * (MaxSeq + 1))

UserKeys == 1..LastUserKey
InternalKey(user, seq) == user * (MaxSeq + 1) - seq
UserKey(k) == (k + MaxSeq) \div (MaxSeq + 1)
NumberOf(k) == UserKey(k) * (MaxSeq + 1) - k

\* What a reader looks up that iterates.
NoLookup == [user |-> 0, seq |-> 0]

NoBatch == [seq |-> 0, left |-> <<>>]

MemInit ==
    /\ Init
    /\ lastSequence = 0
    /\ batch = NoBatch
    /\ lookup = [r \in Readers |-> NoLookup]

\* DBImpl::Write hands a batch over: its entries get the next sequence numbers.
BeginBatch(users) ==
    /\ batch = NoBatch /\ writer = Idle
    /\ lastSequence + Len(users) <= MaxSeq
    /\ batch' = [seq |-> lastSequence + 1, left |-> users]
    /\ UNCHANGED <<vars, lastSequence, lookup>>

\* MemTable::Add.
Add(height) ==
    /\ batch.left # <<>>
    /\ Insert(InternalKey(batch.left[1], batch.seq), height)
    /\ batch' = [seq |-> batch.seq + 1, left |-> Tail(batch.left)]
    /\ UNCHANGED <<lastSequence, lookup>>

\* The batch is in the memtable: SetLastSequence.
EndBatch ==
    /\ batch # NoBatch /\ batch.left = <<>> /\ writer = Idle
    /\ lastSequence' = batch.seq - 1
    /\ batch' = NoBatch
    /\ UNCHANGED <<vars, lookup>>

\* Mutant: a reader takes the number of the entry that is being added.
NumberInWork == IF batch = NoBatch THEN lastSequence ELSE batch.seq - 1

\* The newest sequence number a reader may take for its snapshot.
LastSequence == lastSequence

\* MemTable::Get begins with a seek for the newest entry of the user key that is not
\* newer than the snapshot.
Get(r, user, seq) ==
    /\ seq <= LastSequence
    /\ Seek(r, InternalKey(user, seq))
    /\ lookup' = [lookup EXCEPT ![r] = [user |-> user, seq |-> seq]]
    /\ UNCHANGED <<lastSequence, batch>>

\* MemTableIterator hands every call over to an iterator of the list.
Iterate(r) ==
    /\ \/ \E user \in UserKeys, seq \in 0..MaxSeq : Seek(r, InternalKey(user, seq))
       \/ SeekToLast(r) \/ Prev(r) \/ SeekToFirst(r) \/ Next1(r)
    /\ lookup' = [lookup EXCEPT ![r] = NoLookup]
    /\ UNCHANGED <<lastSequence, batch>>

SameUserKey(r) == reader[r].node # Null /\ UserKey(reader[r].node) = lookup[r].user

\* The number of the entry Get returns, a value's or a deletion's, if there is one.
Found(r) == IF SameUserKey(r) THEN {NumberOf(reader[r].node)} ELSE {}

MemNext ==
    \/ \E n \in 1..BatchSize : \E users \in [1..n -> UserKeys] : BeginBatch(users)
    \/ \E height \in 1..kMaxHeight : Add(height)
    \/ WriterStep /\ UNCHANGED memVars
    \/ EndBatch
    \/ \E r \in Readers : \/ \E user \in UserKeys, seq \in 0..MaxSeq : Get(r, user, seq)
                          \/ Iterate(r)
                          \/ Step(r) /\ UNCHANGED memVars

MemSpec == MemInit /\ [][MemNext]_<<vars, memVars>>

-----------------------------------------------------------------------------
\* The entries in the list, and those of a lookup's key that its snapshot sees.
Entries == Linked(0)
Sees(r) == {NumberOf(k) : k \in {x \in Entries : UserKey(x) = lookup[r].user /\ NumberOf(x) <= lookup[r].seq}}

(* A lookup that ended found the newest entry of its key up to its         *)
(* snapshot, although entries were added all around it while it searched,  *)
(* and nothing if there is none (memtable.cc:108-143).                     *)
GetIsExact ==
    \A r \in Readers : reader[r].op = "done" /\ lookup[r] # NoLookup =>
        Found(r) = IF Sees(r) = {} THEN {} ELSE {MaxOf(Sees(r))}

(* No entry is added at or below a sequence number that readers were told: *)
(* what a snapshot sees never changes (db_impl.cc:1232-1246).              *)
SnapshotStays ==
    \A r \in Readers : reader[r].op \notin {"none", "done"} /\ lookup'[r] = lookup[r] =>
            Sees(r)' = Sees(r)

(* The two of every step.                                                  *)
ReadsAreExact == [][GetIsExact /\ SnapshotStays]_<<vars, memVars>>
=============================================================================
