--------------------------- MODULE MemTableProofs ---------------------------
(***************************************************************************)
(* A memtable for any keys, sequence numbers and batches: a lookup beside  *)
(* a writer finds what its snapshot sees, and the skip list is used as it  *)
(* must be.  And the arena its entries lie in: its pieces do not overlap,  *)
(* whatever their sizes, the size of a block and the alignment.            *)
(***************************************************************************)
EXTENDS MemTable, Arena, SkipListProofs, SequenceTheorems

-----------------------------------------------------------------------------
(* Internal keys as numbers.                                               *)

Width == MaxSeq + 1

\* The numbers in play; greater user keys lie at least Width apart.
LEMMA Widths ==
    ASSUME MemParameters
    PROVE  /\ Width \in Nat /\ Width > 0 /\ MaxSeq \in Nat /\ MaxSeq = Width - 1
           /\ LastUserKey \in Nat /\ LastUserKey > 0 /\ ListParameters
           /\ \A k \in Keys : k \in Nat /\ k > 0
           /\ \A u \in Nat : u * Width \in Nat
           /\ \A u, v \in Nat : u < v => u * Width + Width <= v * Width
<1>1. Width \in Nat /\ Width > 0 /\ MaxSeq \in Nat /\ MaxSeq = Width - 1
  BY DEF MemParameters, Width
<1>2. LastUserKey \in Nat /\ LastUserKey > 0 /\ ListParameters
  BY DEF MemParameters
<1>3. \A k \in Keys : k \in Nat /\ k > 0
  BY <1>2, KeysAreNumbers
<1>4. \A u \in Nat : u * Width \in Nat
  BY <1>1
<1>5. ASSUME NEW u \in Nat, NEW v \in Nat, u < v PROVE u * Width + Width <= v * Width
  <2>1. PICK d \in Nat : v = u + 1 + d
    <3>1. v - u - 1 \in Nat /\ v = u + 1 + (v - u - 1)
      BY <1>5
    <3> QED
      BY <3>1
  <2>2. v * Width = u * Width + Width + d * Width
    BY <1>1, <2>1
  <2>3. d * Width \in Nat
    BY <1>1
  <2> QED
    BY <1>1, <1>4, <2>2, <2>3
<1> QED
  BY <1>1, <1>2, <1>3, <1>4, <1>5

\* The user key of a number: the one whose numbers it is among.
LEMMA UserKeyIs ==
    ASSUME MemParameters, NEW k \in Nat, k > 0, NEW u \in Nat
    PROVE  /\ UserKey(k) \in Nat
           /\ UserKey(k) = u <=> k <= u * Width /\ u * Width < k + Width
           /\ NumberOf(k) \in 0..MaxSeq /\ NumberOf(k) = UserKey(k) * Width - k
<1> DEFINE v == UserKey(k)
<1>1. PICK w \in Nat : w = Width /\ w > 0 /\ MaxSeq = w - 1
  BY Widths
<1>2. v = (k + (w - 1)) \div w
  BY <1>1 DEF UserKey
<1>3. v \in Int /\ v * w <= k + (w - 1) /\ k + (w - 1) < v * w + w
  <2> DEFINE m == (k + (w - 1)) % w
  <2>1. k + (w - 1) \in Int
    BY <1>1
  <2>2. v \in Int /\ m \in Nat /\ m < w /\ k + (w - 1) = w * v + m
    BY <1>1, <1>2, <2>1
  <2> HIDE DEF v, m
  <2>3. w * v = v * w /\ v * w \in Int
    BY <1>1, <2>2
  <2> QED
    BY <1>1, <2>2, <2>3
<1>4. NumberOf(k) = v * w - k
  BY <1>1 DEF NumberOf, Width
<1> HIDE DEF v
<1>5. v \in Nat
  <2>1. v < 0 => v * w + w <= 0
    <3> SUFFICES ASSUME v < 0 PROVE v * w + w <= 0
      OBVIOUS
    <3>1. PICK d \in Nat : v = -1 - d
      <4>1. -1 - v \in Nat /\ v = -1 - (-1 - v)
        BY <1>3
      <4> QED
        BY <4>1
    <3>2. v * w = -w - d * w /\ d * w \in Nat
      BY <1>1, <3>1
    <3> QED
      BY <1>1, <3>2
  <2> QED
    BY <1>1, <1>3, <2>1
<1>6. v * w \in Nat
  BY <1>1, <1>5
<1>7. k <= v * w /\ v * w < k + w
  BY <1>1, <1>3, <1>6
<1>8. NumberOf(k) \in 0..MaxSeq
  BY <1>1, <1>4, <1>6, <1>7
<1>9. k <= u * w /\ u * w < k + w => v = u
  <2>1. u * w \in Nat
    BY <1>1
  <2>2. u < v => u * w + w <= v * w
    BY <1>1, <1>5, Widths
  <2>3. v < u => v * w + w <= u * w
    BY <1>1, <1>5, Widths
  <2> QED
    BY <1>1, <1>5, <1>6, <1>7, <2>1, <2>2, <2>3
<1> QED
  BY <1>1, <1>4, <1>5, <1>7, <1>8, <1>9 DEF v

\* An internal key is a key, and its number can be read off it.
LEMMA InternalKeyIs ==
    ASSUME MemParameters, NEW u \in UserKeys, NEW s \in 0..MaxSeq
    PROVE  /\ InternalKey(u, s) \in Keys /\ InternalKey(u, s) = u * Width - s
           /\ NumberOf(InternalKey(u, s)) = s
<1>1. PICK w \in Nat : w = Width /\ w > 0 /\ MaxSeq = w - 1
  BY Widths
<1>2. InternalKey(u, s) = u * w - s
  BY <1>1 DEF InternalKey, Width
<1>3. u \in Nat /\ u >= 1 /\ u <= LastUserKey /\ LastUserKey \in Nat /\ s \in Nat /\ s < w
  BY <1>1, Widths DEF UserKeys
<1>4. u * w \in Nat /\ LastUserKey * w \in Nat
  BY <1>1, <1>3
<1>5. w <= u * w
  <2>1. 0 < u => 0 * w + w <= u * w
    BY <1>1, <1>3, Widths
  <2> QED
    BY <1>1, <1>3, <2>1
<1>6. u * w <= LastUserKey * w
  <2>1. u < LastUserKey => u * w + w <= LastUserKey * w
    BY <1>1, <1>3, Widths
  <2> QED
    BY <1>1, <1>3, <1>4, <2>1
<1>7. u * w - s \in 1..(LastUserKey * w)
  BY <1>1, <1>3, <1>4, <1>5, <1>6
<1>8. InternalKey(u, s) \in Keys
  BY <1>1, <1>2, <1>7 DEF MemParameters, Width
<1>9. UserKey(u * w - s) = u
  <2>1. u * w - s \in Nat /\ u * w - s > 0
    BY <1>1, <1>3, <1>4, <1>5
  <2>2. u * w - s <= u * w /\ u * w < u * w - s + w
    BY <1>1, <1>3, <1>4
  <2> QED
    BY <1>1, <1>3, <2>1, <2>2, UserKeyIs
<1>10. NumberOf(u * w - s) = s
  BY <1>1, <1>3, <1>4, <1>9 DEF NumberOf, Width
<1> QED
  BY <1>1, <1>2, <1>8, <1>10

-----------------------------------------------------------------------------
(* The inductive invariant: what is being inserted is newer than all a     *)
(* reader may ask for, so that a lookup misses nothing its snapshot sees.  *)

memtableVars == <<vars, memVars>>

Lookups == [user : UserKeys, seq : 0..MaxSeq]

MemType ==
    /\ lastSequence \in Nat
    /\ batch \in [seq : Nat, left : Seq(UserKeys)]
    /\ lookup \in [Readers -> Lookups \cup {NoLookup}]

BatchInv == batch = NoBatch \/ (batch.seq > lastSequence /\ batch.seq + Len(batch.left) <= MaxSeq + 1)

NewerInv == writer # Idle => batch # NoBatch /\ NumberOf(writer.key) > lastSequence

\* Where a lookup begins, and what a search for it must not miss.
Sought(l) == InternalKey(l.user, l.seq)
Visible(l) == {k \in Stored(0) : NumberOf(k) <= l.seq}

LookupInv(s, l) == l # NoLookup =>
    /\ l.seq <= lastSequence
    /\ s.op \in {"none", "seek", "done"}
    /\ s.op = "seek" => s.target = Sought(l) /\ Visible(l) \subseteq s.before
    /\ s.op = "done" => s.node >= Sought(l) /\ \A k \in Visible(l) : k >= Sought(l) => s.node <= k

MemInv == IInv /\ MemType /\ BatchInv /\ NewerInv /\ \A r \in Readers : LookupInv(reader[r], lookup[r])

\* A step of the memtable is one of its list.
LEMMA MemSteps ==
    ASSUME MemParameters, MemInv, [MemNext]_memtableVars
    PROVE  [Next]_vars
<1>1. ASSUME NEW height \in 1..kMaxHeight, Add(height) PROVE Next
  <2>1. /\ batch.left # <<>> /\ batch.left \in Seq(UserKeys) /\ batch.seq \in Nat
        /\ Insert(InternalKey(batch.left[1], batch.seq), height)
    BY <1>1 DEF Add, MemInv, MemType
  <2>2. batch.left[1] \in UserKeys /\ Len(batch.left) \in Nat /\ Len(batch.left) >= 1
    BY <2>1
  <2>3. batch # NoBatch
    BY <2>1 DEF NoBatch
  <2>4. batch.seq \in 0..MaxSeq
    <3>1. batch.seq + Len(batch.left) <= MaxSeq + 1
      BY <2>3 DEF MemInv, BatchInv
    <3>2. MaxSeq \in Nat
      BY DEF MemParameters
    <3> QED
      BY <2>1, <2>2, <3>1, <3>2
  <2>5. InternalKey(batch.left[1], batch.seq) \in Keys
    BY <2>2, <2>4, InternalKeyIs
  <2> QED
    BY <2>1, <2>5 DEF Next
<1>2. ASSUME NEW r \in Readers, NEW user \in UserKeys, NEW seq \in 0..MaxSeq, Get(r, user, seq) PROVE Next
  <2>1. InternalKey(user, seq) \in Keys /\ Seek(r, InternalKey(user, seq))
    BY <1>2, InternalKeyIs DEF Get
  <2> QED
    BY <2>1 DEF Next
<1>3. ASSUME NEW r \in Readers, Step(r) PROVE Next
  BY <1>3 DEF Next
<1>8. ASSUME NEW r \in Readers, Iterate(r) PROVE Next
  <2>1. ASSUME NEW user \in UserKeys, NEW seq \in 0..MaxSeq, Seek(r, InternalKey(user, seq)) PROVE Next
    BY <2>1, InternalKeyIs DEF Next
  <2>2. CASE SeekToLast(r) \/ Prev(r) \/ SeekToFirst(r) \/ Next1(r)
    BY <2>2 DEF Next
  <2> QED
    BY <1>8, <2>1, <2>2 DEF Iterate
<1>4. ASSUME WriterStep PROVE Next
  BY <1>4 DEF Next
<1>5. ASSUME NEW n \in 1..BatchSize, NEW users \in [1..n -> UserKeys], BeginBatch(users) PROVE UNCHANGED vars
  BY <1>5 DEF BeginBatch
<1>6. CASE EndBatch
  BY <1>6 DEF EndBatch
<1>7. CASE UNCHANGED memtableVars
  BY <1>7 DEF memtableVars
<1> QED
  BY <1>1, <1>2, <1>3, <1>4, <1>5, <1>6, <1>7, <1>8 DEF MemNext

\* Only what the writer inserts is new in a list.
LEMMA StoredGrows ==
    ASSUME ListParameters, IInv, [Next]_vars
    PROVE  /\ Stored(0) \subseteq Stored(0)'
           /\ \A k \in Stored(0)' : k \in Stored(0) \/ (writer # Idle /\ k = writer.key)
<1>1. CASE Link
  BY <1>1, LinkKeeps, LevelsAreNumbers DEF Link
<1>2. CASE ~Link
  <2>1. next' = next
    BY <1>2 DEF Next, vars, Insert, WriterStep, StoreHeight, Seek, SeekToLast, Prev, Search, SeekToFirst, Next1, Step
  <2> QED
    BY <2>1 DEF Stored
<1> QED
  BY <1>1, <1>2

\* What a snapshot sees does not grow.
LEMMA VisibleStays ==
    ASSUME MemParameters, MemInv, [Next]_vars, NEW l \in Lookups, l.seq <= lastSequence
    PROVE  Visible(l)' = Visible(l)
<1>1. ListParameters /\ IInv /\ NewerInv /\ lastSequence \in Nat /\ l.seq \in Nat
  BY DEF MemParameters, MemInv, MemType, Lookups
<1>2. ASSUME writer # Idle PROVE ~(NumberOf(writer.key) <= l.seq)
  <2>1. writer.key \in Keys
    BY <1>1, <1>2 DEF IInv, TypeInv, Insertions
  <2>2. NumberOf(writer.key) \in Nat
    <3>1. writer.key \in Nat /\ writer.key > 0
      BY <2>1, Widths
    <3>2. NumberOf(writer.key) \in 0..MaxSeq
      BY <3>1, UserKeyIs
    <3> QED
      BY <3>2 DEF MemParameters
  <2> QED
    BY <1>1, <1>2, <2>2 DEF NewerInv
<1> QED
  BY <1>1, <1>2, StoredGrows DEF Visible

\* A lookup that is not touched stays right.
LEMMA LookupStays ==
    ASSUME MemParameters, MemInv, [Next]_vars, NEW r \in Readers,
           reader'[r] = reader[r], lookup'[r] = lookup[r], lastSequence' \in Nat, lastSequence <= lastSequence'
    PROVE  LookupInv(reader[r], lookup[r])'
<1> SUFFICES ASSUME lookup[r] # NoLookup PROVE LookupInv(reader[r], lookup[r])'
  BY DEF LookupInv
<1>1. PICK s : s = reader[r]
  OBVIOUS
<1>2. PICK l \in Lookups : l = lookup[r]
  BY DEF MemInv, MemType
<1>3. LookupInv(s, l) /\ l # NoLookup
  BY <1>1, <1>2 DEF MemInv
<1>4. Visible(l)' = Visible(l)
  BY <1>3, VisibleStays DEF LookupInv
<1>5. l.seq <= lastSequence'
  <2>1. l.seq \in Nat /\ lastSequence \in Nat /\ l.seq <= lastSequence
    BY <1>3 DEF LookupInv, Lookups, MemInv, MemType
  <2> QED
    BY <2>1
<1> QED
  BY <1>1, <1>2, <1>3, <1>4, <1>5 DEF LookupInv

\* Get begins where its snapshot says, and sees all its snapshot does.
LEMMA GetKeeps ==
    ASSUME MemParameters, MemInv, [Next]_vars, NEW r \in Readers, NEW user \in UserKeys, NEW seq \in 0..MaxSeq,
           Get(r, user, seq)
    PROVE  MemInv'
<1>1. /\ seq <= lastSequence /\ Search(r, "seek", InternalKey(user, seq))
      /\ lookup' = [lookup EXCEPT ![r] = [user |-> user, seq |-> seq]]
      /\ lastSequence' = lastSequence /\ batch' = batch
      /\ next' = next /\ writer' = writer
  BY DEF Get, LastSequence, Seek, Search
<1>2. IInv' /\ ListParameters
  BY NextKeeps DEF MemParameters, MemInv
<1>3. /\ lookup \in [Readers -> Lookups \cup {NoLookup}] /\ reader \in [Readers -> Searches] /\ lastSequence \in Nat
  BY DEF MemInv, MemType, IInv, TypeInv
<1>4. MemType'
  <2>1. [user |-> user, seq |-> seq] \in Lookups
    BY DEF Lookups
  <2> QED
    BY <1>1, <1>3, <2>1 DEF MemInv, MemType
<1>5. BatchInv' /\ NewerInv'
  BY <1>1 DEF MemInv, BatchInv, NewerInv, NumberOf, UserKey
<1>6. PICK l : l = [user |-> user, seq |-> seq]
  OBVIOUS
<1>7. PICK s : reader' = [reader EXCEPT ![r] = s] /\ s.op = "seek" /\ s.target = InternalKey(user, seq) /\ s.before = Linked(0)
  <2>1. PICK h \in heights :
            reader' = [reader EXCEPT ![r] = [op |-> "seek", target |-> InternalKey(user, seq), x |-> HeadNode, level |-> h - 1,
                                             node |-> reader[r].node, before |-> Linked(0)]]
    BY <1>1 DEF Search
  <2>2. PICK s : s = [op |-> "seek", target |-> InternalKey(user, seq), x |-> HeadNode, level |-> h - 1,
                      node |-> reader[r].node, before |-> Linked(0)]
    OBVIOUS
  <2>3. reader' = [reader EXCEPT ![r] = s]
    BY <2>1, <2>2
  <2>4. s.op = "seek" /\ s.target = InternalKey(user, seq) /\ s.before = Linked(0)
    BY <2>2
  <2> QED
    BY <2>3, <2>4
<1>8. Linked(0) = Stored(0)
  BY <1>2, LinkedIsStored, LevelsAreNumbers DEF MemInv, IInv
<1>9. ASSUME NEW o \in Readers PROVE LookupInv(reader[o], lookup[o])'
  <2>1. CASE o = r
    <3>1. reader'[o] = s /\ lookup'[o] = l
      BY <1>1, <1>3, <1>6, <1>7, <2>1
    <3>2. Visible(l)' \subseteq s.before
      BY <1>1, <1>7, <1>8 DEF Visible, Stored
    <3>3. s.target = Sought(l) /\ l.seq = seq
      BY <1>6, <1>7 DEF Sought
    <3> QED
      BY <1>1, <1>7, <3>1, <3>2, <3>3 DEF LookupInv
  <2>2. CASE o # r
    <3>1. reader'[o] = reader[o] /\ lookup'[o] = lookup[o]
      BY <1>1, <1>3, <1>7, <2>2
    <3> QED
      BY <1>1, <1>3, <3>1, LookupStays
  <2> QED
    BY <2>1, <2>2
<1> QED
  BY <1>2, <1>4, <1>5, <1>9 DEF MemInv

\* A search goes on for its target, or ends.
LEMMA StepIs ==
    ASSUME IInv, NEW r \in Readers, Step(r)
    PROVE  /\ \A o \in Readers : o # r => reader'[o] = reader[o]
           /\ reader[r].op \notin {"none", "done"}
           /\ \/ reader'[r].op = reader[r].op /\ reader'[r].target = reader[r].target /\ reader'[r].before = reader[r].before
              \/ reader'[r].op = "done"
<1>1. reader \in [Readers -> Searches]
  BY DEF IInv, TypeInv
<1> QED
  BY <1>1 DEF Step, Done, Searches

\* A lookup goes on, or ends where it should.
LEMMA MemStepKeeps ==
    ASSUME MemParameters, MemInv, [Next]_vars, NEW r \in Readers, Step(r), UNCHANGED memVars
    PROVE  MemInv'
<1>1. /\ lookup' = lookup /\ lastSequence' = lastSequence /\ batch' = batch
      /\ next' = next /\ writer' = writer
  BY DEF memVars, Step
<1>2. IInv /\ IInv' /\ ListParameters /\ lastSequence \in Nat
  BY NextKeeps DEF MemParameters, MemInv, MemType
<1>3. MemType' /\ BatchInv' /\ NewerInv'
  BY <1>1 DEF MemInv, MemType, BatchInv, NewerInv, NumberOf, UserKey
<1>12. CASE lookup[r] = NoLookup
  <2>1. ASSUME NEW o \in Readers PROVE LookupInv(reader[o], lookup[o])'
    <3>1. CASE o = r
      BY <1>1, <1>12, <3>1 DEF LookupInv
    <3>2. CASE o # r
      <4>1. reader'[o] = reader[o]
        BY <1>2, <3>2, StepIs
      <4> QED
        BY <1>1, <1>2, <4>1, LookupStays
    <3> QED
      BY <3>1, <3>2
  <2> QED
    BY <1>2, <1>3, <2>1 DEF MemInv
<1> SUFFICES ASSUME lookup[r] # NoLookup PROVE MemInv'
  BY <1>12
<1>4. PICK l \in Lookups : l = lookup[r] /\ l # NoLookup
  BY DEF MemInv, MemType
<1>5. LookupInv(reader[r], l)
  <2>1. LookupInv(reader[r], lookup[r])
    BY DEF MemInv
  <2> QED
    BY <1>4, <2>1
<1>6. Visible(l)' = Visible(l)
  BY <1>4, <1>5, VisibleStays DEF LookupInv
<1>7. reader[r].op = "seek" /\ reader[r].target = Sought(l) /\ Visible(l) \subseteq reader[r].before /\ l.seq <= lastSequence
  BY <1>2, <1>4, <1>5, StepIs DEF LookupInv
<1>8. PICK s : s = reader'[r]
  OBVIOUS
<1>9. /\ s.op \in {"seek", "done"}
      /\ s.op = "seek" => s.target = Sought(l) /\ Visible(l) \subseteq s.before
      /\ s.op = "done" => s.node >= Sought(l) /\ \A k \in Visible(l) : k >= Sought(l) => s.node <= k
  <2>1. CASE s.op = "done"
    <3>1. SearchIsRight
      BY <1>2, SearchEndsRight
    <3>2. s.node >= reader[r].target /\ \A k \in reader[r].before : k >= reader[r].target => s.node <= k
      BY <1>7, <1>8, <2>1, <3>1 DEF SearchIsRight
    <3> QED
      BY <1>7, <2>1, <3>2
  <2>2. CASE s.op # "done"
    BY <1>2, <1>7, <1>8, <2>2, StepIs
  <2> QED
    BY <2>1, <2>2
<1>10. LookupInv(reader[r], lookup[r])'
  BY <1>1, <1>4, <1>6, <1>7, <1>8, <1>9 DEF LookupInv
<1>11. ASSUME NEW o \in Readers, o # r PROVE LookupInv(reader[o], lookup[o])'
  <2>1. reader'[o] = reader[o]
    BY <1>2, <1>11, StepIs
  <2> QED
    BY <1>1, <1>2, <2>1, LookupStays
<1> QED
  BY <1>2, <1>3, <1>10, <1>11 DEF MemInv

\* An iterator is moved: the others search on.
LEMMA IterateKeeps ==
    ASSUME MemParameters, MemInv, [Next]_vars, NEW r \in Readers, Iterate(r)
    PROVE  MemInv'
<1>1. /\ lookup' = [lookup EXCEPT ![r] = NoLookup] /\ lastSequence' = lastSequence /\ batch' = batch
      /\ next' = next /\ writer' = writer
  BY DEF Iterate, Seek, SeekToLast, Prev, SeekToFirst, Next1, Search
<1>2. IInv' /\ reader \in [Readers -> Searches]
  BY NextKeeps DEF MemParameters, MemInv, IInv, TypeInv
<1>3. lookup \in [Readers -> Lookups \cup {NoLookup}] /\ lastSequence \in Nat
  BY DEF MemInv, MemType
<1>4. MemType'
  BY <1>1, <1>3 DEF MemInv, MemType
<1>5. BatchInv' /\ NewerInv'
  BY <1>1 DEF MemInv, BatchInv, NewerInv, NumberOf, UserKey
<1>6. ASSUME NEW o \in Readers PROVE LookupInv(reader[o], lookup[o])'
  <2>1. CASE o = r
    BY <1>1, <1>3, <2>1 DEF LookupInv
  <2>2. CASE o # r
    <3>1. reader'[o] = reader[o]
      <4>1. CASE SeekToFirst(r) \/ Next1(r)
        BY <1>2, <2>2, <4>1 DEF SeekToFirst, Next1, Done
      <4>2. ASSUME NEW op, NEW target, Search(r, op, target) PROVE reader'[o] = reader[o]
        BY <1>2, <2>2, <4>2 DEF Search
      <4> QED
        BY <4>1, <4>2 DEF Iterate, Seek, SeekToLast, Prev
    <3>2. lookup'[o] = lookup[o]
      BY <1>1, <1>3, <2>2
    <3> QED
      BY <1>1, <1>3, <3>1, <3>2, LookupStays
  <2> QED
    BY <2>1, <2>2
<1> QED
  BY <1>2, <1>4, <1>5, <1>6 DEF MemInv

\* What the writer does: a batch begins and ends, its entries are inserted.
LEMMA WriterKeeps ==
    ASSUME MemParameters, MemInv, [Next]_vars, reader' = reader, lookup' = lookup,
           lastSequence' \in Nat, lastSequence <= lastSequence',
           batch' \in [seq : Nat, left : Seq(UserKeys)], BatchInv', NewerInv'
    PROVE  MemInv'
<1>1. IInv'
  BY NextKeeps DEF MemParameters, MemInv
<1>2. MemType'
  BY DEF MemInv, MemType
<1>3. ASSUME NEW r \in Readers PROVE LookupInv(reader[r], lookup[r])'
  BY LookupStays
<1> QED
  BY <1>1, <1>2, <1>3 DEF MemInv

\* Every step of a memtable keeps the invariant.
LEMMA MemNextKeeps ==
    ASSUME MemParameters, MemInv, [MemNext]_memtableVars
    PROVE  MemInv'
<1>1. [Next]_vars
  BY MemSteps
<1>2. /\ lastSequence \in Nat /\ batch \in [seq : Nat, left : Seq(UserKeys)] /\ MaxSeq \in Nat
      /\ lookup \in [Readers -> Lookups \cup {NoLookup}]
      /\ BatchInv /\ NewerInv
  BY DEF MemInv, MemType, MemParameters
<1>3. ASSUME NEW n \in 1..BatchSize, NEW users \in [1..n -> UserKeys], BeginBatch(users) PROVE MemInv'
  <2>1. /\ batch = NoBatch /\ writer = Idle /\ lastSequence + Len(users) <= MaxSeq
        /\ batch' = [seq |-> lastSequence + 1, left |-> users]
        /\ vars' = vars /\ lastSequence' = lastSequence /\ lookup' = lookup
    BY <1>3 DEF BeginBatch
  <2>2. users \in Seq(UserKeys) /\ Len(users) \in Nat
    BY DEF MemParameters
  <2>3. batch'.seq = lastSequence + 1 /\ batch'.left = users /\ batch' \in [seq : Nat, left : Seq(UserKeys)]
    BY <1>2, <2>1, <2>2
  <2>4. BatchInv'
    BY <1>2, <2>1, <2>2, <2>3 DEF BatchInv
  <2>5. reader' = reader /\ writer' = writer /\ NewerInv'
    BY <2>1 DEF vars, NewerInv
  <2> QED
    BY <1>1, <1>2, <2>1, <2>3, <2>4, <2>5, WriterKeeps
<1>4. ASSUME NEW height \in 1..kMaxHeight, Add(height) PROVE MemInv'
  <2>1. /\ batch.left # <<>> /\ Insert(InternalKey(batch.left[1], batch.seq), height)
        /\ batch' = [seq |-> batch.seq + 1, left |-> Tail(batch.left)]
        /\ lastSequence' = lastSequence /\ lookup' = lookup /\ reader' = reader
        /\ writer'.key = InternalKey(batch.left[1], batch.seq)
    BY <1>4 DEF Add, Insert
  <2>2. batch.left \in Seq(UserKeys) /\ batch.seq \in Nat
    BY <1>2
  <2>3. /\ batch.left[1] \in UserKeys /\ Len(batch.left) \in Nat /\ Len(batch.left) >= 1
        /\ Tail(batch.left) \in Seq(UserKeys) /\ Len(Tail(batch.left)) = Len(batch.left) - 1
    BY <2>1, <2>2
  <2>4. batch.seq > lastSequence /\ batch.seq + Len(batch.left) <= MaxSeq + 1
    BY <1>2, <2>1 DEF BatchInv, NoBatch
  <2>5. batch'.seq = batch.seq + 1 /\ batch'.left = Tail(batch.left) /\ batch' \in [seq : Nat, left : Seq(UserKeys)]
    BY <2>1, <2>2, <2>3
  <2>6. BatchInv'
    BY <1>2, <2>1, <2>2, <2>3, <2>4, <2>5 DEF BatchInv
  <2>7. NumberOf(InternalKey(batch.left[1], batch.seq)) = batch.seq
    BY <1>2, <2>2, <2>3, <2>4, InternalKeyIs
  <2>8. NumberOf(writer.key)' > lastSequence'
    BY <2>1, <2>4, <2>7 DEF NumberOf, UserKey
  <2>9. batch' # NoBatch
    BY <2>2, <2>5 DEF NoBatch
  <2> QED
    BY <1>1, <1>2, <2>1, <2>5, <2>6, <2>8, <2>9, WriterKeeps DEF NewerInv
<1>5. CASE WriterStep /\ UNCHANGED memVars
  <2>1. lastSequence' = lastSequence /\ batch' = batch /\ lookup' = lookup /\ reader' = reader
    BY <1>5 DEF memVars, WriterStep, StoreHeight, Link
  <2>2. BatchInv'
    BY <1>2, <2>1 DEF BatchInv
  <2>3. writer # Idle /\ (writer' = Idle \/ writer'.key = writer.key)
    <3>1. CASE StoreHeight
      BY <3>1 DEF StoreHeight
    <3>2. CASE Link
      BY <3>2 DEF Link, MemInv, IInv, TypeInv, Insertions
    <3> QED
      BY <1>5, <3>1, <3>2 DEF WriterStep
  <2>4. NewerInv'
    BY <1>2, <2>1, <2>3 DEF NewerInv, NumberOf, UserKey
  <2> QED
    BY <1>1, <1>2, <2>1, <2>2, <2>4, WriterKeeps
<1>6. CASE EndBatch
  <2>1. /\ batch # NoBatch /\ batch.left = <<>> /\ writer = Idle
        /\ lastSequence' = batch.seq - 1 /\ batch' = NoBatch
        /\ vars' = vars /\ lookup' = lookup
    BY <1>6 DEF EndBatch
  <2>2. batch.seq \in Nat /\ batch.seq > lastSequence
    BY <1>2, <2>1 DEF BatchInv
  <2>3. lastSequence' \in Nat /\ lastSequence <= lastSequence'
    BY <1>2, <2>1, <2>2
  <2>4. batch' \in [seq : Nat, left : Seq(UserKeys)] /\ BatchInv'
    BY <2>1 DEF NoBatch, BatchInv
  <2>5. reader' = reader /\ NewerInv'
    BY <2>1 DEF vars, NewerInv
  <2> QED
    BY <1>1, <2>1, <2>3, <2>4, <2>5, WriterKeeps
<1>7. ASSUME NEW r \in Readers, NEW user \in UserKeys, NEW seq \in 0..MaxSeq, Get(r, user, seq) PROVE MemInv'
  BY <1>1, <1>7, GetKeeps
<1>8. ASSUME NEW r \in Readers, Step(r), UNCHANGED memVars PROVE MemInv'
  BY <1>1, <1>8, MemStepKeeps
<1>10. ASSUME NEW r \in Readers, Iterate(r) PROVE MemInv'
  BY <1>1, <1>10, IterateKeeps
<1>9. CASE UNCHANGED memtableVars
  <2>1. /\ lastSequence' = lastSequence /\ batch' = batch /\ lookup' = lookup /\ reader' = reader /\ writer' = writer
    BY <1>9 DEF memtableVars, memVars, vars
  <2>2. BatchInv' /\ NewerInv'
    BY <1>2, <2>1 DEF BatchInv, NewerInv, NumberOf, UserKey
  <2> QED
    BY <1>1, <1>2, <2>1, <2>2, WriterKeeps
<1> QED
  BY <1>3, <1>4, <1>5, <1>6, <1>7, <1>8, <1>9, <1>10 DEF MemNext

\* It holds at first.
LEMMA MemInitInv ==
    ASSUME MemParameters, MemInit
    PROVE  MemInv
<1>1. ListParameters
  BY Widths
<1>2. IInv
  BY <1>1, InitInv DEF MemInit
<1>3. MemType
  <2>1. NoBatch \in [seq : Nat, left : Seq(UserKeys)]
    BY DEF NoBatch
  <2> QED
    BY <2>1 DEF MemInit, MemType
<1>4. BatchInv /\ NewerInv
  BY DEF MemInit, Init, BatchInv, NewerInv
<1>5. ASSUME NEW r \in Readers PROVE LookupInv(reader[r], lookup[r])
  BY DEF MemInit, LookupInv
<1> QED
  BY <1>2, <1>3, <1>4, <1>5 DEF MemInv

-----------------------------------------------------------------------------
(* The properties.                                                         *)

\* The entries a lookup may find are those from where it begins to the last of
\* its user key.
LEMMA SeenAre ==
    ASSUME MemParameters, MemInv, NEW r \in Readers, lookup[r] # NoLookup, NEW k \in Stored(0)
    PROVE  /\ k \in Nat /\ NumberOf(k) \in Nat /\ Sought(lookup[r]) \in Nat
           /\ UserKey(k) = lookup[r].user =>
                 /\ NumberOf(k) = lookup[r].user * Width - k
                 /\ NumberOf(k) <= lookup[r].seq <=> k >= Sought(lookup[r])
           /\ \A n \in Stored(0) :
                 UserKey(k) = lookup[r].user /\ n <= k /\ n >= Sought(lookup[r]) => UserKey(n) = lookup[r].user
<1>1. PICK l \in Lookups : l = lookup[r]
  BY DEF MemInv, MemType
<1>2. l.user \in UserKeys /\ l.seq \in 0..MaxSeq
  BY DEF Lookups
<1>3. PICK w \in Nat : w = Width /\ w > 0 /\ MaxSeq = w - 1
  BY Widths
<1>4. l.user \in Nat /\ l.user * w \in Nat
  BY <1>2, <1>3 DEF UserKeys
<1>5. Sought(l) = l.user * w - l.seq /\ Sought(l) \in Keys
  BY <1>2, <1>3, InternalKeyIs DEF Sought
<1>6. Sought(l) \in Nat
  BY <1>5, Widths
<1>7. ASSUME NEW n \in Stored(0)
      PROVE  /\ n \in Nat /\ n > 0 /\ NumberOf(n) \in Nat
             /\ NumberOf(n) = UserKey(n) * w - n
             /\ UserKey(n) = l.user <=> n <= l.user * w /\ l.user * w < n + w
  <2>1. n \in Nat /\ n > 0
    BY Widths DEF Stored
  <2> QED
    BY <1>3, <1>4, <2>1, UserKeyIs
<1>8. UserKey(k) = l.user => (NumberOf(k) <= l.seq <=> k >= Sought(l))
  <2> SUFFICES ASSUME UserKey(k) = l.user PROVE NumberOf(k) <= l.seq <=> k >= Sought(l)
    OBVIOUS
  <2>1. NumberOf(k) = l.user * w - k /\ k \in Nat
    BY <1>7
  <2>2. PICK p \in Nat : p = l.user * w
    BY <1>4
  <2> QED
    BY <1>2, <1>3, <1>5, <2>1, <2>2
<1>9. ASSUME NEW n \in Stored(0), UserKey(k) = l.user, n <= k, n >= Sought(l) PROVE UserKey(n) = l.user
  <2>1. PICK p \in Nat : p = l.user * w
    BY <1>4
  <2>2. k <= p /\ n \in Nat /\ k \in Nat
    BY <1>7, <1>9, <2>1
  <2>3. n <= p /\ p < n + w
    BY <1>2, <1>3, <1>5, <1>9, <2>1, <2>2
  <2> QED
    BY <1>7, <2>1, <2>3
<1> QED
  BY <1>1, <1>3, <1>6, <1>7, <1>8, <1>9

\* Sees is what the seek must not miss.
LEMMA GetExact ==
    ASSUME MemParameters, MemInv
    PROVE  GetIsExact
<1> SUFFICES ASSUME NEW r \in Readers, reader[r].op = "done", lookup[r] # NoLookup
             PROVE  Found(r) = IF Sees(r) = {} THEN {} ELSE {MaxOf(Sees(r))}
  BY DEF GetIsExact
<1>1. ListParameters /\ IInv /\ MaxSeq \in Nat
  BY DEF MemParameters, MemInv
<1>2. Linked(0) = Stored(0)
  BY <1>1, LinkedIsStored, LevelsAreNumbers DEF IInv
<1> DEFINE node == reader[r].node
           l == lookup[r]
           E == {x \in Stored(0) : UserKey(x) = l.user /\ NumberOf(x) <= l.seq}
<1>3. Sees(r) = {NumberOf(k) : k \in E}
  BY <1>2 DEF Sees, Entries
<1>4. node \in Stored(0) \cup {Null} /\ node >= Sought(l) /\ \A k \in Visible(l) : k >= Sought(l) => node <= k
  BY DEF MemInv, LookupInv, IInv, SearchInv
<1>5. Null \notin Stored(0) /\ \A k \in Stored(0) : k < Null /\ Null \in Nat
  BY <1>1, KeysAreNumbers
<1>6. CASE E = {}
  <2>1. ~SameUserKey(r)
    <3> SUFFICES ASSUME SameUserKey(r) PROVE FALSE
      OBVIOUS
    <3>1. node \in Stored(0) /\ UserKey(node) = l.user
      BY <1>4 DEF SameUserKey
    <3>2. NumberOf(node) <= l.seq
      BY <1>4, <3>1, SeenAre
    <3> QED
      BY <1>6, <3>1, <3>2
  <2> QED
    BY <1>3, <1>6, <2>1 DEF Found
<1>7. CASE E # {}
  <2>1. ASSUME NEW k \in E PROVE node \in E /\ NumberOf(k) <= NumberOf(node)
    <3>1. k \in Stored(0) /\ UserKey(k) = l.user /\ k >= Sought(l) /\ k \in Nat
      BY <2>1, SeenAre
    <3>2. node <= k
      BY <1>4, <2>1, <3>1 DEF Visible
    <3>3. node \in Stored(0)
      BY <1>4, <1>5, <3>1, <3>2
    <3>4. UserKey(node) = l.user /\ node \in Nat
      BY <1>4, <3>1, <3>2, <3>3, SeenAre
    <3>5. /\ NumberOf(node) <= l.seq /\ NumberOf(node) = l.user * Width - node /\ NumberOf(k) = l.user * Width - k
          /\ NumberOf(k) \in Nat /\ NumberOf(node) \in Nat
      BY <1>4, <3>1, <3>3, <3>4, SeenAre
    <3>6. l.user * Width \in Nat
      <4>1. l.user \in Nat
        <5>1. PICK x \in Lookups : x = l
          BY DEF MemInv, MemType
        <5> QED
          BY <5>1 DEF Lookups, UserKeys
      <4> QED
        BY <4>1, Widths
    <3>7. NumberOf(k) <= NumberOf(node)
      BY <3>1, <3>2, <3>4, <3>5, <3>6
    <3> QED
      BY <3>3, <3>4, <3>5, <3>7
  <2>2. node \in E
    BY <1>7, <2>1
  <2>3. Found(r) = {NumberOf(node)}
    BY <1>5, <2>2 DEF Found, SameUserKey
  <2>4. Sees(r) \in SUBSET (0..MaxSeq) /\ NumberOf(node) \in Sees(r)
    <3>1. ASSUME NEW k \in E PROVE NumberOf(k) \in 0..MaxSeq
      <4>1. k \in Nat /\ k > 0
        BY Widths DEF Stored
      <4> QED
        BY <4>1, UserKeyIs
    <3> QED
      BY <1>3, <2>2, <3>1
  <2>5. \A s \in Sees(r) : s <= NumberOf(node)
    BY <1>3, <2>1
  <2>6. MaxOf(Sees(r)) \in Sees(r) /\ \A s \in Sees(r) : s <= MaxOf(Sees(r))
    BY <1>1, <2>4, MaxOfIs
  <2>7. MaxOf(Sees(r)) = NumberOf(node)
    BY <1>1, <2>4, <2>5, <2>6
  <2> QED
    BY <2>3, <2>4, <2>7
<1> QED
  BY <1>6, <1>7

\* Entries are those that are stored.
EntriesInv == Linked(0) = Stored(0)

\* The invariant says so.
LEMMA EntriesAreStored ==
    ASSUME MemParameters, MemInv
    PROVE  EntriesInv
BY LinkedIsStored, LevelsAreNumbers DEF MemParameters, MemInv, IInv, EntriesInv

\* What a snapshot sees never changes.
LEMMA SeesStays ==
    ASSUME MemParameters, MemInv, EntriesInv, EntriesInv', [MemNext]_memtableVars
    PROVE  SnapshotStays
<1> SUFFICES ASSUME NEW r \in Readers, lookup'[r] = lookup[r]
             PROVE  Sees(r)' = Sees(r)
  BY DEF SnapshotStays
<1>1. MemInv' /\ [Next]_vars /\ ListParameters
  BY MemNextKeeps, MemSteps DEF MemParameters
<1>7. CASE lookup[r] = NoLookup
  <2>1. \A k \in Keys : UserKey(k) # 0
    <3>1. 0 * Width = 0
      BY Widths
    <3> QED
      BY <3>1, Widths, UserKeyIs
  <2>2. Sees(r) = {}
    BY <1>7, <2>1 DEF Sees, Entries, NoLookup, EntriesInv, Stored
  <2>3. Sees(r)' = {}
    BY <1>7, <2>1 DEF Sees, Entries, NoLookup, EntriesInv, Stored, NumberOf, UserKey
  <2> QED
    BY <2>2, <2>3
<1> SUFFICES ASSUME lookup[r] # NoLookup PROVE Sees(r)' = Sees(r)
  BY <1>7
<1>2. PICK l \in Lookups : l = lookup[r] /\ l # NoLookup
  BY DEF MemInv, MemType
<1>3. Visible(l)' = Visible(l)
  <2>1. l.seq <= lastSequence
    BY <1>2 DEF MemInv, LookupInv
  <2> QED
    BY <1>1, <2>1, VisibleStays
<1>4. Linked(0) = Stored(0) /\ Linked(0)' = Stored(0)'
  BY DEF EntriesInv
<1>5. Sees(r) = {NumberOf(k) : k \in {x \in Visible(l) : UserKey(x) = l.user}}
  BY <1>2, <1>4 DEF Sees, Entries, Visible
<1>6. Sees(r)' = {NumberOf(k) : k \in {x \in Visible(l)' : UserKey(x) = l.user}}
  BY <1>2, <1>4 DEF Sees, Entries, Visible, NumberOf, UserKey
<1> QED
  BY <1>3, <1>5, <1>6

\* The invariant holds in every state of a memtable.
THEOREM MemTableIsSound ==
    ASSUME MemParameters
    PROVE  MemSpec => []MemInv
<1>1. MemInit => MemInv
  BY MemInitInv
<1>2. MemInv /\ [MemNext]_memtableVars => MemInv'
  BY MemNextKeeps
<1> QED
  BY <1>1, <1>2, PTL DEF MemSpec, memtableVars

\* A lookup that ended found the newest entry of its key up to its snapshot,
\* though entries were added all around it while it searched, and what a
\* snapshot sees never changes (ReadsAreExact of MemTable, memtable.cc:108-143,
\* db_impl.cc:1232-1246).
THEOREM GetsAreExact ==
    ASSUME MemParameters
    PROVE  MemSpec => ReadsAreExact
<1>1. MemInv => EntriesInv
  BY EntriesAreStored
<1>2. MemInv /\ EntriesInv /\ EntriesInv' /\ [MemNext]_memtableVars => [GetIsExact /\ SnapshotStays]_memtableVars
  BY GetExact, SeesStays
<1> QED
  BY <1>1, <1>2, MemTableIsSound, PTL DEF MemSpec, ReadsAreExact, memtableVars

\* A memtable uses its list as the list allows: every step of it is one of the
\* list or none.
THEOREM MemTableUsesTheList ==
    ASSUME MemParameters
    PROVE  MemSpec => Spec
<1>1. MemInit => Init
  BY DEF MemInit
<1>2. MemInv /\ [MemNext]_memtableVars => [Next]_vars
  BY MemSteps
<1> QED
  BY <1>1, <1>2, MemTableIsSound, PTL DEF MemSpec, Spec, memtableVars

-----------------------------------------------------------------------------
(* The arena.  Its inductive invariant: what was given out of the current  *)
(* block lies before alloc_ptr_, and what remains of it behind.            *)

PieceSet == [block : Nat, offset : Nat, bytes : Nat, aligned : BOOLEAN]

ArenaType ==
    /\ blocks \in Seq(Nat) /\ pieces \in Seq(PieceSet)
    /\ current \in 0..Len(blocks) /\ ptr \in Nat /\ remaining \in Nat

CurrentInv ==
    /\ current = 0 => ptr = 0 /\ remaining = 0
    /\ current # 0 => ptr + remaining = blocks[current]

\* A piece where it belongs.
Placed(piece) ==
    /\ piece.block \in 1..Len(blocks)
    /\ piece.offset + piece.bytes <= blocks[piece.block]
    /\ piece.block = current => piece.offset + piece.bytes <= ptr
    /\ piece.aligned => piece.offset % Align = 0

Apart ==
    \A i, j \in DOMAIN pieces :
        i < j /\ pieces[i].block = pieces[j].block => pieces[i].offset + pieces[i].bytes <= pieces[j].offset

ArenaInv == ArenaType /\ CurrentInv /\ (\A i \in DOMAIN pieces : Placed(pieces[i])) /\ Apart

-----------------------------------------------------------------------------
\* The bytes that are skipped lead to an aligned place.
LEMMA SlopAligns ==
    ASSUME ArenaParameters, NEW p \in Nat
    PROVE  Slop(p) \in Nat /\ (p + Slop(p)) % Align = 0
<1>1. Align \in Nat /\ Align > 0
  BY DEF ArenaParameters
<1> DEFINE q == (-p) \div Align
           r == (-p) % Align
<1>2. q \in Int /\ r \in Nat /\ -p = Align * q + r
  BY <1>1
<1>3. p + r = Align * (-q)
  BY <1>1, <1>2
<1>4. (Align * (-q)) % Align = 0
  <2> DEFINE x == Align * (-q)
             d == x \div Align
             m == x % Align
  <2>0. x \in Int /\ -q \in Int
    BY <1>1, <1>2
  <2> HIDE DEF x
  <2>1. d \in Int /\ m \in Nat /\ m < Align /\ x = Align * d + m
    BY <1>1, <2>0
  <2>2. PICK k \in Int : k = (-q) - d
    BY <1>2, <2>1
  <2> HIDE DEF m, d, q
  <2>3. m = Align * k
    BY <1>1, <2>0, <2>1, <2>2 DEF x
  <2>4. k >= 1 => Align * k >= Align
    BY <1>1, <2>2
  <2>5. k <= -1 => Align * k <= -Align
    BY <1>1, <2>2
  <2>6. k = 0
    BY <1>1, <2>1, <2>2, <2>3, <2>4, <2>5
  <2> QED
    BY <1>1, <2>3, <2>6 DEF m, x
<1> QED
  BY <1>2, <1>3, <1>4 DEF Slop

\* A piece is given out behind those of its block.
LEMMA GiveKeeps ==
    ASSUME ArenaInv, NEW block, NEW offset, NEW bytes, NEW aligned, Give(block, offset, bytes, aligned),
           NEW piece \in PieceSet, piece = [block |-> block, offset |-> offset, bytes |-> bytes, aligned |-> aligned],
           blocks' \in Seq(Nat), current' \in 0..Len(blocks'), ptr' \in Nat, remaining' \in Nat, CurrentInv',
           \A p \in PieceSet : Placed(p) => Placed(p)',
           Placed(piece)',
           \A p \in PieceSet : Placed(p) /\ p.block = block => p.offset + p.bytes <= offset
    PROVE  ArenaInv'
<1>1. pieces \in Seq(PieceSet) /\ \A i \in DOMAIN pieces : Placed(pieces[i])
  BY DEF ArenaInv, ArenaType
<1>2. pieces' = Append(pieces, piece)
  BY DEF Give
<1>3. /\ pieces' \in Seq(PieceSet) /\ DOMAIN pieces' = 1..(Len(pieces) + 1) /\ DOMAIN pieces = 1..Len(pieces)
      /\ Len(pieces) \in Nat
      /\ pieces'[Len(pieces) + 1] = piece
      /\ \A i \in DOMAIN pieces : pieces'[i] = pieces[i] /\ pieces[i] \in PieceSet
  BY <1>1, <1>2
<1>4. ArenaType'
  BY <1>3 DEF ArenaType
<1>5. ASSUME NEW i \in DOMAIN pieces' PROVE Placed(pieces[i])'
  <2>1. PICK p : p = pieces'[i]
    OBVIOUS
  <2>2. p \in PieceSet /\ (Placed(p) \/ p = piece)
    BY <1>1, <1>3, <2>1
  <2>3. Placed(p)'
    BY <2>2
  <2> QED
    BY <2>1, <2>3 DEF Placed
<1>6. Apart'
  <2> SUFFICES ASSUME NEW i \in DOMAIN pieces', NEW j \in DOMAIN pieces', i < j, pieces'[i].block = pieces'[j].block
               PROVE  pieces'[i].offset + pieces'[i].bytes <= pieces'[j].offset
    BY DEF Apart
  <2>1. i \in DOMAIN pieces /\ pieces'[i] = pieces[i] /\ pieces[i] \in PieceSet
    BY <1>3
  <2>2. CASE j \in DOMAIN pieces
    BY <1>3, <2>1, <2>2 DEF ArenaInv, Apart
  <2>3. CASE j = Len(pieces) + 1
    <3>1. pieces'[j] = piece /\ piece.block = block /\ piece.offset = offset
      BY <1>3, <2>3
    <3> QED
      BY <1>1, <2>1, <3>1
  <2> QED
    BY <1>3, <2>2, <2>3
<1> QED
  BY <1>4, <1>5, <1>6 DEF ArenaInv

\* A piece from what remains of the current block.
LEMMA FromBlockKeeps ==
    ASSUME ArenaInv, NEW bytes \in Nat \ {0}, NEW skip \in Nat, NEW aligned \in BOOLEAN,
           bytes + skip <= remaining, aligned => (ptr + skip) % Align = 0, FromBlock(bytes, skip, aligned)
    PROVE  ArenaInv'
<1>1. /\ Give(current, ptr + skip, bytes, aligned)
      /\ ptr' = ptr + skip + bytes /\ remaining' = remaining - skip - bytes
      /\ blocks' = blocks /\ current' = current
  BY DEF FromBlock
<1>2. /\ blocks \in Seq(Nat) /\ current \in 0..Len(blocks) /\ ptr \in Nat /\ remaining \in Nat /\ CurrentInv
      /\ Len(blocks) \in Nat
  BY DEF ArenaInv, ArenaType
<1>3. current # 0 /\ current \in 1..Len(blocks) /\ ptr + remaining = blocks[current]
  BY <1>2 DEF CurrentInv
<1>4. ptr' \in Nat /\ remaining' \in Nat /\ ptr' >= ptr /\ ptr' + remaining' = ptr + remaining
  BY <1>1, <1>2
<1>5. CurrentInv'
  BY <1>1, <1>3, <1>4 DEF CurrentInv
<1>6. PICK piece \in PieceSet : piece = [block |-> current, offset |-> ptr + skip, bytes |-> bytes, aligned |-> aligned]
  <2>1. current \in Nat /\ ptr + skip \in Nat /\ bytes \in Nat
    BY <1>2
  <2>2. [block |-> current, offset |-> ptr + skip, bytes |-> bytes, aligned |-> aligned] \in PieceSet
    BY <2>1, Zenon DEF PieceSet
  <2> QED
    BY <2>2, Zenon
<1>7. ASSUME NEW p \in PieceSet, Placed(p)
      PROVE  Placed(p)' /\ (p.block = current => p.offset + p.bytes <= ptr + skip)
  <2>1. p.offset \in Nat /\ p.bytes \in Nat
    BY DEF PieceSet
  <2> QED
    BY <1>1, <1>2, <1>4, <1>7, <2>1 DEF Placed
<1>8. Placed(piece)'
  <2>1. piece.block = current /\ piece.offset = ptr + skip /\ piece.bytes = bytes /\ piece.aligned = aligned
    BY <1>6
  <2>2. ptr + skip + bytes <= blocks[current]
    BY <1>2, <1>3
  <2> QED
    BY <1>1, <1>3, <2>1, <2>2 DEF Placed
<1>9. blocks' \in Seq(Nat) /\ current' \in 0..Len(blocks')
  BY <1>1, <1>2
<1>10. \A p \in PieceSet : Placed(p) /\ p.block = current => p.offset + p.bytes <= ptr + skip
  BY <1>7
<1> QED
  BY <1>1, <1>4, <1>5, <1>6, <1>7, <1>8, <1>9, <1>10, GiveKeeps

\* A piece at the beginning of a new block.
LEMMA FallbackKeeps ==
    ASSUME ArenaParameters, ArenaInv, NEW bytes \in Nat \ {0}, NEW aligned \in BOOLEAN, AllocateFallback(bytes, aligned)
    PROVE  ArenaInv'
<1> DEFINE size == IF bytes > kBlockSize \div 4 THEN bytes ELSE kBlockSize
<1>1. /\ blocks \in Seq(Nat) /\ current \in 0..Len(blocks) /\ ptr \in Nat /\ remaining \in Nat /\ CurrentInv
      /\ Len(blocks) \in Nat
  BY DEF ArenaInv, ArenaType
<1>2. kBlockSize \in Nat /\ kBlockSize > 0 /\ Align \in Nat /\ Align > 0
  BY DEF ArenaParameters
<1>3. size \in Nat /\ bytes <= size
  <2>1. kBlockSize \div 4 <= kBlockSize /\ kBlockSize \div 4 \in Nat
    BY <1>2
  <2> QED
    BY <1>2, <2>1
<1>4. blocks' = Append(blocks, size) /\ Give(Len(blocks) + 1, 0, bytes, aligned)
  BY DEF AllocateFallback, AllocateNewBlock
<1> HIDE DEF size
<1>5. /\ blocks' \in Seq(Nat) /\ Len(blocks') = Len(blocks) + 1 /\ blocks'[Len(blocks) + 1] = size
      /\ \A b \in 1..Len(blocks) : blocks'[b] = blocks[b]
  BY <1>1, <1>3, <1>4
<1>6. \/ current' = current /\ ptr' = ptr /\ remaining' = remaining
      \/ current' = Len(blocks) + 1 /\ ptr' = bytes /\ remaining' = size - bytes
  BY DEF AllocateFallback, size
<1>7. current' \in 0..Len(blocks') /\ ptr' \in Nat /\ remaining' \in Nat
  BY <1>1, <1>3, <1>5, <1>6
<1>8. CurrentInv'
  <2>1. CASE current' = current /\ ptr' = ptr /\ remaining' = remaining
    BY <1>1, <1>5, <2>1 DEF CurrentInv
  <2>2. CASE current' = Len(blocks) + 1 /\ ptr' = bytes /\ remaining' = size - bytes
    <3>1. bytes + (size - bytes) = size /\ Len(blocks) + 1 # 0
      BY <1>1, <1>3
    <3> QED
      BY <1>5, <2>2, <3>1 DEF CurrentInv
  <2> QED
    BY <1>6, <2>1, <2>2
<1>9. ASSUME NEW p \in PieceSet, Placed(p)
      PROVE  Placed(p)' /\ p.block # Len(blocks) + 1
  <2>1. p.block \in 1..Len(blocks) /\ p.block # Len(blocks) + 1
    BY <1>1, <1>9 DEF Placed
  <2>2. p.block \in 1..Len(blocks') /\ p.block # Len(blocks) + 1 /\ blocks'[p.block] = blocks[p.block]
    BY <1>1, <1>5, <2>1
  <2>3. p.block = current' => p.block = current /\ ptr' = ptr
    BY <1>6, <2>2
  <2> QED
    BY <1>9, <2>2, <2>3 DEF Placed
<1>10. PICK piece \in PieceSet : piece = [block |-> Len(blocks) + 1, offset |-> 0, bytes |-> bytes, aligned |-> aligned]
  <2>1. Len(blocks) + 1 \in Nat /\ 0 \in Nat /\ bytes \in Nat
    BY <1>1
  <2>2. [block |-> Len(blocks) + 1, offset |-> 0, bytes |-> bytes, aligned |-> aligned] \in PieceSet
    BY <2>1, Zenon DEF PieceSet
  <2> QED
    BY <2>2, Zenon
<1>11. Placed(piece)'
  <2>1. piece.block = Len(blocks) + 1 /\ piece.offset = 0 /\ piece.bytes = bytes /\ piece.aligned = aligned
    BY <1>10
  <2>2. Len(blocks) + 1 = current' => bytes <= ptr'
    BY <1>1, <1>6
  <2>3. 0 % Align = 0
    BY <1>2
  <2>4. 0 + bytes = bytes /\ Len(blocks) + 1 \in 1..Len(blocks')
    BY <1>1, <1>5
  <2> QED
    BY <1>3, <1>5, <2>1, <2>2, <2>3, <2>4 DEF Placed
<1>12. \A p \in PieceSet : Placed(p) /\ p.block = Len(blocks) + 1 => p.offset + p.bytes <= 0
  BY <1>9
<1> QED
  BY <1>4, <1>5, <1>7, <1>8, <1>9, <1>10, <1>11, <1>12, GiveKeeps

\* Every allocation keeps the invariant.
LEMMA ArenaNextKeeps ==
    ASSUME ArenaParameters, ArenaInv, [ArenaNext]_arenaVars
    PROVE  ArenaInv'
<1>1. ptr \in Nat /\ remaining \in Nat
  BY DEF ArenaInv, ArenaType
<1>2. ASSUME NEW bytes \in Sizes, Allocate(bytes) PROVE ArenaInv'
  <2>1. bytes \in Nat \ {0}
    BY DEF ArenaParameters
  <2>2. CASE bytes <= remaining
    <3>1. FromBlock(bytes, 0, FALSE)
      BY <1>2, <2>2, Zenon DEF Allocate
    <3>2. bytes + 0 <= remaining
      BY <1>1, <2>1, <2>2
    <3> QED
      BY <2>1, <3>1, <3>2, FromBlockKeeps
  <2>3. CASE ~(bytes <= remaining)
    BY <1>2, <2>1, <2>3, FallbackKeeps DEF Allocate
  <2> QED
    BY <2>2, <2>3
<1>3. ASSUME NEW bytes \in Sizes, AllocateAligned(bytes) PROVE ArenaInv'
  <2>1. bytes \in Nat \ {0}
    BY DEF ArenaParameters
  <2>2. CASE Fits(bytes, Slop(ptr))
    <3>1. FromBlock(bytes, Slop(ptr), TRUE) /\ bytes + Slop(ptr) <= remaining
      BY <1>3, <2>2 DEF AllocateAligned, Fits
    <3>2. Slop(ptr) \in Nat /\ (ptr + Slop(ptr)) % Align = 0
      BY <1>1, SlopAligns
    <3> QED
      BY <2>1, <3>1, <3>2, FromBlockKeeps
  <2>3. CASE ~Fits(bytes, Slop(ptr))
    BY <1>3, <2>1, <2>3, FallbackKeeps DEF AllocateAligned
  <2> QED
    BY <2>2, <2>3
<1>4. CASE UNCHANGED arenaVars
  BY <1>4 DEF arenaVars, ArenaInv, ArenaType, CurrentInv, Placed, Apart
<1> QED
  BY <1>2, <1>3, <1>4 DEF ArenaNext

\* The invariant holds in every state of an arena.
THEOREM ArenaIsSound ==
    ASSUME ArenaParameters
    PROVE  ArenaSpec => []ArenaInv
<1>1. ArenaInit => ArenaInv
  BY DEF ArenaInit, ArenaInv, ArenaType, CurrentInv, Placed, Apart
<1>2. ArenaInv /\ [ArenaNext]_arenaVars => ArenaInv'
  BY ArenaNextKeeps
<1> QED
  BY <1>1, <1>2, PTL DEF ArenaSpec

\* No two pieces share a byte, all lie in their blocks, and those asked for
\* aligned are (PiecesAreApart of Arena, arena.cc:23-58).
THEOREM PiecesStayApart ==
    ASSUME ArenaParameters
    PROVE  ArenaSpec => []PiecesAreApart
<1>1. ArenaInv => PiecesAreApart
  BY DEF ArenaInv, Apart, Placed, PiecesAreApart
<1> QED
  BY <1>1, ArenaIsSound, PTL
=============================================================================
