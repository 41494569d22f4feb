-------------------------- MODULE DbThreadsProofs --------------------------
(***************************************************************************)
(* What the threads of a store keep true whatever their number, their      *)
(* calls and the limits: one writer at a time, groups that become visible  *)
(* whole, readers that see their snapshot, sleepers that are woken.        *)
(***************************************************************************)
EXTENDS DbThreads, FiniteSetTheorems, SequenceTheorems, WellFoundedInduction, TLAPS

-----------------------------------------------------------------------------
(* The types of the variables.                                             *)
Call == [kind : {"none"} \cup Kinds, sync : BOOLEAN]
PCs ==
    {"idle", "queued", "delayed", "logging", "syncing", "sync failed", "inserting", "committing",
     "reading", "flushing", "manual"}
Holding == [snapshot : Nat, mems : SUBSET Nat, tables : SUBSET Nat, due : SUBSET Nat]
ThreadState ==
    [pc : PCs, op : Call, asleep : {"no", "own", "bg"}, calls : Nat, allowDelay : BOOLEAN, force : BOOLEAN,
     held : Holding \cup {None}, owed : SUBSET Nat, late : BOOLEAN]
DbState ==
    [mem : Nat, imm : Nat \cup {None}, contents : Seq(SUBSET Nat), refs : Seq(Int), tables : SUBSET Nat,
     lastSequence : Nat, unsynced : SUBSET Nat, level0 : Int, seek : BOOLEAN]
BgPCs == {"idle", "scheduled", "memtable", "memtable manifest", "compacting", "manifest"}
BgState ==
    [pc : BgPCs, error : BOOLEAN, manual : Threads \cup {None}, done : SUBSET Threads, left : [Threads -> Int],
     isManual : BOOLEAN, inCompaction : BOOLEAN, picked : Int, shutdown : BOOLEAN, crashed : BOOLEAN]
GroupState == [members : Seq(Threads), todo : Seq(Nat), last : Nat, ok : BOOLEAN]
Ack == [entries : SUBSET Nat, sync : BOOLEAN, late : BOOLEAN]

TypeInv ==
    /\ thread \in [Threads -> ThreadState]
    /\ mutex \in Threads \cup {None}
    /\ queue \in Seq(Threads)
    /\ group \in GroupState
    /\ db \in DbState
    /\ bg \in BgState
    /\ failures \in Nat
    /\ acked \subseteq Ack
    /\ db.mem \in DOMAIN db.contents /\ db.imm \in DOMAIN db.contents \cup {None}
    /\ DOMAIN db.refs = DOMAIN db.contents

-----------------------------------------------------------------------------
(* The inductive invariants.                                               *)

\* A writer that is past MakeRoomForWrite, and one that is delayed in it.
Busy == {"logging", "syncing", "sync failed", "inserting", "committing"}
Writing == Busy \cup {"delayed"}
InQueue == Writing \cup {"queued"}

\* A caller of Write is in the queue, once, and only the front goes on.
QueueInv ==
    /\ \A t \in Threads : thread[t].pc \in InQueue <=> \E i \in DOMAIN queue : queue[i] = t
    /\ \A i, j \in DOMAIN queue : queue[i] = queue[j] => i = j
    /\ \A t \in Threads : thread[t].pc \in InQueue => thread[t].op.kind \in {"write", "flush", "range"}
    /\ \A t \in Threads : thread[t].pc \in Writing => queue # <<>> /\ queue[1] = t
    /\ \A t \in Threads : thread[t].asleep = "own" => thread[t].pc = "queued" /\ queue[1] # t
    /\ \A t \in Threads : thread[t].asleep = "bg" => thread[t].pc \in {"queued", "flushing", "manual"}

\* Whether the thread has begun to insert, or is through with it.
Inserts(t) == thread[t].pc = "inserting" \/ (thread[t].pc = "committing" /\ group.ok)

\* What a writer has of its group: who is in it, and which entries are left.
GroupOf(t) ==
    /\ HasBatch(t)
    /\ group.members # <<>> /\ Len(group.members) <= Len(queue)
    /\ \A i \in DOMAIN group.members :
           /\ group.members[i] = queue[i]
           /\ ~thread[queue[i]].late
           /\ thread[queue[i]].op.sync => thread[t].op.sync
    /\ group.last = db.lastSequence + BatchSize * Cardinality(Batches(group.members))
    /\ db.lastSequence + Len(group.todo) <= group.last
    /\ \A i \in DOMAIN group.todo : group.todo[i] = group.last - Len(group.todo) + i
    /\ ~Inserts(t) => db.lastSequence + Len(group.todo) = group.last
    /\ thread[t].pc = "inserting" => group.todo # <<>> /\ group.ok
    /\ thread[t].pc = "committing" /\ group.ok => group.todo = <<>>
    /\ thread[t].pc = "sync failed" => ~group.ok
    /\ thread[t].op.sync /\ Inserts(t) => \A s \in db.unsynced : s <= db.lastSequence

GroupInv == \A t \in Threads : thread[t].pc \in Busy => GroupOf(t)

\* A writer whose group is in the log, at least in part.
Logged == Busy \ {"logging"}

\* What is not synced is of an earlier group, or of the one in the log.
UnsyncedInv ==
    \A s \in db.unsynced :
        s <= db.lastSequence \/ \E t \in Threads : thread[t].pc \in Logged /\ s <= group.last

\* The entries of the group up to s are in the memtable.
Arrived(s) == \E t \in Threads : Inserts(t) /\ s <= group.last - Len(group.todo)

\* What is in the store: what was committed, and what is being inserted.
StoreInv ==
    /\ db.mem = Len(db.contents) /\ db.mem # 0
    /\ db.imm \in (DOMAIN db.contents \cup {None}) \ {db.mem}
    /\ \A s \in db.tables : s <= db.lastSequence
    /\ \A m \in DOMAIN db.contents : m # db.mem => \A s \in db.contents[m] : s <= db.lastSequence
    /\ \A s \in Nat : s > db.lastSequence => (s \in db.contents[db.mem] <=> Arrived(s))

\* Who has references of a memtable.
ReadersOf(m) == {t \in Threads : thread[t].pc = "reading" /\ m \in thread[t].held.mems}
Own(m) == IF m \in {db.mem, db.imm} THEN 1 ELSE 0

RefInv ==
    /\ DOMAIN db.refs = DOMAIN db.contents
    /\ \A m \in DOMAIN db.refs : db.refs[m] = Cardinality(ReadersOf(m)) + Own(m)

\* A reader's memtables are there, and what it should find is what they have.
SeesSnapshot(t) ==
    LET h == thread[t].held
    IN  /\ h \in Holding
        /\ h.snapshot <= db.lastSequence
        /\ h.mems \subseteq DOMAIN db.contents
        /\ {s \in Found(h.mems, h.tables) : s <= h.snapshot} = h.due

ReadInv == \A t \in Threads : thread[t].pc = "reading" => SeesSnapshot(t)

\* Who began after an error, began after an error.
LateInv == \A t \in Threads : thread[t].late => bg.error

AckInv ==
    \A a \in acked :
        /\ a.entries \subseteq Visible
        /\ a.sync => a.entries \cap db.unsynced = {}
        /\ ~a.late

\* There is a call of the background thread if there is work for it, and as
\* long as somebody waits for its end.
Work == db.imm # None \/ bg.manual # None \/ NeedsCompaction(db)
WorkInv ==
    /\ Work /\ ~bg.error /\ ~bg.shutdown => bg.pc # "idle"
    /\ \A t \in Threads : thread[t].asleep = "bg" => bg.pc # "idle"
    /\ bg.shutdown => \A t \in Threads : thread[t].pc = "idle"

\* No more files at level 0 than the limit, with the one of a memtable to come;
\* those that a compaction takes away are there.
LevelInv ==
    /\ db.level0 \in 0..L0Stop
    /\ db.imm # None => db.level0 < L0Stop
    /\ ~bg.crashed => bg.picked \in 0..db.level0
    /\ bg.pc \in {"memtable", "memtable manifest"} => db.imm # None

\* Nothing has failed: then a request stays until the background thread is done.
RequestInv ==
    /\ failures = 0 /\ ~bg.crashed
    /\ bg.error => bg.shutdown
    /\ \A t \in Threads : thread[t].pc # "sync failed"
    /\ bg.manual # None => thread[bg.manual].pc = "manual" /\ bg.manual \notin bg.done
    /\ bg.isManual => bg.manual # None

CountInv ==
    /\ failures <= MaxFailures
    /\ \A t \in Threads : thread[t].calls <= MaxCalls[t]

-----------------------------------------------------------------------------
\* The database that was just opened.
LEMMA TypeInit ==
    ASSUME Parameters PROVE Init => TypeInv
<1> SUFFICES ASSUME Init PROVE TypeInv
  OBVIOUS
<1>1. thread \in [Threads -> ThreadState]
  BY DEF Init, NoCall, Parameters, ThreadState, PCs, Call
<1>2. db \in DbState
  BY DEF Init, DbState
<1>3. bg \in BgState
  BY DEF Init, Parameters, BgState, BgPCs
<1>4. group \in GroupState
  BY DEF Init, NoGroup, GroupState
<1> QED
  <2>1. queue \in Seq(Threads) /\ mutex = None /\ failures = 0 /\ acked = {}
    BY DEF Init
  <2>2. db.mem \in DOMAIN db.contents /\ db.imm = None /\ DOMAIN db.refs = DOMAIN db.contents
    BY DEF Init
  <2> QED
    BY <1>1, <1>2, <1>3, <1>4, <2>1, <2>2 DEF TypeInv

\* What is in some memtables and in the tables are sequence numbers.
LEMMA FoundType ==
    ASSUME TypeInv, NEW mems \in SUBSET DOMAIN db.contents, NEW tables \in SUBSET Nat
    PROVE  Found(mems, tables) \in SUBSET Nat
<1>1. db \in DbState
  BY DEF TypeInv
<1>2. \A m \in DOMAIN db.contents : db.contents[m] \in SUBSET Nat
  BY <1>1 DEF DbState
<1> QED
  BY <1>2 DEF Found

\* What a reader can see is a set of sequence numbers.
LEMMA VisibleType ==
    ASSUME TypeInv PROVE Visible \in SUBSET Nat
<1>1. db \in DbState
  BY DEF TypeInv
<1>2. {db.mem, db.imm} \ {None} \in SUBSET DOMAIN db.contents
  BY DEF TypeInv
<1>3. db.tables \in SUBSET Nat
  BY <1>1 DEF DbState
<1> QED
  BY <1>2, <1>3, FoundType DEF Visible

\* A record whose fields are of their types.
LEMMA ThreadStateFrom ==
    ASSUME NEW r \in ThreadState, NEW s, s = [f \in DOMAIN r |-> s[f]],
           s.pc \in PCs, s.op \in Call, s.asleep \in {"no", "own", "bg"}, s.calls \in Nat,
           s.allowDelay \in BOOLEAN, s.force \in BOOLEAN, s.held \in Holding \cup {None},
           s.owed \in SUBSET Nat, s.late \in BOOLEAN
    PROVE  s \in ThreadState
BY DEF ThreadState

\* A record with the fields of one of the database, each in its set, is one too.
LEMMA DbStateFrom ==
    ASSUME NEW r \in DbState, NEW s, s = [f \in DOMAIN r |-> s[f]],
           s.mem \in Nat, s.imm \in Nat \cup {None}, s.contents \in Seq(SUBSET Nat), s.refs \in Seq(Int),
           s.tables \in SUBSET Nat, s.lastSequence \in Nat, s.unsynced \in SUBSET Nat,
           s.level0 \in Int, s.seek \in BOOLEAN
    PROVE  s \in DbState
BY DEF DbState

\* The same of the record of the background thread.
LEMMA BgStateFrom ==
    ASSUME NEW r \in BgState, NEW s, s = [f \in DOMAIN r |-> s[f]],
           s.pc \in BgPCs, s.error \in BOOLEAN, s.manual \in Threads \cup {None}, s.done \in SUBSET Threads,
           s.left \in [Threads -> Int], s.isManual \in BOOLEAN, s.inCompaction \in BOOLEAN, s.picked \in Int,
           s.shutdown \in BOOLEAN, s.crashed \in BOOLEAN
    PROVE  s \in BgState
BY DEF BgState

\* DBImpl::Write and its like put the caller into the queue.
LEMMA WriteType ==
    ASSUME Parameters, TypeInv, NEW t \in Threads, NEW o \in Calls[t], Write(t, o) PROVE TypeInv'
<1>1. Visible \ db.tables \in SUBSET Nat
  BY VisibleType
<1>2. o \in Call
  BY DEF Parameters, Call
<1>3. thread \in [Threads -> ThreadState] /\ bg.error \in BOOLEAN /\ thread[t] \in ThreadState
  BY DEF TypeInv, BgState
<1>4. \A u \in Threads \ {t} : thread'[u] = thread[u]
  BY <1>3 DEF Write
<1>5. thread'[t] \in ThreadState
  <2>1. thread'[t] = [f \in DOMAIN thread[t] |-> thread'[t][f]]
    BY <1>3 DEF Write
  <2>2. /\ thread'[t].pc = "queued" /\ thread'[t].op = o
        /\ thread'[t].asleep \in {"no", "own"}
        /\ thread'[t].calls = thread[t].calls + 1
        /\ thread'[t].allowDelay \in BOOLEAN /\ thread'[t].force \in BOOLEAN
        /\ thread'[t].held = thread[t].held
        /\ thread'[t].owed \in {Visible \ db.tables, {}}
        /\ thread'[t].late = bg.error
    BY <1>3 DEF Write, ThreadState
  <2>3. thread[t].calls \in Nat /\ thread[t].held \in Holding \cup {None}
    BY <1>3 DEF ThreadState
  <2>4. /\ thread'[t].pc \in PCs /\ thread'[t].op \in Call /\ thread'[t].asleep \in {"no", "own", "bg"}
        /\ thread'[t].calls \in Nat /\ thread'[t].held \in Holding \cup {None}
        /\ thread'[t].owed \in SUBSET Nat /\ thread'[t].late \in BOOLEAN
    BY <1>1, <1>2, <1>3, <2>2, <2>3 DEF PCs
  <2> QED
    BY <1>3, <2>1, <2>2, <2>4, ThreadStateFrom
<1>6. thread' \in [Threads -> ThreadState]
  BY <1>3, <1>4, <1>5 DEF Write
<1>7. queue' \in Seq(Threads)
  BY DEF Write, TypeInv
<1> QED
  BY <1>6, <1>7 DEF Write, TypeInv
-----------------------------------------------------------------------------
(* What the helpers do to a record.                                        *)

\* What a step seldom changes of a thread.
Kept(a, b) == b.op = a.op /\ b.late = a.late /\ b.held = a.held /\ b.owed = a.owed /\ b.calls = a.calls

\* SignalAll wakes threads and does nothing else to them.
LEMMA SignalAllIs ==
    ASSUME NEW threads \in [Threads -> ThreadState]
    PROVE  /\ SignalAll(threads) \in [Threads -> ThreadState]
           /\ \A u \in Threads :
                  /\ Kept(threads[u], SignalAll(threads)[u])
                  /\ SignalAll(threads)[u].pc = threads[u].pc
                  /\ SignalAll(threads)[u].asleep = IF threads[u].asleep = "bg" THEN "no" ELSE threads[u].asleep
<1> DEFINE woken == SignalAll(threads)
<1>1. woken = [u \in Threads |-> woken[u]]
  BY DEF SignalAll
<1>2. ASSUME NEW u \in Threads
      PROVE  /\ woken[u] \in ThreadState /\ Kept(threads[u], woken[u]) /\ woken[u].pc = threads[u].pc
             /\ woken[u].asleep = IF threads[u].asleep = "bg" THEN "no" ELSE threads[u].asleep
  <2>1. threads[u] \in ThreadState
    OBVIOUS
  <2>2. CASE threads[u].asleep = "bg"
    <3>1. woken[u] = [threads[u] EXCEPT !.asleep = "no"]
      BY <2>2 DEF SignalAll
    <3> QED
      BY <2>1, <2>2, <3>1 DEF ThreadState, Kept
  <2>3. CASE threads[u].asleep # "bg"
    <3>1. woken[u] = threads[u]
      BY <2>3 DEF SignalAll
    <3> QED
      BY <2>1, <2>3, <3>1 DEF Kept
  <2> QED
    BY <2>2, <2>3
<1> QED
  BY <1>1, <1>2

\* MaybeScheduleCompaction schedules the background thread or does nothing.
LEMMA ScheduleIs ==
    ASSUME NEW b \in BgState, NEW d
    PROVE  LET c == MaybeScheduleCompaction(b, d)
           IN  /\ c \in BgState
               /\ c.error = b.error /\ c.manual = b.manual /\ c.done = b.done /\ c.left = b.left
               /\ c.isManual = b.isManual /\ c.picked = b.picked /\ c.inCompaction = b.inCompaction
               /\ c.shutdown = b.shutdown /\ c.crashed = b.crashed
               /\ b.pc # "idle" => c.pc = b.pc
               /\ c.pc \in {b.pc, "scheduled"}
               /\ (d.imm # None \/ b.manual # None \/ NeedsCompaction(d)) /\ ~b.error /\ ~b.shutdown => c.pc # "idle"
<1> DEFINE work == d.imm # None \/ b.manual # None \/ NeedsCompaction(d)
<1>1. CASE b.pc = "idle" /\ ~b.shutdown /\ ~b.error /\ work
  <2>1. MaybeScheduleCompaction(b, d) = [b EXCEPT !.pc = "scheduled"]
    BY <1>1 DEF MaybeScheduleCompaction
  <2> QED
    BY <1>1, <2>1 DEF BgState, BgPCs
<1>2. CASE ~(b.pc = "idle" /\ ~b.shutdown /\ ~b.error /\ work)
  <2>1. MaybeScheduleCompaction(b, d) = b
    BY <1>2 DEF MaybeScheduleCompaction
  <2> QED
    BY <1>2, <2>1
<1> QED
  BY <1>1, <1>2
-----------------------------------------------------------------------------
(* What the actions do to the threads.                                     *)

\* One thread goes on to p and sleeps on a.
StepOf(t, p, a) ==
    /\ thread' \in [Threads -> ThreadState]
    /\ \A u \in Threads \ {t} : thread'[u] = thread[u]
    /\ Kept(thread[t], thread'[t])
    /\ thread'[t].pc = p /\ thread'[t].asleep = a

\* The step changes no other thread, and of this one only where it is, what it
\* sleeps on, and what it asks of MakeRoomForWrite.
Rewrites(t) ==
    /\ thread' = [u \in Threads |-> thread'[u]]
    /\ \A u \in Threads \ {t} : thread'[u] = thread[u]
    /\ thread'[t] = [g \in DOMAIN thread[t] |-> thread'[t][g]]
    /\ Kept(thread[t], thread'[t])
    /\ thread'[t].allowDelay \in {FALSE, thread[t].allowDelay}
    /\ thread'[t].force \in {FALSE, thread[t].force}

\* A thread that changes its place and its sleep only.
LEMMA StepType ==
    ASSUME TypeInv, NEW t \in Threads, Rewrites(t), thread'[t].pc \in PCs \cup {thread[t].pc},
           thread'[t].asleep \in {"no", "own", "bg", thread[t].asleep}
    PROVE  StepOf(t, thread'[t].pc, thread'[t].asleep)
<1>1. thread \in [Threads -> ThreadState] /\ thread[t] \in ThreadState
  BY DEF TypeInv
<1>2. thread'[t] \in ThreadState
  <2>1. /\ thread[t].op \in Call /\ thread[t].calls \in Nat /\ thread[t].held \in Holding \cup {None}
        /\ thread[t].owed \in SUBSET Nat /\ thread[t].late \in BOOLEAN
        /\ thread[t].pc \in PCs /\ thread[t].asleep \in {"no", "own", "bg"}
        /\ thread[t].allowDelay \in BOOLEAN /\ thread[t].force \in BOOLEAN
    BY <1>1 DEF ThreadState
  <2>2. /\ thread'[t].op \in Call /\ thread'[t].calls \in Nat /\ thread'[t].held \in Holding \cup {None}
        /\ thread'[t].owed \in SUBSET Nat /\ thread'[t].late \in BOOLEAN
        /\ thread'[t].pc \in PCs /\ thread'[t].asleep \in {"no", "own", "bg"}
        /\ thread'[t].allowDelay \in BOOLEAN /\ thread'[t].force \in BOOLEAN
    BY <2>1 DEF Rewrites, Kept
  <2> QED
    BY <1>1, <2>2, ThreadStateFrom DEF Rewrites
<1> QED
  BY <1>1, <1>2 DEF StepOf, Rewrites

\* MakeRoomForWrite starts its delay of one millisecond.
LEMMA RoomDelayIs ==
    ASSUME TypeInv, NEW t \in Threads, RoomDelay(t)
    PROVE  StepOf(t, "delayed", thread[t].asleep)
<1>1. thread \in [Threads -> ThreadState] /\ thread[t] \in ThreadState
  BY DEF TypeInv
<1>2. Rewrites(t) /\ thread'[t].pc = "delayed" /\ thread'[t].asleep = thread[t].asleep
  BY <1>1 DEF RoomDelay, ThreadState, Kept, Rewrites
<1> QED
  BY <1>2, StepType DEF PCs

\* The delay of MakeRoomForWrite is over.
LEMMA DelayOverIs ==
    ASSUME TypeInv, NEW t \in Threads, DelayOver(t)
    PROVE  StepOf(t, "queued", thread[t].asleep)
<1>1. thread \in [Threads -> ThreadState] /\ thread[t] \in ThreadState
  BY DEF TypeInv
<1>2. Rewrites(t) /\ thread'[t].pc = "queued" /\ thread'[t].asleep = thread[t].asleep
  BY <1>1 DEF DelayOver, ThreadState, Kept, Rewrites
<1> QED
  BY <1>2, StepType DEF PCs

\* BuildBatchGroup takes the front of the queue to the log.
LEMMA StartGroupIs ==
    ASSUME TypeInv, NEW t \in Threads, StartGroup(t)
    PROVE  StepOf(t, "logging", thread[t].asleep)
<1>1. thread \in [Threads -> ThreadState] /\ thread[t] \in ThreadState
  BY DEF TypeInv
<1>2. Rewrites(t) /\ thread'[t].pc = "logging" /\ thread'[t].asleep = thread[t].asleep
  BY <1>1 DEF StartGroup, ThreadState, Kept, Rewrites
<1> QED
  BY <1>2, StepType DEF PCs

\* MakeRoomForWrite waits for the background thread.
LEMMA RoomWaitIs ==
    ASSUME TypeInv, NEW t \in Threads, RoomWait(t)
    PROVE  StepOf(t, thread[t].pc, "bg")
<1>1. thread \in [Threads -> ThreadState] /\ thread[t] \in ThreadState
  BY DEF TypeInv
<1>2. Rewrites(t) /\ thread'[t].pc = thread[t].pc /\ thread'[t].asleep = "bg"
  BY <1>1 DEF RoomWait, ThreadState, Kept, Rewrites
<1> QED
  BY <1>2, StepType DEF PCs

\* MakeRoomForWrite starts another memtable and goes round its loop.
LEMMA RoomSwitchIs ==
    ASSUME TypeInv, NEW t \in Threads, RoomSwitch(t)
    PROVE  StepOf(t, thread[t].pc, thread[t].asleep)
<1>1. thread \in [Threads -> ThreadState] /\ thread[t] \in ThreadState
  BY DEF TypeInv
<1>2. Rewrites(t) /\ thread'[t].pc = thread[t].pc /\ thread'[t].asleep = thread[t].asleep
  BY <1>1 DEF RoomSwitch, ThreadState, Kept, Rewrites
<1> QED
  BY <1>2, StepType DEF PCs

\* The writer after its AddRecord, whether or not that failed.
LEMMA AddRecordIs ==
    ASSUME TypeInv, NEW t \in Threads, NEW ok \in BOOLEAN, AddRecord(t, ok)
    PROVE  StepOf(t, (IF ~ok THEN "committing" ELSE IF thread[t].op.sync THEN "syncing" ELSE "inserting"), thread[t].asleep)
<1>1. thread \in [Threads -> ThreadState] /\ thread[t] \in ThreadState
  BY DEF TypeInv
<1>2. /\ Rewrites(t)
      /\ thread'[t].pc = (IF ~ok THEN "committing" ELSE IF thread[t].op.sync THEN "syncing" ELSE "inserting")
      /\ thread'[t].asleep = thread[t].asleep
  BY <1>1 DEF AddRecord, ThreadState, Kept, Rewrites
<1> QED
  BY <1>2, StepType DEF PCs

\* The writer after its Sync, whether or not that failed.
LEMMA SyncIs ==
    ASSUME TypeInv, NEW t \in Threads, NEW ok \in BOOLEAN, Sync(t, ok)
    PROVE  StepOf(t, (IF ok THEN "inserting" ELSE "sync failed"), thread[t].asleep)
<1>1. thread \in [Threads -> ThreadState] /\ thread[t] \in ThreadState
  BY DEF TypeInv
<1>2. Rewrites(t) /\ thread'[t].pc = (IF ok THEN "inserting" ELSE "sync failed") /\ thread'[t].asleep = thread[t].asleep
  BY <1>1 DEF Sync, ThreadState, Kept, Rewrites
<1> QED
  BY <1>2, StepType DEF PCs

\* The writer after the insertion of one entry.
LEMMA InsertIs ==
    ASSUME TypeInv, NEW t \in Threads, Insert(t)
    PROVE  StepOf(t, (IF Len(group.todo) = 1 THEN "committing" ELSE "inserting"), thread[t].asleep)
<1>1. thread \in [Threads -> ThreadState] /\ thread[t] \in ThreadState
  BY DEF TypeInv
<1>2. /\ Rewrites(t)
      /\ thread'[t].pc = (IF Len(group.todo) = 1 THEN "committing" ELSE "inserting")
      /\ thread'[t].asleep = thread[t].asleep
  BY <1>1 DEF Insert, ThreadState, Kept, Rewrites
<1> QED
  BY <1>2, StepType DEF PCs

\* TEST_CompactRange waits for its request.
LEMMA AwaitManualIs ==
    ASSUME TypeInv, NEW t \in Threads, AwaitManual(t)
    PROVE  StepOf(t, thread[t].pc, "bg")
<1>1. thread \in [Threads -> ThreadState] /\ thread[t] \in ThreadState
  BY DEF TypeInv
<1>2. Rewrites(t) /\ thread'[t].pc = thread[t].pc /\ thread'[t].asleep = "bg"
  BY <1>1 DEF AwaitManual, ThreadState, Kept, Rewrites
<1> QED
  BY <1>2, StepType DEF PCs

\* TEST_CompactRange returns.
LEMMA ManualReturnsIs ==
    ASSUME TypeInv, NEW t \in Threads, ManualReturns(t)
    PROVE  StepOf(t, "idle", thread[t].asleep)
<1>1. thread \in [Threads -> ThreadState] /\ thread[t] \in ThreadState
  BY DEF TypeInv
<1>2. Rewrites(t) /\ thread'[t].pc = "idle" /\ thread'[t].asleep = thread[t].asleep
  BY <1>1 DEF ManualReturns, ThreadState, Kept, Rewrites
<1> QED
  BY <1>2, StepType DEF PCs
\* TEST_CompactMemTable waits for its memtable, goes on to the ranges, or returns.
LEMMA AwaitMemTableIs ==
    ASSUME TypeInv, NEW t \in Threads, AwaitMemTable(t)
    PROVE  \/ StepOf(t, thread[t].pc, "bg") /\ db.imm # None /\ ~bg.error
           \/ \E p \in {"manual", "idle"} : StepOf(t, p, thread[t].asleep)
<1>1. thread \in [Threads -> ThreadState] /\ thread[t] \in ThreadState
  BY DEF TypeInv
<1>2. CASE db.imm # None /\ ~bg.error
  <2>0. thread' = [thread EXCEPT ![t].asleep = "bg"]
    BY <1>2 DEF AwaitMemTable
  <2>1. Rewrites(t) /\ thread'[t].pc = thread[t].pc /\ thread'[t].asleep = "bg"
    BY <1>1, <2>0 DEF ThreadState, Kept, Rewrites
  <2> QED
    BY <1>2, <2>1, StepType
<1>3. CASE ~(db.imm # None /\ ~bg.error)
  <2>0. thread' = [thread EXCEPT ![t].pc = IF thread[t].op.kind = "range" THEN "manual" ELSE "idle"]
    BY <1>3 DEF AwaitMemTable
  <2>1. Rewrites(t) /\ thread'[t].pc \in {"manual", "idle"} /\ thread'[t].asleep = thread[t].asleep
    BY <1>1, <2>0 DEF ThreadState, Kept, Rewrites
  <2> QED
    BY <2>1, StepType DEF PCs
<1> QED
  BY <1>2, <1>3

\* The first n writers leave the queue.
LeaveOf(n) ==
    /\ queue' = SubSeq(queue, n + 1, Len(queue)) /\ mutex' = None
    /\ thread' \in [Threads -> ThreadState]
    /\ \A u \in Threads :
          /\ Kept(thread[u], thread'[u])
          /\ IF \E i \in 1..n : queue[i] = u
             THEN thread'[u].pc \in {"idle", "flushing", "manual"} /\ thread'[u].asleep = "no"
             ELSE /\ thread'[u].pc = thread[u].pc
                  /\ thread'[u].asleep \in {thread[u].asleep, "no"}
                  /\ n < Len(queue) /\ u = queue[n + 1] => thread'[u].asleep # "own"

\* The first n writers of the queue leave it; the one behind them is woken.
LEMMA LeaveIs ==
    ASSUME TypeInv, QueueInv, NEW n \in 1..Len(queue), NEW ok \in BOOLEAN,
           NEW threads \in {thread, SignalAll(thread)}, Leave(n, ok, threads)
    PROVE  LeaveOf(n)
<1> DEFINE rest == SubSeq(queue, n + 1, Len(queue))
           members == {queue[i] : i \in 1..n}
<1>1. thread \in [Threads -> ThreadState] /\ queue \in Seq(Threads)
  BY DEF TypeInv
<1>2. /\ threads \in [Threads -> ThreadState]
      /\ \A u \in Threads : /\ Kept(thread[u], threads[u]) /\ threads[u].pc = thread[u].pc
                              /\ threads[u].asleep \in {thread[u].asleep, "no"}
  BY <1>1, SignalAllIs DEF Kept
<1>3. n < Len(queue) => rest[1] = queue[n + 1] /\ 1 \in DOMAIN rest
  BY <1>1, SubSeqProperties
<1>4. thread' = [u \in Threads |->
              IF u \in members THEN [threads[u] EXCEPT !.pc = After(u, ok), !.asleep = "no"]
              ELSE IF u \in Wakes(rest) /\ threads[u].asleep = "own" THEN [threads[u] EXCEPT !.asleep = "no"]
              ELSE threads[u]]
  BY DEF Leave
<1> HIDE DEF rest
<1>5. ASSUME NEW u \in Threads
      PROVE  /\ thread'[u] \in ThreadState
             /\ Kept(thread[u], thread'[u])
             /\ IF \E i \in 1..n : queue[i] = u
                THEN thread'[u].pc \in {"idle", "flushing", "manual"} /\ thread'[u].asleep = "no"
                ELSE /\ thread'[u].pc = thread[u].pc
                     /\ thread'[u].asleep \in {thread[u].asleep, "no"}
                     /\ n < Len(queue) /\ u = queue[n + 1] => thread'[u].asleep # "own"
  <2>1. threads[u] \in ThreadState
    BY <1>2
  <2>2. CASE \E i \in 1..n : queue[i] = u
    <3>1. thread'[u] = [threads[u] EXCEPT !.pc = After(u, ok), !.asleep = "no"]
      BY <1>4, <2>2
    <3>2. thread[u].op.kind \in {"write", "flush", "range"}
      BY <1>1, <2>2 DEF QueueInv
    <3>3. After(u, ok) \in {"idle", "flushing", "manual"}
      BY <3>2 DEF After
    <3>4. /\ thread'[u].pc = After(u, ok) /\ thread'[u].asleep = "no" /\ Kept(threads[u], thread'[u])
          /\ thread'[u].allowDelay = threads[u].allowDelay /\ thread'[u].force = threads[u].force
          /\ thread'[u] = [f \in DOMAIN threads[u] |-> thread'[u][f]]
      BY <2>1, <3>1 DEF ThreadState, Kept
    <3>5. thread'[u] \in ThreadState
      <4>1. /\ threads[u].op \in Call /\ threads[u].calls \in Nat /\ threads[u].held \in Holding \cup {None}
            /\ threads[u].owed \in SUBSET Nat /\ threads[u].late \in BOOLEAN
            /\ threads[u].allowDelay \in BOOLEAN /\ threads[u].force \in BOOLEAN
        BY <2>1 DEF ThreadState
      <4>2. /\ thread'[u].op \in Call /\ thread'[u].calls \in Nat /\ thread'[u].held \in Holding \cup {None}
            /\ thread'[u].owed \in SUBSET Nat /\ thread'[u].late \in BOOLEAN
            /\ thread'[u].pc \in PCs
        BY <3>3, <3>4, <4>1 DEF Kept, PCs
      <4> QED
        BY <2>1, <3>4, <4>1, <4>2, ThreadStateFrom
    <3> QED
      BY <1>2, <2>2, <3>3, <3>4, <3>5 DEF Kept
  <2>3. CASE ~(\E i \in 1..n : queue[i] = u) /\ u \in Wakes(rest) /\ threads[u].asleep = "own"
    <3>1. thread'[u] = [threads[u] EXCEPT !.asleep = "no"]
      BY <1>4, <2>3
    <3> QED
      BY <1>2, <2>1, <2>3, <3>1 DEF ThreadState, Kept
  <2>4. CASE ~(\E i \in 1..n : queue[i] = u) /\ ~(u \in Wakes(rest) /\ threads[u].asleep = "own")
    <3>1. thread'[u] = threads[u]
      BY <1>4, <2>4
    <3>2. n < Len(queue) /\ u = queue[n + 1] => threads[u].asleep # "own"
      BY <1>3, <2>4 DEF Wakes
    <3> QED
      BY <1>2, <2>1, <2>4, <3>1, <3>2
  <2> QED
    BY <2>2, <2>3, <2>4
<1>6. queue' = rest /\ mutex' = None
  BY DEF Leave, rest
<1>7. thread' \in [Threads -> ThreadState]
  BY <1>4, <1>5
<1> QED
  BY <1>5, <1>6, <1>7 DEF LeaveOf, rest
-----------------------------------------------------------------------------
(* What the actions do to the store.                                       *)

\* A step that keeps what the readers and the writers have of the store.
SameFiles(a, b) == b.tables = a.tables /\ b.lastSequence = a.lastSequence /\ b.unsynced = a.unsynced
SameRest(a, b) == b.level0 = a.level0 /\ b.seek = a.seek
SameTables(a, b) == b.mem = a.mem /\ b.imm = a.imm /\ b.contents = a.contents /\ b.refs = a.refs

\* A sequence with other elements is a sequence.
LEMMA SameLength ==
    ASSUME NEW S, NEW T, NEW s \in Seq(S), NEW f, DOMAIN f = DOMAIN s, f = [i \in DOMAIN f |-> f[i]],
           \A i \in DOMAIN s : f[i] \in T
    PROVE  f \in Seq(T)
<1>1. Len(s) \in Nat /\ DOMAIN s = 1..Len(s)
  OBVIOUS
<1>2. f \in [1..Len(s) -> T]
  BY <1>1
<1> QED
  BY <1>1, <1>2, SeqDef

\* Ref counts one reader more of some memtables and changes nothing else.
LEMMA RefIs ==
    ASSUME NEW d \in DbState, DOMAIN d.refs = DOMAIN d.contents, NEW mems
    PROVE  /\ Ref(d, mems) \in DbState
           /\ Ref(d, mems).mem = d.mem /\ Ref(d, mems).imm = d.imm /\ Ref(d, mems).contents = d.contents
           /\ SameFiles(d, Ref(d, mems)) /\ SameRest(d, Ref(d, mems))
           /\ DOMAIN Ref(d, mems).refs = DOMAIN d.refs
           /\ \A m \in DOMAIN d.refs : Ref(d, mems).refs[m] = IF m \in mems THEN d.refs[m] + 1 ELSE d.refs[m]
<1> DEFINE refs == [m \in DOMAIN d.refs |-> IF m \in mems THEN d.refs[m] + 1 ELSE d.refs[m]]
<1>1. d.refs \in Seq(Int) /\ \A m \in DOMAIN d.refs : d.refs[m] \in Int
  BY DEF DbState
<1>2. refs \in Seq(Int)
  BY <1>1, SameLength
<1>3. Ref(d, mems) = [d EXCEPT !.refs = refs]
  BY DEF Ref
<1> HIDE DEF refs
<1>4. Ref(d, mems).refs = refs
  BY <1>3 DEF DbState
<1>5. Ref(d, mems) \in DbState
  BY <1>2, <1>3 DEF DbState
<1>6. /\ Ref(d, mems).mem = d.mem /\ Ref(d, mems).imm = d.imm /\ Ref(d, mems).contents = d.contents
      /\ SameFiles(d, Ref(d, mems)) /\ SameRest(d, Ref(d, mems))
  BY <1>3 DEF DbState, SameFiles, SameRest
<1> QED
  BY <1>4, <1>5, <1>6 DEF refs

\* Unref counts one less, and empties a memtable when nobody is left.
LEMMA UnrefIs ==
    ASSUME NEW d \in DbState, DOMAIN d.refs = DOMAIN d.contents, NEW mems
    PROVE  LET e == Unref(d, mems)
           IN  /\ e \in DbState
               /\ e.mem = d.mem /\ e.imm = d.imm /\ SameFiles(d, e) /\ SameRest(d, e)
               /\ DOMAIN e.refs = DOMAIN d.refs /\ DOMAIN e.contents = DOMAIN d.contents
               /\ \A m \in DOMAIN d.refs :
                      /\ e.refs[m] = IF m \in mems THEN d.refs[m] - 1 ELSE d.refs[m]
                      /\ e.contents[m] = IF e.refs[m] = 0 THEN {} ELSE d.contents[m]
<1> DEFINE e == Unref(d, mems)
           refs == [m \in DOMAIN d.refs |-> IF m \in mems THEN d.refs[m] - 1 ELSE d.refs[m]]
           contents == [m \in DOMAIN refs |-> IF refs[m] = 0 THEN {} ELSE d.contents[m]]
<1>1. /\ d.refs \in Seq(Int) /\ \A m \in DOMAIN d.refs : d.refs[m] \in Int
      /\ d.contents \in Seq(SUBSET Nat) /\ \A m \in DOMAIN d.contents : d.contents[m] \in SUBSET Nat
  BY DEF DbState
<1>2. refs \in Seq(Int)
  BY <1>1, SameLength
<1>3. DOMAIN refs = DOMAIN d.refs /\ DOMAIN contents = DOMAIN d.contents
  OBVIOUS
<1>4. contents \in Seq(SUBSET Nat)
  <2>1. \A m \in DOMAIN d.contents : contents[m] \in SUBSET Nat
    BY <1>1
  <2>2. contents = [m \in DOMAIN contents |-> contents[m]]
    BY <1>3
  <2> HIDE DEF contents
  <2> QED
    BY <1>1, <1>3, <2>1, <2>2, SameLength
<1>5. e = [d EXCEPT !.refs = refs, !.contents = contents]
  BY DEF Unref
<1>6. /\ \A m \in DOMAIN d.refs : refs[m] = IF m \in mems THEN d.refs[m] - 1 ELSE d.refs[m]
      /\ \A m \in DOMAIN d.refs : contents[m] = IF refs[m] = 0 THEN {} ELSE d.contents[m]
  OBVIOUS
<1> HIDE DEF refs, contents, e
<1>7. e.refs = refs /\ e.contents = contents
  BY <1>5 DEF DbState
<1>8. e \in DbState
  BY <1>2, <1>4, <1>5 DEF DbState
<1>9. e.mem = d.mem /\ e.imm = d.imm /\ SameFiles(d, e) /\ SameRest(d, e)
  BY <1>5 DEF DbState, SameFiles, SameRest
<1> QED
  BY <1>3, <1>6, <1>7, <1>8, <1>9 DEF e

\* A reader starts with what it has a right to find.
LEMMA GetIs ==
    ASSUME Parameters, TypeInv, NEW t \in Threads, NEW o \in Calls[t], Get(t, o)
    PROVE  LET mems == {db.mem, db.imm} \ {None}
           IN  /\ thread' \in [Threads -> ThreadState]
               /\ \A u \in Threads \ {t} : thread'[u] = thread[u]
               /\ thread[t].pc = "idle" /\ thread'[t].pc = "reading" /\ thread'[t].op = o
               /\ thread'[t].asleep = thread[t].asleep /\ thread'[t].late = thread[t].late
               /\ thread'[t].calls = thread[t].calls + 1
               /\ thread'[t].held \in Holding
               /\ thread'[t].held = [snapshot |-> db.lastSequence, mems |-> mems, tables |-> db.tables,
                                     due |-> {s \in Found(mems, db.tables) : s <= db.lastSequence}]
               /\ mems \subseteq DOMAIN db.contents
<1> DEFINE mems == {db.mem, db.imm} \ {None}
           held == [snapshot |-> db.lastSequence, mems |-> mems, tables |-> db.tables,
                    due |-> {s \in Found(mems, db.tables) : s <= db.lastSequence}]
<1>1. thread \in [Threads -> ThreadState] /\ thread[t] \in ThreadState /\ db \in DbState
  BY DEF TypeInv
<1>2. o \in Call
  BY DEF Parameters, Call
<1>3. mems \subseteq DOMAIN db.contents
  BY DEF TypeInv
<1>4. held \in Holding
  <2>1. db.tables \in SUBSET Nat /\ db.lastSequence \in Nat /\ db.contents \in Seq(SUBSET Nat)
    BY <1>1 DEF DbState
  <2>2. Found(mems, db.tables) \in SUBSET Nat
    BY <1>3, <2>1, FoundType
  <2>3. DOMAIN db.contents \subseteq Nat
    BY <2>1
  <2> QED
    BY <1>3, <2>1, <2>2, <2>3 DEF Holding
<1>5. thread' = [thread EXCEPT ![t] = [@ EXCEPT !.pc = "reading", !.op = o, !.calls = thread[t].calls + 1, !.held = held]]
  BY DEF Get
<1> HIDE DEF held
<1>6. /\ thread'[t].pc = "reading" /\ thread'[t].op = o
      /\ thread'[t].asleep = thread[t].asleep /\ thread'[t].late = thread[t].late
      /\ thread'[t].calls = thread[t].calls + 1 /\ thread'[t].held = held
      /\ thread'[t].allowDelay = thread[t].allowDelay /\ thread'[t].force = thread[t].force
      /\ thread'[t].owed = thread[t].owed
      /\ thread'[t] = [f \in DOMAIN thread[t] |-> thread'[t][f]]
  BY <1>1, <1>5 DEF ThreadState
<1>7. /\ thread'[t].asleep \in {"no", "own", "bg"} /\ thread'[t].late \in BOOLEAN /\ thread'[t].calls \in Nat
      /\ thread'[t].allowDelay \in BOOLEAN /\ thread'[t].force \in BOOLEAN /\ thread'[t].owed \in SUBSET Nat
      /\ thread'[t].op \in Call /\ thread'[t].held \in Holding \cup {None} /\ thread'[t].pc \in PCs
  <2>1. /\ thread[t].asleep \in {"no", "own", "bg"} /\ thread[t].late \in BOOLEAN /\ thread[t].calls \in Nat
        /\ thread[t].allowDelay \in BOOLEAN /\ thread[t].force \in BOOLEAN /\ thread[t].owed \in SUBSET Nat
    BY <1>1 DEF ThreadState
  <2> QED
    BY <1>2, <1>4, <1>6, <2>1 DEF PCs
<1>8. thread'[t] \in ThreadState
  BY <1>1, <1>6, <1>7, ThreadStateFrom
<1>9. thread[t].pc = "idle"
  BY DEF Get, CanCall
<1>10. thread' \in [Threads -> ThreadState] /\ \A u \in Threads \ {t} : thread'[u] = thread[u]
  BY <1>1, <1>5, <1>8
<1> QED
  BY <1>3, <1>4, <1>6, <1>9, <1>10 DEF held

\* The thread whose Get returns.
LEMMA GetReturnsIs ==
    ASSUME TypeInv, NEW t \in Threads, NEW wasted \in BOOLEAN, GetReturns(t, wasted)
    PROVE  /\ thread' \in [Threads -> ThreadState]
           /\ \A u \in Threads \ {t} : thread'[u] = thread[u]
           /\ thread[t].pc = "reading" /\ thread'[t].pc = "idle" /\ thread'[t].op = thread[t].op
           /\ thread'[t].asleep = thread[t].asleep /\ thread'[t].late = thread[t].late
           /\ thread'[t].calls = thread[t].calls
<1>1. thread \in [Threads -> ThreadState] /\ thread[t] \in ThreadState
  BY DEF TypeInv
<1>5. thread' = [thread EXCEPT ![t].pc = "idle", ![t].held = None]
  BY DEF GetReturns
<1>6. /\ thread'[t].pc = "idle" /\ thread'[t].op = thread[t].op
      /\ thread'[t].asleep = thread[t].asleep /\ thread'[t].late = thread[t].late
      /\ thread'[t].calls = thread[t].calls /\ thread'[t].held = None
      /\ thread'[t].allowDelay = thread[t].allowDelay /\ thread'[t].force = thread[t].force
      /\ thread'[t].owed = thread[t].owed
      /\ thread'[t] = [f \in DOMAIN thread[t] |-> thread'[t][f]]
  BY <1>1, <1>5 DEF ThreadState
<1>7. /\ thread'[t].asleep \in {"no", "own", "bg"} /\ thread'[t].late \in BOOLEAN /\ thread'[t].calls \in Nat
      /\ thread'[t].allowDelay \in BOOLEAN /\ thread'[t].force \in BOOLEAN /\ thread'[t].owed \in SUBSET Nat
      /\ thread'[t].op \in Call /\ thread'[t].held \in Holding \cup {None} /\ thread'[t].pc \in PCs
  <2>1. /\ thread[t].asleep \in {"no", "own", "bg"} /\ thread[t].late \in BOOLEAN /\ thread[t].calls \in Nat
        /\ thread[t].allowDelay \in BOOLEAN /\ thread[t].force \in BOOLEAN /\ thread[t].owed \in SUBSET Nat
        /\ thread[t].op \in Call
    BY <1>1 DEF ThreadState
  <2> QED
    BY <1>6, <2>1 DEF PCs
<1>8. thread'[t] \in ThreadState
  BY <1>1, <1>6, <1>7, ThreadStateFrom
<1>9. thread[t].pc = "reading"
  BY DEF GetReturns
<1>10. thread' \in [Threads -> ThreadState] /\ \A u \in Threads \ {t} : thread'[u] = thread[u]
  BY <1>1, <1>5, <1>8
<1> QED
  BY <1>6, <1>9, <1>10

\* The database after the return of a Get, and who may be scheduled by it.
LEMMA GetReturnsStore ==
    ASSUME TypeInv, NEW t \in Threads, NEW wasted \in BOOLEAN, GetReturns(t, wasted)
    PROVE  LET e == Unref(db, thread[t].held.mems)
           IN  /\ db' \in DbState /\ SameTables(e, db') /\ SameFiles(e, db') /\ db'.level0 = e.level0
               /\ db'.seek = (db.seek \/ wasted)
               /\ bg' \in BgState /\ bg' = IF wasted THEN MaybeScheduleCompaction(bg, db') ELSE bg
<1> DEFINE e == Unref(db, thread[t].held.mems)
<1>1. db \in DbState /\ bg \in BgState /\ DOMAIN db.refs = DOMAIN db.contents
  BY DEF TypeInv
<1>2. e \in DbState /\ e.seek = db.seek
  BY <1>1, UnrefIs DEF SameRest
<1>3. db' = [e EXCEPT !.seek = @ \/ wasted]
  BY DEF GetReturns
<1> HIDE DEF e
<1>4. db' \in DbState /\ SameTables(e, db') /\ SameFiles(e, db') /\ db'.level0 = e.level0 /\ db'.seek = (db.seek \/ wasted)
  <2>1. /\ db' = [f \in DOMAIN e |-> db'[f]]
        /\ SameTables(e, db') /\ SameFiles(e, db') /\ db'.level0 = e.level0 /\ db'.seek = (e.seek \/ wasted)
    BY <1>2, <1>3 DEF DbState, SameTables, SameFiles
  <2>2. /\ e.mem \in Nat /\ e.imm \in Nat \cup {None} /\ e.contents \in Seq(SUBSET Nat) /\ e.refs \in Seq(Int)
        /\ e.tables \in SUBSET Nat /\ e.lastSequence \in Nat /\ e.unsynced \in SUBSET Nat /\ e.level0 \in Int
        /\ e.seek \in BOOLEAN
    BY <1>2 DEF DbState
  <2>3. /\ db'.mem \in Nat /\ db'.imm \in Nat \cup {None} /\ db'.contents \in Seq(SUBSET Nat) /\ db'.refs \in Seq(Int)
        /\ db'.tables \in SUBSET Nat /\ db'.lastSequence \in Nat /\ db'.unsynced \in SUBSET Nat /\ db'.level0 \in Int
        /\ db'.seek \in BOOLEAN
    BY <2>1, <2>2 DEF SameTables, SameFiles
  <2> QED
    BY <1>2, <2>1, <2>3, DbStateFrom
<1>5. bg' = IF wasted THEN MaybeScheduleCompaction(bg, db') ELSE bg
  BY DEF GetReturns
<1>6. bg' \in BgState
  BY <1>1, <1>5, ScheduleIs
<1> QED
  BY <1>4, <1>5, <1>6 DEF e

\* The memtable becomes the immutable one, and a new one has nothing in it.
LEMMA RoomSwitchStore ==
    ASSUME TypeInv, NEW t \in Threads, RoomSwitch(t)
    PROVE  /\ db' \in DbState /\ SameFiles(db, db') /\ SameRest(db, db')
           /\ db.imm = None /\ db'.imm = db.mem /\ db'.mem = Len(db.contents) + 1
           /\ DOMAIN db'.contents = DOMAIN db.contents \cup {db'.mem} /\ Len(db'.contents) = db'.mem
           /\ db'.contents[db'.mem] = {} /\ \A m \in DOMAIN db.contents : db'.contents[m] = db.contents[m]
           /\ DOMAIN db'.refs = DOMAIN db.refs \cup {db'.mem}
           /\ db'.refs[db'.mem] = 1 /\ \A m \in DOMAIN db.refs : db'.refs[m] = db.refs[m]
           /\ db'.mem \notin DOMAIN db.contents
           /\ bg' \in BgState /\ bg' = MaybeScheduleCompaction(bg, db')
<1> DEFINE contents == Append(db.contents, {})
           refs == Append(db.refs, 1)
<1>1. db \in DbState /\ bg \in BgState /\ DOMAIN db.refs = DOMAIN db.contents /\ db.mem \in DOMAIN db.contents
  BY DEF TypeInv
<1>2. db.contents \in Seq(SUBSET Nat) /\ db.refs \in Seq(Int) /\ Len(db.contents) = Len(db.refs)
  BY <1>1 DEF DbState
<1>3. /\ contents \in Seq(SUBSET Nat) /\ refs \in Seq(Int)
      /\ DOMAIN contents = DOMAIN db.contents \cup {Len(db.contents) + 1}
      /\ DOMAIN refs = DOMAIN db.refs \cup {Len(db.contents) + 1}
      /\ Len(contents) = Len(db.contents) + 1
      /\ contents[Len(db.contents) + 1] = {} /\ \A m \in DOMAIN db.contents : contents[m] = db.contents[m]
      /\ refs[Len(db.contents) + 1] = 1 /\ \A m \in DOMAIN db.refs : refs[m] = db.refs[m]
      /\ Len(db.contents) + 1 \notin DOMAIN db.contents
      /\ Len(db.contents) + 1 \in Nat /\ db.mem \in Nat
  <2>1. /\ contents \in Seq(SUBSET Nat) /\ Len(contents) = Len(db.contents) + 1
        /\ \A i \in 1 .. Len(db.contents) + 1 : contents[i] = IF i <= Len(db.contents) THEN db.contents[i] ELSE {}
    BY <1>2, {} \in SUBSET Nat, AppendProperties
  <2>2. /\ refs \in Seq(Int) /\ Len(refs) = Len(db.contents) + 1
        /\ \A i \in 1 .. Len(db.contents) + 1 : refs[i] = IF i <= Len(db.contents) THEN db.refs[i] ELSE 1
    BY <1>2, 1 \in Int, AppendProperties
  <2>3. DOMAIN db.contents = 1..Len(db.contents) /\ Len(db.contents) \in Nat /\ DOMAIN db.refs = 1..Len(db.contents)
    BY <1>1, <1>2
  <2> HIDE DEF contents, refs
  <2>4. DOMAIN contents = 1 .. Len(db.contents) + 1 /\ DOMAIN refs = 1 .. Len(db.contents) + 1
    BY <2>1, <2>2
  <2> QED
    BY <1>1, <2>1, <2>2, <2>3, <2>4
<1>4. db' = [db EXCEPT !.imm = db.mem, !.mem = Len(db.contents) + 1, !.contents = contents, !.refs = refs]
  BY DEF RoomSwitch
<1> HIDE DEF contents, refs
<1>5. /\ db' = [f \in DOMAIN db |-> db'[f]]
      /\ SameFiles(db, db') /\ SameRest(db, db') /\ db'.imm = db.mem /\ db'.mem = Len(db.contents) + 1
      /\ db'.contents = contents /\ db'.refs = refs
  BY <1>1, <1>4 DEF DbState, SameFiles, SameRest
<1>6. db' \in DbState
  <2>1. /\ db.tables \in SUBSET Nat /\ db.lastSequence \in Nat /\ db.unsynced \in SUBSET Nat /\ db.level0 \in Int
        /\ db.seek \in BOOLEAN
    BY <1>1 DEF DbState
  <2>2. /\ db'.mem \in Nat /\ db'.imm \in Nat \cup {None} /\ db'.contents \in Seq(SUBSET Nat) /\ db'.refs \in Seq(Int)
        /\ db'.tables \in SUBSET Nat /\ db'.lastSequence \in Nat /\ db'.unsynced \in SUBSET Nat /\ db'.level0 \in Int
        /\ db'.seek \in BOOLEAN
    BY <1>3, <1>5, <2>1 DEF SameFiles, SameRest
  <2> QED
    BY <1>1, <1>5, <2>2, DbStateFrom
<1>7. bg' = MaybeScheduleCompaction(bg, db') /\ db.imm = None
  BY DEF RoomSwitch, MustWait
<1>8. bg' \in BgState
  BY <1>1, <1>7, ScheduleIs
<1> QED
  BY <1>3, <1>5, <1>6, <1>7, <1>8

\* The database and the group after AddRecord.
LEMMA AddRecordStore ==
    ASSUME TypeInv, NEW t \in Threads, NEW ok \in BOOLEAN, AddRecord(t, ok)
    PROVE  /\ db' \in DbState /\ SameTables(db, db') /\ SameRest(db, db')
           /\ db'.tables = db.tables /\ db'.lastSequence = db.lastSequence
           /\ db'.unsynced \subseteq db.unsynced \cup ToSet(group.todo)
           /\ group' \in GroupState /\ group'.members = group.members /\ group'.todo = group.todo
           /\ group'.last = group.last /\ group'.ok = ok
<1>1. db \in DbState /\ group \in GroupState
  BY DEF TypeInv
<1>2. group.todo \in Seq(Nat)
  BY <1>1 DEF GroupState
<1>3. ToSet(group.todo) \in SUBSET Nat
  BY <1>2 DEF ToSet
<1>4. db' = IF ok THEN [db EXCEPT !.unsynced = @ \cup ToSet(group.todo)] ELSE db
  BY DEF AddRecord
<1>5. db' \in DbState /\ SameTables(db, db') /\ SameRest(db, db')
      /\ db'.tables = db.tables /\ db'.lastSequence = db.lastSequence
      /\ db'.unsynced \subseteq db.unsynced \cup ToSet(group.todo)
  <2>1. CASE ok
    <3>1. db' = [db EXCEPT !.unsynced = @ \cup ToSet(group.todo)]
      BY <1>4, <2>1
    <3> QED
      BY <1>1, <1>3, <3>1 DEF DbState, SameTables, SameRest
  <2>2. CASE ~ok
    BY <1>1, <1>4, <2>2 DEF SameTables, SameRest
  <2> QED
    BY <2>1, <2>2
<1>6. group' = [group EXCEPT !.ok = ok]
  BY DEF AddRecord
<1>7. /\ group' \in GroupState /\ group'.members = group.members /\ group'.todo = group.todo
      /\ group'.last = group.last /\ group'.ok = ok
  BY <1>1, <1>6 DEF GroupState
<1> QED
  BY <1>5, <1>7

\* The database and the group after Sync.
LEMMA SyncStore ==
    ASSUME TypeInv, NEW t \in Threads, NEW ok \in BOOLEAN, Sync(t, ok)
    PROVE  /\ db' \in DbState /\ SameTables(db, db') /\ SameRest(db, db')
           /\ db'.tables = db.tables /\ db'.lastSequence = db.lastSequence
           /\ db'.unsynced = IF ok THEN db.unsynced \ InLog ELSE db.unsynced
           /\ group' \in GroupState /\ group'.members = group.members /\ group'.todo = group.todo
           /\ group'.last = group.last /\ group'.ok = ok
<1>1. db \in DbState /\ group \in GroupState
  BY DEF TypeInv
<1>4. db' = IF ok THEN [db EXCEPT !.unsynced = @ \ InLog] ELSE db
  BY DEF Sync
<1>5. db' \in DbState /\ SameTables(db, db') /\ SameRest(db, db')
      /\ db'.tables = db.tables /\ db'.lastSequence = db.lastSequence
      /\ db'.unsynced = IF ok THEN db.unsynced \ InLog ELSE db.unsynced
  BY <1>1, <1>4 DEF DbState, SameTables, SameRest
<1>6. group' = [group EXCEPT !.ok = ok]
  BY DEF Sync
<1>7. /\ group' \in GroupState /\ group'.members = group.members /\ group'.todo = group.todo
      /\ group'.last = group.last /\ group'.ok = ok
  BY <1>1, <1>6 DEF GroupState
<1> QED
  BY <1>5, <1>7

\* The database and the group after the insertion of one entry.
LEMMA InsertStore ==
    ASSUME TypeInv, NEW t \in Threads, Insert(t), group.todo # <<>>
    PROVE  /\ db' \in DbState /\ db'.mem = db.mem /\ db'.imm = db.imm /\ db'.refs = db.refs
           /\ SameFiles(db, db') /\ SameRest(db, db')
           /\ DOMAIN db'.contents = DOMAIN db.contents
           /\ db'.contents[db.mem] = db.contents[db.mem] \cup {group.todo[1]}
           /\ \A m \in DOMAIN db.contents \ {db.mem} : db'.contents[m] = db.contents[m]
           /\ group' \in GroupState /\ group'.members = group.members /\ group'.last = group.last
           /\ group'.ok = group.ok
           /\ Len(group'.todo) = Len(group.todo) - 1
           /\ \A i \in DOMAIN group'.todo : group'.todo[i] = group.todo[i + 1] /\ i + 1 \in DOMAIN group.todo
<1>1. db \in DbState /\ group \in GroupState /\ db.mem \in DOMAIN db.contents
  BY DEF TypeInv
<1>2. group.todo \in Seq(Nat) /\ db.contents \in Seq(SUBSET Nat)
  BY <1>1 DEF DbState, GroupState
<1>3. Head(group.todo) = group.todo[1] /\ group.todo[1] \in Nat
  BY <1>2
<1> DEFINE contents == [db.contents EXCEPT ![db.mem] = @ \cup {Head(group.todo)}]
<1>4. /\ contents \in Seq(SUBSET Nat) /\ DOMAIN contents = DOMAIN db.contents
      /\ contents[db.mem] = db.contents[db.mem] \cup {group.todo[1]}
      /\ \A m \in DOMAIN db.contents \ {db.mem} : contents[m] = db.contents[m]
  BY <1>1, <1>2, <1>3
<1>5. db' = [db EXCEPT !.contents = contents]
  BY <1>1 DEF Insert, DbState
<1> HIDE DEF contents
<1>6. /\ db' \in DbState /\ db'.mem = db.mem /\ db'.imm = db.imm /\ db'.refs = db.refs
      /\ SameFiles(db, db') /\ SameRest(db, db') /\ db'.contents = contents
  BY <1>1, <1>4, <1>5 DEF DbState, SameFiles, SameRest
<1>7. group' = [group EXCEPT !.todo = Tail(@)]
  BY DEF Insert
<1>8. /\ Tail(group.todo) \in Seq(Nat) /\ Len(Tail(group.todo)) = Len(group.todo) - 1
      /\ \A i \in DOMAIN Tail(group.todo) : Tail(group.todo)[i] = group.todo[i + 1] /\ i + 1 \in DOMAIN group.todo
  BY <1>2
<1>9. /\ group' \in GroupState /\ group'.members = group.members /\ group'.last = group.last
      /\ group'.ok = group.ok /\ group'.todo = Tail(group.todo)
  BY <1>1, <1>7, <1>8 DEF GroupState
<1> QED
  BY <1>4, <1>6, <1>8, <1>9

\* The database, the background thread and the group after the end of a write.
LEMMA CommitStore ==
    ASSUME TypeInv, NEW t \in Threads, Commit(t)
    PROVE  /\ db' \in DbState /\ SameTables(db, db') /\ SameRest(db, db')
           /\ db'.tables = db.tables /\ db'.unsynced = db.unsynced /\ db'.lastSequence = group.last
           /\ bg' \in BgState /\ bg'.error = (bg.error \/ thread[t].pc = "sync failed")
           /\ bg'.pc = bg.pc /\ bg'.manual = bg.manual /\ bg'.done = bg.done /\ bg'.left = bg.left
           /\ bg'.isManual = bg.isManual /\ bg'.picked = bg.picked /\ bg'.shutdown = bg.shutdown
           /\ bg'.inCompaction = bg.inCompaction /\ bg'.crashed = bg.crashed
           /\ group' = NoGroup /\ NoGroup \in GroupState
<1>1. db \in DbState /\ bg \in BgState /\ group \in GroupState
  BY DEF TypeInv
<1>2. group.last \in Nat
  BY <1>1 DEF GroupState
<1>3. db' = [db EXCEPT !.lastSequence = group.last] /\ group' = NoGroup
  BY DEF Commit
<1>4. /\ db' \in DbState /\ SameTables(db, db') /\ SameRest(db, db')
      /\ db'.tables = db.tables /\ db'.unsynced = db.unsynced /\ db'.lastSequence = group.last
  BY <1>1, <1>2, <1>3 DEF DbState, SameTables, SameRest
<1>5. bg' = [bg EXCEPT !.error = @ \/ thread[t].pc = "sync failed"]
  BY DEF Commit
<1>6. /\ bg' \in BgState /\ bg'.error = (bg.error \/ thread[t].pc = "sync failed")
      /\ bg'.pc = bg.pc /\ bg'.manual = bg.manual /\ bg'.done = bg.done /\ bg'.left = bg.left
      /\ bg'.isManual = bg.isManual /\ bg'.picked = bg.picked /\ bg'.shutdown = bg.shutdown
      /\ bg'.inCompaction = bg.inCompaction /\ bg'.crashed = bg.crashed
  BY <1>1, <1>5 DEF BgState
<1>7. NoGroup \in GroupState
  BY DEF NoGroup, GroupState
<1> QED
  BY <1>3, <1>4, <1>6, <1>7

-----------------------------------------------------------------------------
(* What the background thread does.                                        *)

\* Its call is over, or it has crashed; if nothing is left to do, everybody who
\* slept on it is awake.
Ends(b) ==
    /\ bg' \in BgState /\ bg'.shutdown = b.shutdown /\ bg'.error = b.error
    /\ thread' \in {thread, SignalAll(thread)}
    /\ bg'.pc = "idle" => thread' = SignalAll(thread)
    /\ bg'.pc = "idle" /\ ~bg'.error /\ ~bg'.shutdown => ~Work'
    /\ \/ bg'.pc \in {"idle", "scheduled"} /\ bg'.picked = 0
       \/ bg'.pc = b.pc /\ bg'.pc # "idle" /\ bg'.crashed

\* The end of BackgroundCall: it may schedule another.
LEMMA EndCallIs ==
    ASSUME NEW b \in BgState, NEW d, EndCall(b, d)
    PROVE  Ends(b) /\ db' = d /\ bg'.pc \in {"idle", "scheduled"} /\ bg'.picked = 0
<1> DEFINE c == [b EXCEPT !.pc = "idle", !.isManual = FALSE, !.inCompaction = FALSE, !.picked = 0]
<1>1. /\ c \in BgState /\ c.shutdown = b.shutdown /\ c.error = b.error /\ c.picked = 0 /\ c.pc = "idle"
      /\ c.manual = b.manual
  <2>1. /\ c = [f \in DOMAIN b |-> c[f]]
        /\ c.pc = "idle" /\ c.error = b.error /\ c.manual = b.manual /\ c.done = b.done /\ c.left = b.left
        /\ c.isManual = FALSE /\ c.inCompaction = FALSE /\ c.picked = 0 /\ c.shutdown = b.shutdown
        /\ c.crashed = b.crashed
    BY DEF BgState
  <2>2. /\ b.error \in BOOLEAN /\ b.manual \in Threads \cup {None} /\ b.done \in SUBSET Threads
        /\ b.left \in [Threads -> Int] /\ b.shutdown \in BOOLEAN /\ b.crashed \in BOOLEAN
    BY DEF BgState
  <2>4. c.isManual \in BOOLEAN /\ c.inCompaction \in BOOLEAN /\ c.picked \in Int
    BY DEF BgState
  <2> HIDE DEF c
  <2>3. /\ c.pc \in BgPCs /\ c.error \in BOOLEAN /\ c.manual \in Threads \cup {None} /\ c.done \in SUBSET Threads
        /\ c.left \in [Threads -> Int] /\ c.isManual \in BOOLEAN /\ c.inCompaction \in BOOLEAN /\ c.picked \in Int
        /\ c.shutdown \in BOOLEAN /\ c.crashed \in BOOLEAN
    BY <2>1, <2>2, <2>4 DEF BgPCs
  <2> QED
    BY <2>1, <2>3, BgStateFrom
<1>2. bg' = MaybeScheduleCompaction(c, d) /\ db' = d /\ thread' = SignalAll(thread)
  BY DEF EndCall
<1> HIDE DEF c
<1>3. /\ bg' \in BgState /\ bg'.shutdown = b.shutdown /\ bg'.error = b.error /\ bg'.picked = 0
      /\ bg'.manual = b.manual /\ bg'.pc \in {"idle", "scheduled"}
      /\ (d.imm # None \/ b.manual # None \/ NeedsCompaction(d)) /\ ~b.error /\ ~b.shutdown => bg'.pc # "idle"
  BY <1>1, <1>2, ScheduleIs
<1> QED
  BY <1>2, <1>3 DEF Ends, Work

\* The end of BackgroundCompaction, with or without a request.
LEMMA EndCompactionIs ==
    ASSUME NEW b \in BgState, NEW d, NEW ok \in BOOLEAN, b.pc # "idle", EndCompaction(b, d, ok)
    PROVE  Ends(b) /\ db' = d
<1>1. CASE ~b.isManual
  BY <1>1, EndCallIs DEF EndCompaction
<1>2. CASE b.isManual /\ b.manual = None
  <2>1. bg' = [b EXCEPT !.crashed = TRUE] /\ db' = d /\ thread' = thread
    BY <1>2 DEF EndCompaction, BgGoes
  <2>2. /\ bg' \in BgState /\ bg'.shutdown = b.shutdown /\ bg'.error = b.error /\ bg'.pc = b.pc /\ bg'.crashed
    BY <2>1 DEF BgState
  <2> QED
    BY <2>1, <2>2 DEF Ends
<1>3. CASE b.isManual /\ b.manual # None
  <2> DEFINE c == [b EXCEPT !.manual = None, !.done = IF ok THEN @ ELSE @ \cup {b.manual}]
  <2>1. c \in BgState /\ c.shutdown = b.shutdown /\ c.error = b.error
    BY <1>3 DEF BgState
  <2>2. EndCall(c, d)
    BY <1>3 DEF EndCompaction
  <2> HIDE DEF c
  <2>3. Ends(c) /\ db' = d
    BY <2>1, <2>2, EndCallIs
  <2>4. bg'.pc \in {"idle", "scheduled"} /\ bg'.picked = 0
    BY <2>1, <2>2, EndCallIs
  <2> QED
    BY <2>1, <2>3, <2>4 DEF Ends
<1> QED
  BY <1>1, <1>2, <1>3

\* An operation that fails uses up one of the failures.
LEMMA OutcomeIs ==
    ASSUME Parameters, failures \in Nat, NEW ok \in BOOLEAN, Outcome(ok)
    PROVE  failures' \in Nat /\ (failures <= MaxFailures => failures' <= MaxFailures)
BY DEF Parameters, Outcome

\* The table of the immutable memtable takes its place.
Installs ==
    /\ db.imm # None
    /\ db'.mem = db.mem /\ db'.imm = None
    /\ db'.contents = Unref(db, {db.imm}).contents /\ db'.refs = Unref(db, {db.imm}).refs
    /\ db'.tables = db.tables \cup db.contents[db.imm]
    /\ db'.lastSequence = db.lastSequence /\ db'.unsynced = db.unsynced \ db.contents[db.imm]

BackgroundIs ==
    /\ ~bg.crashed /\ bg.pc # "idle"
    /\ UNCHANGED <<mutex, queue, group, acked>>
    /\ thread' \in {thread, SignalAll(thread)}
    /\ bg' \in BgState /\ bg'.shutdown = bg.shutdown /\ (bg.error => bg'.error)
    /\ bg'.pc = "idle" => thread' = SignalAll(thread)
    /\ bg'.pc = "idle" /\ ~bg'.error /\ ~bg'.shutdown => ~Work'
    /\ db' \in DbState
    /\ (SameTables(db, db') /\ SameFiles(db, db')) \/ Installs
    /\ LevelInv'
    /\ failures' \in Nat /\ (failures <= MaxFailures => failures' <= MaxFailures)

\* A step that goes on, and one that ends the call.
LEMMA BgGoesIs ==
    ASSUME Parameters, TypeInv, LevelInv, NEW pc, BgStep(pc), pc # "idle", NEW b \in BgState, BgGoes(b, db),
           b.pc # "idle", b.error = bg.error, b.shutdown = bg.shutdown, thread' \in {thread, SignalAll(thread)},
           b.crashed = bg.crashed, b.picked \in 0..db.level0,
           b.pc \in {"memtable", "memtable manifest"} => db.imm # None,
           failures' \in Nat, failures <= MaxFailures => failures' <= MaxFailures
    PROVE  BackgroundIs
<1>1. db' = db /\ bg' = b /\ db \in DbState
  BY DEF BgGoes, TypeInv
<1>2. LevelInv'
  BY <1>1 DEF LevelInv
<1> QED
  BY <1>1, <1>2 DEF BackgroundIs, BgStep, Free, SameTables, SameFiles

\* A call that ends has the effect of a step of the background thread.
LEMMA BgEndsIs ==
    ASSUME Parameters, TypeInv, LevelInv, NEW pc, BgStep(pc), pc # "idle",
           bg'.pc \in {"idle", "scheduled"} \/ pc \in {"scheduled", "compacting", "manifest"},
           NEW b \in BgState, Ends(b), b.pc = pc, b.shutdown = bg.shutdown, bg.error => b.error,
           db' \in DbState, SameTables(db, db'), SameFiles(db, db'),
           db'.level0 \in 0..db.level0,
           failures' \in Nat, failures <= MaxFailures => failures' <= MaxFailures
    PROVE  BackgroundIs
<1>1. db.level0 \in Int /\ db'.imm = db.imm /\ L0Stop \in Nat
  BY DEF Parameters, TypeInv, DbState, SameTables
<1>2. LevelInv'
  <2>0. db.level0 \in 0..L0Stop /\ (db.imm # None => db.level0 < L0Stop)
    BY DEF LevelInv
  <2>1. db'.level0 \in 0..L0Stop /\ (db'.imm # None => db'.level0 < L0Stop)
    BY <1>1, <2>0
  <2>2. (bg'.pc \in {"idle", "scheduled"} /\ bg'.picked = 0) \/ (bg'.crashed /\ bg'.pc = pc)
    BY DEF Ends
  <2>3. 0 \in 0..db'.level0
    BY <1>1
  <2>4. ~bg'.crashed => bg'.picked \in 0..db'.level0
    BY <2>2, <2>3
  <2>5. bg'.pc \notin {"memtable", "memtable manifest"}
    BY <2>2
  <2> QED
    BY <2>1, <2>4, <2>5 DEF LevelInv
<1> QED
  BY <1>2 DEF BackgroundIs, BgStep, Free, Ends

\* The compaction picked no more files than level 0 has.
LEMMA LevelIs ==
    ASSUME TypeInv, LevelInv
    PROVE  db.level0 \in Nat /\ db.level0 \in 0..db.level0 /\ (~bg.crashed => bg.picked \in 0..db.level0)
<1>1. db.level0 \in Int
  BY DEF TypeInv, DbState
<1>2. db.level0 \in 0..L0Stop /\ (~bg.crashed => bg.picked \in 0..db.level0)
  BY DEF LevelInv
<1> QED
  BY <1>1, <1>2

\* BackgroundCall with nothing to do.
LEMMA BgIdleIs ==
    ASSUME Parameters, TypeInv, LevelInv, BgIdle PROVE BackgroundIs
<1>1. bg \in BgState /\ db \in DbState /\ failures \in Nat
  BY DEF TypeInv
<1>2. EndCall(bg, db) /\ BgStep("scheduled") /\ failures' = failures /\ bg.pc = "scheduled"
  BY DEF BgIdle, BgStep
<1>3. Ends(bg) /\ db' = db /\ bg'.pc \in {"idle", "scheduled"}
  BY <1>1, <1>2, EndCallIs
<1>4. db'.level0 \in 0..db.level0 /\ SameTables(db, db') /\ SameFiles(db, db')
  BY <1>3, LevelIs DEF SameTables, SameFiles
<1> QED
  BY <1>1, <1>2, <1>3, <1>4, BgEndsIs

\* The background thread takes the immutable memtable.
LEMMA BgMemTableIs ==
    ASSUME Parameters, TypeInv, LevelInv, BgMemTable PROVE BackgroundIs
<1> DEFINE b == [bg EXCEPT !.pc = "memtable", !.inCompaction = (bg.pc = "compacting")]
<1>1. bg \in BgState /\ failures \in Nat
  BY DEF TypeInv
<1>2. BgGoes(b, db) /\ BgStep(bg.pc) /\ db.imm # None /\ bg.pc \in {"scheduled", "compacting"}
      /\ thread' = thread /\ failures' = failures
  BY DEF BgMemTable, BgStep
<1>3. /\ b \in BgState /\ b.pc = "memtable" /\ b.error = bg.error /\ b.shutdown = bg.shutdown
      /\ b.crashed = bg.crashed /\ b.picked = bg.picked
  BY <1>1 DEF BgState, BgPCs
<1>4. ~bg.crashed
  BY <1>2 DEF BgStep, Free
<1>5. bg.picked \in 0..db.level0
  BY <1>4 DEF LevelInv
<1> HIDE DEF b
<1> QED
  BY <1>1, <1>2, <1>3, <1>5, BgGoesIs

\* A failure of CompactMemTable, and what follows for the compaction it is part of.
LEMMA MemTableFails ==
    ASSUME Parameters, TypeInv, LevelInv, NEW pc \in {"memtable", "memtable manifest"}, BgStep(pc),
           NEW ok \in BOOLEAN, Outcome(ok), NEW d, d = db,
           MemTableEnds([bg EXCEPT !.error = TRUE], d)
    PROVE  BackgroundIs
<1> DEFINE b == [bg EXCEPT !.error = TRUE]
<1>1. bg \in BgState /\ db \in DbState /\ failures \in Nat /\ bg.pc = pc /\ ~bg.crashed
  BY DEF TypeInv, BgStep, Free
<1>2. /\ b \in BgState /\ b.pc = pc /\ b.error /\ b.shutdown = bg.shutdown /\ b.crashed = bg.crashed
      /\ b.picked = bg.picked
  BY <1>1 DEF BgState
<1>3. failures' \in Nat /\ (failures <= MaxFailures => failures' <= MaxFailures)
  BY <1>1, OutcomeIs
<1>4. bg.picked \in 0..db.level0 /\ db.level0 \in 0..db.level0
  BY <1>1, LevelIs
<1>5. CASE bg.inCompaction
  <2> DEFINE c == [b EXCEPT !.pc = "compacting"]
  <2>1. BgGoes(c, db) /\ thread' = SignalAll(thread)
    BY <1>5 DEF MemTableEnds
  <2>2. /\ c \in BgState /\ c.pc = "compacting" /\ c.error /\ c.shutdown = bg.shutdown /\ c.crashed = bg.crashed
        /\ c.picked = bg.picked
    BY <1>2 DEF BgState, BgPCs
  <2> HIDE DEF b, c
  <2>3. bg' = c /\ db' = db
    BY <2>1 DEF BgGoes
  <2>4. LevelInv'
    BY <1>4, <2>2, <2>3 DEF LevelInv
  <2> QED
    BY <1>1, <1>2, <1>3, <2>1, <2>2, <2>3, <2>4 DEF BackgroundIs, BgStep, SameTables, SameFiles
<1>6. CASE ~bg.inCompaction
  <2>1. EndCall(b, db)
    BY <1>6 DEF MemTableEnds
  <2> HIDE DEF b
  <2>2. Ends(b) /\ db' = db /\ bg'.pc \in {"idle", "scheduled"}
    BY <1>2, <2>1, EndCallIs
  <2>3. SameTables(db, db') /\ SameFiles(db, db')
    BY <2>2 DEF SameTables, SameFiles
  <2> QED
    BY <1>1, <1>2, <1>3, <1>4, <2>2, <2>3, BgEndsIs
<1> QED
  BY <1>5, <1>6

\* WriteLevel0Table has written its table, or failed.
LEMMA BgMemTableBuiltIs ==
    ASSUME Parameters, TypeInv, LevelInv, NEW ok \in BOOLEAN, BgMemTableBuilt(ok) PROVE BackgroundIs
<1>1. bg \in BgState /\ failures \in Nat
  BY DEF TypeInv
<1>2. BgStep("memtable") /\ Outcome(ok) /\ bg.pc = "memtable"
  BY DEF BgMemTableBuilt, BgStep
<1>3. failures' \in Nat /\ (failures <= MaxFailures => failures' <= MaxFailures)
  BY <1>1, <1>2, OutcomeIs
<1>4. CASE ok /\ ~bg.shutdown
  <2> DEFINE b == [bg EXCEPT !.pc = "memtable manifest"]
  <2>1. BgGoes(b, db) /\ thread' = thread
    BY <1>4 DEF BgMemTableBuilt
  <2>2. /\ b \in BgState /\ b.pc = "memtable manifest" /\ b.error = bg.error /\ b.shutdown = bg.shutdown
        /\ b.crashed = bg.crashed /\ b.picked = bg.picked
    BY <1>1 DEF BgState, BgPCs
  <2>3. bg.picked \in 0..db.level0 /\ db.imm # None
    BY <1>2 DEF LevelInv, BgStep, Free
  <2> HIDE DEF b
  <2> QED
    BY <1>1, <1>2, <1>3, <2>1, <2>2, <2>3, BgGoesIs
<1>5. CASE ~(ok /\ ~bg.shutdown)
  <2>1. MemTableEnds([bg EXCEPT !.error = TRUE], db)
    BY <1>5 DEF BgMemTableBuilt
  <2> QED
    BY <1>2, <2>1, MemTableFails
<1> QED
  BY <1>4, <1>5

\* What the store is when the table of the immutable memtable is installed.
LEMMA InstalledIs ==
    ASSUME TypeInv, db.imm # None, NEW files \in {0, 1}, NEW due \in BOOLEAN,
           db' = [Unref(db, {db.imm}) EXCEPT !.tables = @ \cup db.contents[db.imm], !.imm = None,
                    !.unsynced = @ \ db.contents[db.imm], !.level0 = @ + files, !.seek = @ \/ due]
    PROVE  db' \in DbState /\ Installs /\ db'.level0 = db.level0 + files
<1> DEFINE e == Unref(db, {db.imm})
<1>1. db \in DbState /\ DOMAIN db.refs = DOMAIN db.contents /\ db.imm \in DOMAIN db.contents
  BY DEF TypeInv
<1>2. db.contents[db.imm] \in SUBSET Nat
  BY <1>1 DEF DbState
<1>3. /\ e \in DbState /\ e.mem = db.mem /\ SameFiles(db, e) /\ SameRest(db, e)
  BY <1>1, UnrefIs
<1> HIDE DEF e
<1>4. /\ db' = [f \in DOMAIN e |-> db'[f]]
      /\ db'.mem = e.mem /\ db'.imm = None /\ db'.contents = e.contents /\ db'.refs = e.refs
      /\ db'.tables = e.tables \cup db.contents[db.imm] /\ db'.lastSequence = e.lastSequence
      /\ db'.unsynced = e.unsynced \ db.contents[db.imm] /\ db'.level0 = e.level0 + files
      /\ db'.seek = (e.seek \/ due)
  BY <1>3 DEF e, DbState
<1>5. db' \in DbState
  <2>1. /\ e.mem \in Nat /\ e.contents \in Seq(SUBSET Nat) /\ e.refs \in Seq(Int)
        /\ e.tables \in SUBSET Nat /\ e.lastSequence \in Nat /\ e.unsynced \in SUBSET Nat /\ e.level0 \in Int
        /\ e.seek \in BOOLEAN
    BY <1>3 DEF DbState
  <2>2. db'.tables \in SUBSET Nat /\ db'.unsynced \in SUBSET Nat
    BY <1>2, <1>4, <2>1
  <2>4. db'.level0 \in Int
    <3>1. db'.level0 = e.level0 + files
      BY <1>4
    <3>2. e.level0 \in Int
      BY <2>1
    <3>3. files \in Int
      OBVIOUS
    <3> QED
      BY <3>1, <3>2, <3>3
  <2>3. /\ db'.mem \in Nat /\ db'.imm \in Nat \cup {None} /\ db'.contents \in Seq(SUBSET Nat) /\ db'.refs \in Seq(Int)
        /\ db'.lastSequence \in Nat /\ db'.seek \in BOOLEAN
    BY <1>4, <2>1
  <2>5. db' = [f \in DOMAIN e |-> db'[f]]
    BY <1>4
  <2> QED
    BY <1>3, <2>2, <2>3, <2>4, <2>5, DbStateFrom
<1>6. Installs /\ db'.level0 = db.level0 + files
  BY <1>3, <1>4 DEF Installs, SameFiles, SameRest, e
<1> QED
  BY <1>5, <1>6

\* LogAndApply of the table of a memtable.
LEMMA BgMemTableInstalledIs ==
    ASSUME Parameters, TypeInv, LevelInv, NEW ok \in BOOLEAN, NEW files \in {0, 1}, NEW due \in BOOLEAN,
           BgMemTableInstalled(ok, files, due)
    PROVE  BackgroundIs
<1>1. bg \in BgState /\ db \in DbState /\ failures \in Nat
  BY DEF TypeInv
<1>2. BgStep("memtable manifest") /\ Outcome(ok) /\ bg.pc = "memtable manifest" /\ ~bg.crashed
  BY DEF BgMemTableInstalled, BgStep, Free
<1>3. failures' \in Nat /\ (failures <= MaxFailures => failures' <= MaxFailures)
  BY <1>1, <1>2, OutcomeIs
<1>4. CASE ~ok
  <2>1. MemTableEnds([bg EXCEPT !.error = TRUE], [db EXCEPT !.imm = ImmKept])
    BY <1>4 DEF BgMemTableInstalled
  <2>2. [db EXCEPT !.imm = ImmKept] = db
    BY <1>1 DEF ImmKept, DbState
  <2> QED
    BY <1>2, <2>1, <2>2, MemTableFails
<1>5. CASE ok
  <2> DEFINE d == [Unref(db, {db.imm}) EXCEPT !.tables = @ \cup db.contents[db.imm], !.imm = None,
                     !.unsynced = @ \ db.contents[db.imm], !.level0 = @ + files, !.seek = @ \/ due]
  <2>1. MemTableEnds(bg, d)
    BY <1>5 DEF BgMemTableInstalled
  <2>2. db.imm # None /\ db.level0 < L0Stop /\ bg.picked \in 0..db.level0
    BY <1>2 DEF LevelInv
  <2>3. db' = d => db' \in DbState /\ Installs /\ db'.level0 = db.level0 + files
    BY <2>2, InstalledIs
  <2> HIDE DEF d
  <2>4. db' = d => /\ db'.level0 \in 0..L0Stop /\ db'.imm = None /\ bg.picked \in 0..db'.level0
                   /\ 0 \in 0..db'.level0
    <3>1. db.level0 \in Nat /\ L0Stop \in Nat
      BY LevelIs DEF Parameters
    <3> QED
      BY <2>2, <2>3, <3>1 DEF Installs
  <2>5. CASE bg.inCompaction
    <3> DEFINE c == [bg EXCEPT !.pc = "compacting"]
    <3>1. BgGoes(c, d) /\ thread' = SignalAll(thread)
      BY <2>1, <2>5 DEF MemTableEnds
    <3>2. /\ c \in BgState /\ c.pc = "compacting" /\ c.error = bg.error /\ c.shutdown = bg.shutdown
          /\ c.picked = bg.picked
      BY <1>1 DEF BgState, BgPCs
    <3> HIDE DEF c
    <3>3. bg' = c /\ db' = d
      BY <3>1 DEF BgGoes
    <3>4. LevelInv'
      BY <2>4, <3>2, <3>3 DEF LevelInv
    <3> QED
      BY <1>2, <1>3, <2>3, <3>1, <3>2, <3>3, <3>4 DEF BackgroundIs, BgStep
  <2>6. CASE ~bg.inCompaction
    <3>1. EndCall(bg, d)
      BY <2>1, <2>6 DEF MemTableEnds
    <3>2. Ends(bg) /\ db' = d /\ bg'.pc \in {"idle", "scheduled"} /\ bg'.picked = 0
      BY <1>1, <3>1, EndCallIs
    <3>3. LevelInv'
      BY <2>4, <3>2 DEF LevelInv
    <3> QED
      BY <1>2, <1>3, <2>3, <3>2, <3>3 DEF BackgroundIs, BgStep, Ends
  <2> QED
    BY <2>5, <2>6
<1> QED
  BY <1>4, <1>5

\* A manual compaction that has nothing to compact.
LEMMA BgManualDoneIs ==
    ASSUME Parameters, TypeInv, LevelInv, BgManualDone PROVE BackgroundIs
<1> DEFINE b == [bg EXCEPT !.done = @ \cup {bg.manual}, !.manual = None]
<1>1. bg \in BgState /\ db \in DbState /\ failures \in Nat
  BY DEF TypeInv
<1>2. EndCall(b, db) /\ BgStep("scheduled") /\ failures' = failures /\ bg.pc = "scheduled" /\ bg.manual # None
  BY DEF BgManualDone, BgStep
<1>3. b \in BgState /\ b.error = bg.error /\ b.shutdown = bg.shutdown /\ b.pc = "scheduled"
  BY <1>1, <1>2 DEF BgState
<1> HIDE DEF b
<1>4. Ends(b) /\ db' = db /\ bg'.pc \in {"idle", "scheduled"}
  BY <1>2, <1>3, EndCallIs
<1>5. db'.level0 \in 0..db.level0 /\ SameTables(db, db') /\ SameFiles(db, db')
  BY <1>4, LevelIs DEF SameTables, SameFiles
<1> QED
  BY <1>1, <1>2, <1>3, <1>4, <1>5, BgEndsIs

\* BackgroundCompaction picks its inputs.
LEMMA BgCompactIs ==
    ASSUME Parameters, TypeInv, LevelInv, NEW n \in 0..db.level0, NEW trivial \in BOOLEAN, BgCompact(n, trivial)
    PROVE  BackgroundIs
<1> DEFINE left == [u \in Threads |-> IF u = bg.manual THEN bg.left[u] - 1 ELSE bg.left[u]]
           b == [bg EXCEPT !.pc = IF trivial THEN "manifest" ELSE "compacting",
                           !.isManual = (bg.manual # None), !.picked = n, !.left = left]
<1>1. bg \in BgState /\ failures \in Nat
  BY DEF TypeInv
<1>2. BgGoes(b, db) /\ BgStep("scheduled") /\ thread' = thread /\ failures' = failures
  BY DEF BgCompact
<1>3. left \in [Threads -> Int]
  BY <1>1 DEF BgState
<1>4. n \in Int
  BY LevelIs
<1> HIDE DEF left
<1>5. /\ b = [f \in DOMAIN bg |-> b[f]]
      /\ b.pc \in {"manifest", "compacting"} /\ b.isManual \in BOOLEAN /\ b.picked = n /\ b.left = left
      /\ b.error = bg.error /\ b.manual = bg.manual /\ b.done = bg.done /\ b.inCompaction = bg.inCompaction
      /\ b.shutdown = bg.shutdown /\ b.crashed = bg.crashed
  BY <1>1 DEF BgState
<1> HIDE DEF b
<1>6. b \in BgState
  <2>1. /\ bg.error \in BOOLEAN /\ bg.manual \in Threads \cup {None} /\ bg.done \in SUBSET Threads
        /\ bg.inCompaction \in BOOLEAN /\ bg.shutdown \in BOOLEAN /\ bg.crashed \in BOOLEAN
    BY <1>1 DEF BgState
  <2>2. /\ b.pc \in BgPCs /\ b.error \in BOOLEAN /\ b.manual \in Threads \cup {None} /\ b.done \in SUBSET Threads
        /\ b.left \in [Threads -> Int] /\ b.inCompaction \in BOOLEAN /\ b.picked \in Int
        /\ b.shutdown \in BOOLEAN /\ b.crashed \in BOOLEAN
    BY <1>3, <1>4, <1>5, <2>1 DEF BgPCs
  <2> QED
    BY <1>1, <1>5, <2>2, BgStateFrom
<1> QED
  BY <1>1, <1>2, <1>5, <1>6, BgGoesIs

\* DoCompactionWork has written its tables, or failed.
LEMMA BgCompactedIs ==
    ASSUME Parameters, TypeInv, LevelInv, NEW ok \in BOOLEAN, BgCompacted(ok) PROVE BackgroundIs
<1>1. bg \in BgState /\ db \in DbState /\ failures \in Nat
  BY DEF TypeInv
<1>2. BgStep("compacting") /\ Outcome(ok) /\ bg.pc = "compacting" /\ ~bg.crashed
  BY DEF BgCompacted, BgStep, Free
<1>3. failures' \in Nat /\ (failures <= MaxFailures => failures' <= MaxFailures)
  BY <1>1, <1>2, OutcomeIs
<1>4. CASE ok /\ ~bg.shutdown
  <2> DEFINE b == [bg EXCEPT !.pc = "manifest"]
  <2>1. BgGoes(b, db) /\ thread' = thread
    BY <1>4 DEF BgCompacted
  <2>2. /\ b \in BgState /\ b.pc = "manifest" /\ b.error = bg.error /\ b.shutdown = bg.shutdown
        /\ b.crashed = bg.crashed /\ b.picked = bg.picked
    BY <1>1 DEF BgState, BgPCs
  <2>3. bg.picked \in 0..db.level0
    BY <1>2, LevelIs
  <2> HIDE DEF b
  <2> QED
    BY <1>2, <1>3, <2>1, <2>2, <2>3, BgGoesIs
<1>5. CASE ~(ok /\ ~bg.shutdown)
  <2> DEFINE b == [bg EXCEPT !.error = TRUE]
  <2>1. EndCompaction(b, db, FALSE)
    BY <1>5 DEF BgCompacted
  <2>2. b \in BgState /\ b.pc = "compacting" /\ b.error /\ b.shutdown = bg.shutdown
    BY <1>1, <1>2 DEF BgState
  <2> HIDE DEF b
  <2>3. Ends(b) /\ db' = db
    BY <2>1, <2>2, EndCompactionIs
  <2>4. db'.level0 \in 0..db.level0 /\ SameTables(db, db') /\ SameFiles(db, db')
    BY <2>3, LevelIs DEF SameTables, SameFiles
  <2> QED
    BY <1>1, <1>2, <1>3, <2>2, <2>3, <2>4, BgEndsIs
<1> QED
  BY <1>4, <1>5

\* LogAndApply of a compaction.
LEMMA BgInstalledIs ==
    ASSUME Parameters, TypeInv, LevelInv, NEW ok \in BOOLEAN, NEW due \in BOOLEAN, BgInstalled(ok, due) PROVE BackgroundIs
<1>1. bg \in BgState /\ db \in DbState /\ failures \in Nat
  BY DEF TypeInv
<1>2. BgStep("manifest") /\ Outcome(ok) /\ bg.pc = "manifest" /\ ~bg.crashed
  BY DEF BgInstalled, BgStep, Free
<1>3. failures' \in Nat /\ (failures <= MaxFailures => failures' <= MaxFailures)
  BY <1>1, <1>2, OutcomeIs
<1>4. CASE ok
  <2> DEFINE d == [db EXCEPT !.level0 = @ - bg.picked, !.seek = due]
  <2>1. EndCompaction(bg, d, TRUE)
    BY <1>4 DEF BgInstalled
  <2>2. bg.picked \in 0..db.level0 /\ db.level0 \in Nat
    BY <1>2, LevelIs
  <2>3. /\ d \in DbState /\ d.level0 = db.level0 - bg.picked /\ SameTables(db, d) /\ SameFiles(db, d)
    <3>1. /\ d = [f \in DOMAIN db |-> d[f]]
          /\ d.level0 = db.level0 - bg.picked /\ SameTables(db, d) /\ SameFiles(db, d) /\ d.seek \in BOOLEAN
      BY <1>1 DEF DbState, SameTables, SameFiles
    <3>2. /\ db.mem \in Nat /\ db.imm \in Nat \cup {None} /\ db.contents \in Seq(SUBSET Nat) /\ db.refs \in Seq(Int)
          /\ db.tables \in SUBSET Nat /\ db.lastSequence \in Nat /\ db.unsynced \in SUBSET Nat
      BY <1>1 DEF DbState
    <3> HIDE DEF d
    <3>3. d.level0 \in Int
      BY <2>2, <3>1
    <3>4. /\ d.mem \in Nat /\ d.imm \in Nat \cup {None} /\ d.contents \in Seq(SUBSET Nat) /\ d.refs \in Seq(Int)
          /\ d.tables \in SUBSET Nat /\ d.lastSequence \in Nat /\ d.unsynced \in SUBSET Nat
      BY <3>1, <3>2 DEF SameTables, SameFiles
    <3> QED
      BY <1>1, <3>1, <3>3, <3>4, DbStateFrom
  <2>4. d.level0 \in 0..db.level0
    BY <2>2, <2>3
  <2> HIDE DEF d
  <2>5. Ends(bg) /\ db' = d
    BY <1>1, <1>2, <2>1, EndCompactionIs
  <2> QED
    BY <1>1, <1>2, <1>3, <2>3, <2>4, <2>5, BgEndsIs
<1>5. CASE ~ok
  <2> DEFINE b == [bg EXCEPT !.error = TRUE]
  <2>1. EndCompaction(b, db, FALSE)
    BY <1>5 DEF BgInstalled
  <2>2. b \in BgState /\ b.pc = "manifest" /\ b.error /\ b.shutdown = bg.shutdown
    BY <1>1, <1>2 DEF BgState
  <2> HIDE DEF b
  <2>3. Ends(b) /\ db' = db
    BY <2>1, <2>2, EndCompactionIs
  <2>4. db'.level0 \in 0..db.level0 /\ SameTables(db, db') /\ SameFiles(db, db')
    BY <2>3, LevelIs DEF SameTables, SameFiles
  <2> QED
    BY <1>1, <1>2, <1>3, <2>2, <2>3, <2>4, BgEndsIs
<1> QED
  BY <1>4, <1>5

\* Every step of the background thread has the effect of such a step.
LEMMA BackgroundEffect ==
    ASSUME Parameters, TypeInv, LevelInv, Background PROVE BackgroundIs
<1>1. CASE BgIdle
  BY <1>1, BgIdleIs
<1>2. CASE BgMemTable
  BY <1>2, BgMemTableIs
<1>3. CASE BgManualDone
  BY <1>3, BgManualDoneIs
<1>4. CASE \E n \in 0..db.level0, trivial \in BOOLEAN : BgCompact(n, trivial)
  BY <1>4, BgCompactIs
<1>5. ASSUME NEW ok \in BOOLEAN, BgMemTableBuilt(ok) PROVE BackgroundIs
  BY <1>5, BgMemTableBuiltIs
<1>6. ASSUME NEW ok \in BOOLEAN, BgCompacted(ok) PROVE BackgroundIs
  BY <1>6, BgCompactedIs
<1>7. ASSUME NEW ok \in BOOLEAN, NEW due \in BOOLEAN, BgInstalled(ok, due) PROVE BackgroundIs
  BY <1>7, BgInstalledIs
<1>8. ASSUME NEW ok \in BOOLEAN, NEW due \in BOOLEAN, NEW files \in {0, 1}, BgMemTableInstalled(ok, files, due)
      PROVE  BackgroundIs
  BY <1>8, BgMemTableInstalledIs
<1> QED
  BY <1>1, <1>2, <1>3, <1>4, <1>5, <1>6, <1>7, <1>8 DEF Background

-----------------------------------------------------------------------------
(* The steps that write nothing.                                           *)

\* What a step that is not the background thread's does to it at most.
BgSame ==
    /\ bg' \in BgState /\ bg'.error = bg.error /\ bg'.shutdown = bg.shutdown
    /\ bg'.picked = bg.picked /\ bg'.crashed = bg.crashed /\ bg'.pc \in {bg.pc, "scheduled"}
    /\ bg.pc # "idle" => bg'.pc = bg.pc

\* A thread goes on, or to sleep.
MinorStep(t) ==
    /\ UNCHANGED <<queue, group, db, failures, acked>> /\ mutex' \in Threads \cup {None}
    /\ StepOf(t, thread'[t].pc, thread'[t].asleep)
    /\ thread[t].asleep = "no" /\ thread'[t].asleep \in {"no", "bg"}
    /\ \/ /\ thread[t].pc \in {"queued", "delayed"} /\ thread'[t].pc \in {"queued", "delayed"} /\ IsFront(queue, t)
          /\ thread'[t].asleep = "bg" => thread'[t].pc = "queued"
       \/ /\ thread[t].pc \in {"flushing", "manual"} /\ thread'[t].pc \in {"flushing", "manual", "idle"}
          /\ thread'[t].asleep = "bg" => thread'[t].pc # "idle"
    /\ BgSame

\* A step that leaves the background thread alone.
LEMMA BgUnchanged ==
    ASSUME TypeInv, bg' = bg PROVE BgSame
BY DEF TypeInv, BgSame

\* The delay of MakeRoomForWrite is a minor step,
LEMMA RoomDelayMinor ==
    ASSUME TypeInv, NEW t \in Threads, RoomDelay(t) PROVE MinorStep(t)
<1>1. StepOf(t, "delayed", thread[t].asleep)
  BY RoomDelayIs
<1>2. /\ UNCHANGED <<queue, group, db, bg, failures, acked>> /\ mutex' = None
      /\ IsFront(queue, t) /\ thread[t].pc = "queued" /\ thread[t].asleep = "no"
  BY DEF RoomDelay, Turn, AtFront
<1> QED
  BY <1>1, <1>2, BgUnchanged DEF MinorStep, StepOf

\* and so is its end,
LEMMA DelayOverMinor ==
    ASSUME TypeInv, QueueInv, NEW t \in Threads, DelayOver(t) PROVE MinorStep(t)
<1>1. StepOf(t, "queued", thread[t].asleep)
  BY DelayOverIs
<1>2. /\ UNCHANGED <<mutex, queue, group, db, bg, failures, acked>> /\ thread[t].pc = "delayed"
  BY DEF DelayOver
<1>3. IsFront(queue, t) /\ thread[t].asleep = "no"
  <2>1. thread[t] \in ThreadState
    BY DEF TypeInv
  <2>2. thread[t].asleep \in {"no", "own", "bg"}
    BY <2>1 DEF ThreadState
  <2> QED
    BY <1>2, <2>2 DEF QueueInv, Writing, IsFront
<1> QED
  BY <1>1, <1>2, <1>3, BgUnchanged DEF MinorStep, StepOf, TypeInv

\* to wait for the background thread,
LEMMA RoomWaitMinor ==
    ASSUME TypeInv, NEW t \in Threads, RoomWait(t) PROVE MinorStep(t) /\ thread'[t].asleep = "bg"
<1>1. StepOf(t, thread[t].pc, "bg")
  BY RoomWaitIs
<1>2. /\ UNCHANGED <<queue, group, db, bg, failures, acked>> /\ mutex' = None
      /\ IsFront(queue, t) /\ thread[t].pc = "queued" /\ thread[t].asleep = "no"
  BY DEF RoomWait, Turn, AtFront
<1> QED
  BY <1>1, <1>2, BgUnchanged DEF MinorStep, StepOf

\* to wait for the memtable,
LEMMA AwaitMemTableMinor ==
    ASSUME TypeInv, NEW t \in Threads, AwaitMemTable(t) PROVE MinorStep(t)
<1>1. \/ StepOf(t, thread[t].pc, "bg")
      \/ \E p \in {"manual", "idle"} : StepOf(t, p, thread[t].asleep)
  BY AwaitMemTableIs
<1>2. /\ UNCHANGED <<mutex, queue, group, db, bg, failures, acked>>
      /\ thread[t].pc = "flushing" /\ thread[t].asleep = "no"
  BY DEF AwaitMemTable
<1> QED
  BY <1>1, <1>2, BgUnchanged DEF MinorStep, StepOf, TypeInv

\* to make a request and wait for it,
LEMMA AwaitManualMinor ==
    ASSUME TypeInv, NEW t \in Threads, AwaitManual(t)
    PROVE  /\ MinorStep(t) /\ thread'[t].asleep = "bg"
           /\ bg'.manual = IF bg.manual = None THEN t ELSE bg.manual
           /\ bg.manual = None /\ t # None => bg'.pc # "idle"
<1>1. StepOf(t, thread[t].pc, "bg")
  BY AwaitManualIs
<1>2. /\ UNCHANGED <<mutex, queue, group, db, failures, acked>>
      /\ thread[t].pc = "manual" /\ thread[t].asleep = "no"
      /\ bg' = IF bg.manual = None THEN MaybeScheduleCompaction([bg EXCEPT !.manual = t], db) ELSE bg
      /\ ~bg.shutdown /\ ~bg.error
  BY DEF AwaitManual
<1>3. BgSame /\ bg'.manual = (IF bg.manual = None THEN t ELSE bg.manual) /\ (bg.manual = None /\ t # None => bg'.pc # "idle")
  <2>1. CASE bg.manual = None
    <3> DEFINE b == [bg EXCEPT !.manual = t]
    <3>1. bg \in BgState
      BY DEF TypeInv
    <3>2. /\ b \in BgState /\ b.manual = t /\ b.error = bg.error /\ b.shutdown = bg.shutdown /\ b.pc = bg.pc
          /\ b.picked = bg.picked /\ b.crashed = bg.crashed
      BY <3>1 DEF BgState
    <3>3. bg' = MaybeScheduleCompaction(b, db)
      BY <1>2, <2>1
    <3>6. ~b.error /\ ~b.shutdown
      BY <1>2, <3>1 DEF BgState
    <3> HIDE DEF b
    <3>4. /\ bg' \in BgState /\ bg'.manual = t /\ bg'.error = bg.error /\ bg'.shutdown = bg.shutdown
          /\ bg'.picked = bg.picked /\ bg'.crashed = bg.crashed /\ bg'.pc \in {bg.pc, "scheduled"}
          /\ bg.pc # "idle" => bg'.pc = bg.pc
      BY <3>2, <3>3, ScheduleIs
    <3>5. t # None => bg'.pc # "idle"
      BY <3>2, <3>3, <3>6, ScheduleIs
    <3> QED
      BY <2>1, <3>4, <3>5 DEF BgSame
  <2>2. CASE bg.manual # None
    BY <1>2, <2>2, BgUnchanged
  <2> QED
    BY <2>1, <2>2
<1> QED
  BY <1>1, <1>2, <1>3 DEF MinorStep, StepOf, TypeInv

\* and to return from it.
LEMMA ManualReturnsMinor ==
    ASSUME Parameters, TypeInv, NEW t \in Threads, ManualReturns(t)
    PROVE  MinorStep(t) /\ bg'.pc = bg.pc /\ bg'.manual \in {bg.manual, None} /\ thread'[t].asleep = "no"
<1>1. StepOf(t, "idle", thread[t].asleep)
  BY ManualReturnsIs
<1>2. /\ UNCHANGED <<mutex, queue, group, db, failures, acked>>
      /\ thread[t].pc = "manual" /\ thread[t].asleep = "no"
      /\ bg' = [bg EXCEPT !.manual = Cancel(t), !.done = @ \ {t}, !.left[t] = Pieces]
  BY DEF ManualReturns
<1>3. bg \in BgState
  BY DEF TypeInv
<1>4. bg.left \in [Threads -> Int] /\ Pieces \in Int /\ bg.manual \in Threads \cup {None} /\ bg.done \subseteq Threads
  BY <1>3 DEF BgState, Parameters
<1>5. /\ bg' = [f \in DOMAIN bg |-> bg'[f]]
      /\ bg'.manual = Cancel(t) /\ bg'.done = bg.done \ {t} /\ bg'.left = [bg.left EXCEPT ![t] = Pieces]
      /\ bg'.error = bg.error /\ bg'.shutdown = bg.shutdown /\ bg'.pc = bg.pc /\ bg'.crashed = bg.crashed
      /\ bg'.picked = bg.picked /\ bg'.isManual = bg.isManual /\ bg'.inCompaction = bg.inCompaction
  BY <1>2, <1>3 DEF BgState
<1>6. /\ bg.pc \in BgPCs /\ bg.error \in BOOLEAN /\ bg.shutdown \in BOOLEAN /\ bg.crashed \in BOOLEAN
      /\ bg.picked \in Int /\ bg.isManual \in BOOLEAN /\ bg.inCompaction \in BOOLEAN
  BY <1>3 DEF BgState
<1>7. bg'.left \in [Threads -> Int]
  BY <1>4, <1>5
<1>8. bg'.manual \in Threads \cup {None} /\ bg'.manual \in {bg.manual, None} /\ bg'.done \in SUBSET Threads
  BY <1>4, <1>5 DEF Cancel
<1>9. bg' \in BgState
  <2>1. /\ bg'.pc \in BgPCs /\ bg'.error \in BOOLEAN /\ bg'.shutdown \in BOOLEAN /\ bg'.crashed \in BOOLEAN
        /\ bg'.picked \in Int /\ bg'.isManual \in BOOLEAN /\ bg'.inCompaction \in BOOLEAN
    BY <1>5, <1>6
  <2> QED
    BY <1>3, <1>5, <1>7, <1>8, <2>1, BgStateFrom
<1>10. BgSame
  BY <1>5, <1>9 DEF BgSame
<1> QED
  BY <1>1, <1>2, <1>5, <1>8, <1>10 DEF MinorStep, StepOf, TypeInv

\* The front of the queue leaves it, and writes nothing.
LeavesAlone(t) ==
    /\ LeaveOf(1) /\ UNCHANGED <<group, db, bg, acked>>
    /\ failures' \in Nat /\ (failures <= MaxFailures => failures' <= MaxFailures)
    /\ IsFront(queue, t) /\ thread[t].pc = "queued"

\* A write that ends in MakeRoomForWrite leaves the queue by itself.
LEMMA LeavesAloneIs ==
    ASSUME Parameters, TypeInv, QueueInv, NEW t \in Threads,
           RoomError(t) \/ RoomForNone(t) \/ RoomSwitchFails(t)
    PROVE  LeavesAlone(t)
<1>1. failures \in Nat /\ queue \in Seq(Threads)
  BY DEF TypeInv
<1>2. /\ UNCHANGED <<group, db, bg, acked>> /\ IsFront(queue, t) /\ thread[t].pc = "queued"
      /\ \E ok \in BOOLEAN : Leave(1, ok, thread)
      /\ failures' = failures \/ Outcome(FALSE)
  BY DEF RoomError, RoomForNone, RoomSwitchFails, Turn, AtFront
<1>3. 1 \in 1..Len(queue)
  BY <1>1, <1>2 DEF IsFront
<1>4. LeaveOf(1)
  BY <1>2, <1>3, LeaveIs
<1>5. failures' \in Nat /\ (failures <= MaxFailures => failures' <= MaxFailures)
  BY <1>1, <1>2, OutcomeIs
<1> QED
  BY <1>2, <1>4, <1>5 DEF LeavesAlone

\* What is left of MakeRoomForWrite.
LEMMA MakeRoomIs ==
    ASSUME Parameters, TypeInv, QueueInv, NEW t \in Threads, MakeRoomForWrite(t)
    PROVE  LeavesAlone(t) \/ RoomSwitch(t) \/ MinorStep(t)
BY LeavesAloneIs, RoomDelayMinor, DelayOverMinor, RoomWaitMinor DEF MakeRoomForWrite

-----------------------------------------------------------------------------
(* The group that BuildBatchGroup takes, and what it numbers.              *)

\* A set of numbers up to n has a largest one.
LEMMA LargestExists ==
    ASSUME NEW n \in Nat, NEW S \in SUBSET (0..n), S # {}
    PROVE  Max(S) \in S
<1> DEFINE T == {n - k : k \in S}
<1>1. T \subseteq Nat /\ T # {} /\ (\A k \in S : n - k \in T) /\ (\A t \in T : \E k \in S : t = n - k)
  <2>1. \A k \in S : n - k \in Nat
    OBVIOUS
  <2> QED
    BY <2>1
<1> HIDE DEF T
<1>2. PICK t \in T : \A y \in T : ~(<<y, t>> \in OpToRel(<, Nat))
  BY <1>1, WFMin, NatLessThanWellFounded
<1>3. \A y \in T : ~(y < t)
  BY <1>1, <1>2 DEF OpToRel
<1>4. PICK m \in S : t = n - m
  BY <1>1
<1>5. \A k \in S : m >= k
  <2>1. \A k \in S : ~(n - k < n - m)
    BY <1>1, <1>3, <1>4
  <2> QED
    BY <2>1
<1> QED
  BY <1>5 DEF Max

\* The batches among some writers: they can be counted.
LEMMA BatchesFinite ==
    ASSUME NEW members \in Seq(Threads), NEW S
    PROVE  /\ Batches(members) \subseteq DOMAIN members /\ Batches(members) \subseteq Nat
           /\ IsFiniteSet(Batches(members)) /\ IsFiniteSet(Batches(members) \cap S)
           /\ Cardinality(Batches(members)) \in Nat /\ Cardinality(Batches(members) \cap S) \in Nat
           /\ Cardinality(Batches(members) \cap S) <= Cardinality(Batches(members))
<1>1. DOMAIN members = 1..Len(members) /\ Len(members) \in Nat
  OBVIOUS
<1>2. IsFiniteSet(1..Len(members))
  BY <1>1, FS_Interval
<1>3. Batches(members) \in SUBSET (1..Len(members))
  BY <1>1 DEF Batches
<1>4. IsFiniteSet(Batches(members))
  BY <1>2, <1>3, FS_Subset
<1>5. /\ IsFiniteSet(Batches(members) \cap S)
      /\ Cardinality(Batches(members) \cap S) <= Cardinality(Batches(members))
  BY <1>4, FS_Intersection
<1>6. Cardinality(Batches(members)) \in Nat /\ Cardinality(Batches(members) \cap S) \in Nat
  BY <1>4, <1>5, FS_CardinalityType
<1>7. Batches(members) \subseteq Nat
  BY <1>1, <1>3
<1> QED
  BY <1>1, <1>3, <1>4, <1>5, <1>6, <1>7

\* The numbers of a count of entries.
LEMMA Times ==
    ASSUME Parameters, NEW a \in Nat, NEW b \in Nat
    PROVE  /\ BatchSize * a \in Nat
           /\ a <= b => BatchSize * a <= BatchSize * b
           /\ a < b => BatchSize * a + BatchSize <= BatchSize * b
           /\ a # 0 => BatchSize * a # 0
<1>1. BatchSize \in Nat /\ BatchSize > 0
  BY DEF Parameters
<1> DEFINE B == BatchSize
<1> HIDE DEF B
<1>2. B \in Nat /\ B > 0
  BY <1>1 DEF B
<1>3. B * a \in Nat /\ B * b \in Nat /\ B * (b - a) = B * b - B * a
  BY <1>2
<1>4. a <= b => B * a <= B * b
  <2>1. a <= b => b - a \in Nat
    OBVIOUS
  <2>2. a <= b => B * (b - a) \in Nat
    BY <1>2, <2>1
  <2> QED
    BY <1>3, <2>2
<1>5. a < b => B * a + B <= B * b
  <2>1. a < b => B * (b - a) = B * (b - a - 1) + B
    BY <1>2
  <2>2. a < b => b - a - 1 \in Nat
    OBVIOUS
  <2>3. a < b => B * (b - a - 1) \in Nat
    BY <1>2, <2>2
  <2> QED
    BY <1>2, <1>3, <2>1, <2>3
<1>6. a # 0 => B * a # 0
  BY <1>2
<1> QED
  BY <1>3, <1>4, <1>5, <1>6 DEF B

\* BuildBatchGroup takes the first writer, and no sync write into a group that is not synced.
LEMMA GroupLengthIs ==
    ASSUME TypeInv, queue # <<>>
    PROVE  LET n == GroupLength(queue)
           IN  /\ n \in 1..Len(queue)
               /\ \A i \in 2..n : thread[queue[i]].op.sync => thread[queue[1]].op.sync
<1> DEFINE Fits(i) ==
               /\ thread[queue[i]].op.sync => thread[queue[1]].op.sync
               /\ HasBatch(queue[i]) => Cardinality(Batches(queue) \cap 1..i) <= MaxGroup
           S == {n \in 1..Len(queue) : \A i \in 2..n : Fits(i)}
<1>1. queue \in Seq(Threads) /\ Len(queue) \in Nat /\ Len(queue) > 0
  BY DEF TypeInv
<1>2. GroupLength(queue) = Max(S)
  BY DEF GroupLength
<1> HIDE DEF Fits
<1>3. S \in SUBSET (0..Len(queue)) /\ 1 \in S
  BY <1>1
<1>4. Max(S) \in S
  <2> HIDE DEF S
  <2> QED
    BY <1>1, <1>3, LargestExists
<1>5. Max(S) \in 1..Len(queue) /\ \A i \in 2..Max(S) : Fits(i)
  BY <1>4
<1> QED
  BY <1>2, <1>5 DEF Fits

\* The group that BuildBatchGroup makes: the front of the queue, with entries that follow the last ones.
LEMMA StartGroupGroup ==
    ASSUME Parameters, TypeInv, NEW t \in Threads, StartGroup(t)
    PROVE  \E n \in 1..Len(queue) :
              /\ group' \in GroupState /\ group'.ok
              /\ Len(group'.members) = n /\ \A i \in 1..n : group'.members[i] = queue[i]
              /\ \A i \in 1..n : thread[queue[i]].op.sync => thread[t].op.sync
              /\ Len(group'.todo) = BatchSize * Cardinality(Batches(group'.members))
              /\ group'.last = db.lastSequence + Len(group'.todo)
              /\ \A i \in DOMAIN group'.todo : group'.todo[i] = db.lastSequence + i
              /\ Cardinality(Batches(group'.members)) # 0
              /\ queue # <<>> /\ queue[1] = t /\ HasBatch(t)
<1> DEFINE n == GroupLength(queue)
           members == SubSeq(queue, 1, n)
           count == BatchSize * Cardinality(Batches(members))
           todo == [i \in 1..count |-> db.lastSequence + i]
<1>1. queue # <<>> /\ queue[1] = t /\ HasBatch(t)
  BY DEF StartGroup, Turn, AtFront, IsFront
<1>2. n \in 1..Len(queue) /\ \A i \in 2..n : thread[queue[i]].op.sync => thread[queue[1]].op.sync
  BY <1>1, GroupLengthIs
<1>3. queue \in Seq(Threads) /\ db.lastSequence \in Nat
  BY DEF TypeInv, DbState
<1> HIDE DEF n
<1>4. members \in Seq(Threads) /\ Len(members) = n /\ \A i \in 1..n : members[i] = queue[i]
  <2>1. n \in Int /\ 1 \in Int /\ \A i \in 1..n : queue[i] \in Threads
    BY <1>2, <1>3
  <2> QED
    BY <1>2, <2>1, SubSeqProperties
<1> HIDE DEF members
<1>5. Cardinality(Batches(members)) \in Nat
  BY <1>4, BatchesFinite
<1>6. Cardinality(Batches(members)) # 0
  <2>1. 1 \in Batches(members)
    BY <1>1, <1>2, <1>4 DEF Batches
  <2> QED
    BY <1>4, <2>1, BatchesFinite, FS_EmptySet
<1>7. count \in Nat
  BY <1>5, Times
<1> HIDE DEF count
<1>8. todo \in Seq(Nat) /\ Len(todo) = count /\ \A i \in DOMAIN todo : todo[i] = db.lastSequence + i
  BY <1>3, <1>7
<1>9. group' = [members |-> members, todo |-> todo, last |-> db.lastSequence + count, ok |-> TRUE]
  BY DEF StartGroup, n, members, count
<1> HIDE DEF todo
<1>10. group' \in GroupState
  BY <1>3, <1>4, <1>7, <1>8, <1>9 DEF GroupState
<1>11. \A i \in 1..n : thread[queue[i]].op.sync => thread[t].op.sync
  <2>1. \A i \in 1..n : i = 1 \/ i \in 2..n
    BY <1>2
  <2> QED
    BY <1>1, <1>2, <2>1
<1>12. /\ group'.ok /\ group'.members = members /\ group'.todo = todo /\ group'.last = db.lastSequence + count
  BY <1>9
<1> QED
  BY <1>1, <1>2, <1>4, <1>6, <1>8, <1>10, <1>11, <1>12 DEF count

\* The end of a group's write.
LEMMA CommitIs ==
    ASSUME Parameters, TypeInv, QueueInv, GroupInv, NEW t \in Threads, Commit(t)
    PROVE  /\ LeaveOf(Len(group.members))
           /\ GroupOf(t) /\ thread[t].pc \in {"committing", "sync failed"} /\ failures' = failures
           /\ (thread[t].pc = "sync failed" /\ ~bg.error) =>
                  \A u \in Threads : thread'[u].asleep # "bg"
<1>1. thread[t].pc \in {"committing", "sync failed"} /\ failures' = failures
  BY DEF Commit
<1>2. GroupOf(t)
  BY <1>1 DEF GroupInv, Busy
<1>3. group.members \in Seq(Threads) /\ queue \in Seq(Threads) /\ group.ok \in BOOLEAN
  BY DEF TypeInv, GroupState
<1>4. Len(group.members) \in 1..Len(queue)
  <2>1. group.members # <<>> /\ Len(group.members) <= Len(queue)
    BY <1>2 DEF GroupOf
  <2> QED
    BY <1>3, <2>1
<1> DEFINE threads == IF thread[t].pc = "sync failed" /\ ~bg.error THEN SignalAll(thread) ELSE thread
<1>5. Leave(Len(group.members), group.ok, threads)
  BY DEF Commit
<1>6. threads \in {thread, SignalAll(thread)}
  OBVIOUS
<1>7. thread[t].pc = "sync failed" /\ ~bg.error => threads = SignalAll(thread)
  OBVIOUS
<1> HIDE DEF threads
<1>8. LeaveOf(Len(group.members))
  BY <1>3, <1>4, <1>5, <1>6, LeaveIs
<1>9. threads = SignalAll(thread) => \A u \in Threads : thread'[u].asleep # "bg"
  <2> SUFFICES ASSUME threads = SignalAll(thread), NEW u \in Threads PROVE thread'[u].asleep # "bg"
    OBVIOUS
  <2>1. thread \in [Threads -> ThreadState]
    BY DEF TypeInv
  <2>2. threads \in [Threads -> ThreadState] /\ threads[u].asleep # "bg"
    BY <2>1, SignalAllIs
  <2>3. \/ thread'[u] = [threads[u] EXCEPT !.pc = After(u, group.ok), !.asleep = "no"]
        \/ thread'[u] = [threads[u] EXCEPT !.asleep = "no"]
        \/ thread'[u] = threads[u]
    BY <1>5 DEF Leave
  <2>4. threads[u] \in ThreadState
    BY <2>2
  <2> QED
    BY <2>2, <2>3, <2>4 DEF ThreadState
<1> QED
  BY <1>1, <1>2, <1>7, <1>8, <1>9

-----------------------------------------------------------------------------
(* The steps of the specification.                                         *)

\* Nothing happens, or the store is about to be deleted.
Rests ==
    /\ UNCHANGED <<thread, mutex, queue, group, db, failures, acked>>
    /\ bg' \in BgState /\ bg'.error = bg.error /\ bg'.pc = bg.pc /\ bg'.picked = bg.picked
    /\ bg'.crashed = bg.crashed /\ bg'.manual = bg.manual
    /\ bg.shutdown => bg'.shutdown
    /\ bg'.shutdown # bg.shutdown => \A t \in Threads : thread[t].pc = "idle"

Steps ==
    \/ \E t \in Threads : \E o \in Calls[t] : Write(t, o) \/ Get(t, o)
    \/ \E t \in Threads, wasted \in BOOLEAN : GetReturns(t, wasted)
    \/ \E t \in Threads : MinorStep(t) \/ LeavesAlone(t) \/ RoomSwitch(t) \/ StartGroup(t) \/ Insert(t) \/ Commit(t)
    \/ \E t \in Threads, ok \in BOOLEAN : AddRecord(t, ok) \/ Sync(t, ok)
    \/ BackgroundIs
    \/ Rests

\* The destructor, and a step of nobody, leave the threads and the database alone.
LEMMA RestsIs ==
    ASSUME TypeInv, Destruct \/ UNCHANGED vars PROVE Rests
<1>1. bg \in BgState
  BY DEF TypeInv
<1>2. CASE Destruct
  <2>1. bg' = [bg EXCEPT !.shutdown = TRUE]
    BY <1>2 DEF Destruct
  <2>2. /\ bg' \in BgState /\ bg'.error = bg.error /\ bg'.pc = bg.pc /\ bg'.picked = bg.picked
        /\ bg'.crashed = bg.crashed /\ bg'.manual = bg.manual /\ bg'.shutdown
    BY <1>1, <2>1 DEF BgState
  <2> QED
    BY <1>2, <2>2 DEF Destruct, Rests
<1>3. CASE UNCHANGED vars
  BY <1>1, <1>3 DEF Rests, vars
<1> QED
  BY <1>2, <1>3

\* Every step is one of those above.
LEMMA NextSteps ==
    ASSUME Parameters, TypeInv, QueueInv, LevelInv, [Next]_vars PROVE Steps
<1>1. ASSUME NEW t \in Threads, Thread(t) PROVE Steps
  <2>1. CASE \E wasted \in BOOLEAN : GetReturns(t, wasted)
    BY <2>1 DEF Steps
  <2>2. CASE MakeRoomForWrite(t)
    BY <2>2, MakeRoomIs DEF Steps
  <2>3. CASE StartGroup(t) \/ Insert(t) \/ Commit(t)
    BY <2>3 DEF Steps
  <2>4. CASE \E ok \in BOOLEAN : AddRecord(t, ok) \/ Sync(t, ok)
    BY <2>4 DEF Steps
  <2>5. CASE AwaitMemTable(t)
    BY <2>5, AwaitMemTableMinor DEF Steps
  <2>6. CASE AwaitManual(t)
    BY <2>6, AwaitManualMinor DEF Steps
  <2>7. CASE ManualReturns(t)
    BY <2>7, ManualReturnsMinor DEF Steps
  <2> QED
    BY <1>1, <2>1, <2>2, <2>3, <2>4, <2>5, <2>6, <2>7 DEF Thread
<1>2. ASSUME NEW t \in Threads, NEW o \in Calls[t], Write(t, o) \/ Get(t, o) PROVE Steps
  BY <1>2 DEF Steps
<1>3. CASE Background
  BY <1>3, BackgroundEffect DEF Steps
<1>4. CASE Destruct \/ UNCHANGED vars
  BY <1>4, RestsIs DEF Steps
<1> QED
  BY <1>1, <1>2, <1>3, <1>4 DEF Next

\* The entries of a batch that is committed.
LEMMA EntriesType ==
    ASSUME Parameters, TypeInv, NEW i PROVE Entries(i) \in SUBSET Nat
<1> DEFINE c == Cardinality(Batches(group.members) \cap 1..(i - 1))
           before == db.lastSequence + BatchSize * c
<1>1. group.members \in Seq(Threads) /\ db.lastSequence \in Nat /\ BatchSize \in Nat
  BY DEF TypeInv, GroupState, DbState, Parameters
<1>2. c \in Nat
  BY <1>1, BatchesFinite
<1> HIDE DEF c
<1>3. BatchSize * c \in Nat
  BY <1>2, Times
<1>4. before \in Nat
  BY <1>1, <1>3
<1> HIDE DEF before
<1>5. (before + 1) .. (before + BatchSize) \subseteq Nat
  BY <1>1, <1>4
<1> QED
  BY <1>5 DEF Entries, before, c

\* The record of a write that returned OK.
LEMMA AckFrom ==
    ASSUME NEW entries \in SUBSET Nat, NEW sync \in BOOLEAN, NEW late \in BOOLEAN
    PROVE  [entries |-> entries, sync |-> sync, late |-> late] \in Ack
BY DEF Ack

\* The queue behind its first n writers.
LEMMA SubQueue ==
    ASSUME queue \in Seq(Threads), NEW n \in 1..Len(queue)
    PROVE  LET rest == SubSeq(queue, n + 1, Len(queue))
           IN  /\ rest \in Seq(Threads) /\ Len(rest) = Len(queue) - n
               /\ \A i \in DOMAIN rest : rest[i] = queue[n + i] /\ n + i \in DOMAIN queue
<1>1. n + 1 \in Int /\ Len(queue) \in Int /\ \A i \in (n + 1)..Len(queue) : queue[i] \in Threads
  OBVIOUS
<1>2. SubSeq(queue, n + 1, Len(queue)) \in Seq(Threads)
  BY <1>1, SubSeqProperties
<1>3. /\ Len(SubSeq(queue, n + 1, Len(queue))) = Len(queue) - n
      /\ \A i \in 1..(Len(queue) - n) : SubSeq(queue, n + 1, Len(queue))[i] = queue[n + i]
  <2>1. /\ Len(SubSeq(queue, n + 1, Len(queue))) = IF n + 1 <= Len(queue) THEN Len(queue) - (n + 1) + 1 ELSE 0
        /\ \A i \in 1..(Len(queue) - (n + 1) + 1) : SubSeq(queue, n + 1, Len(queue))[i] = queue[n + 1 + i - 1]
    BY <1>1, SubSeqProperties
  <2> QED
    BY <2>1
<1> QED
  BY <1>2, <1>3

\* TypeInv is kept by every step: of a thread, of the background thread, of the destructor.
LEMMA TypeStep ==
    ASSUME Parameters, TypeInv, QueueInv, GroupInv, LevelInv, Steps PROVE TypeInv'
<1>0. /\ thread \in [Threads -> ThreadState] /\ mutex \in Threads \cup {None} /\ queue \in Seq(Threads)
      /\ group \in GroupState /\ db \in DbState /\ bg \in BgState /\ failures \in Nat /\ acked \subseteq Ack
      /\ db.mem \in DOMAIN db.contents /\ db.imm \in DOMAIN db.contents \cup {None}
      /\ DOMAIN db.refs = DOMAIN db.contents
  BY DEF TypeInv
<1>1. ASSUME NEW t \in Threads, NEW o \in Calls[t], Write(t, o) PROVE TypeInv'
  BY <1>1, WriteType
<1>2. ASSUME NEW t \in Threads, NEW o \in Calls[t], Get(t, o) PROVE TypeInv'
  <2>1. thread' \in [Threads -> ThreadState]
    BY <1>2, GetIs
  <2>2. UNCHANGED <<mutex, queue, group, bg, failures, acked>> /\ db' = Ref(db, {db.mem, db.imm} \ {None})
    BY <1>2 DEF Get
  <2>3. /\ db' \in DbState /\ db'.mem = db.mem /\ db'.imm = db.imm /\ db'.contents = db.contents
        /\ DOMAIN db'.refs = DOMAIN db.refs
    BY <1>0, <2>2, RefIs
  <2> QED
    BY <1>0, <2>1, <2>2, <2>3 DEF TypeInv
<1>3. ASSUME NEW t \in Threads, NEW wasted \in BOOLEAN, GetReturns(t, wasted) PROVE TypeInv'
  <2>1. thread' \in [Threads -> ThreadState]
    BY <1>3, GetReturnsIs
  <2>2. UNCHANGED <<mutex, queue, group, failures, acked>>
    BY <1>3 DEF GetReturns
  <2> DEFINE e == Unref(db, thread[t].held.mems)
  <2>3. db' \in DbState /\ bg' \in BgState /\ SameTables(e, db')
    BY <1>3, GetReturnsStore
  <2>4. e.mem = db.mem /\ e.imm = db.imm /\ DOMAIN e.refs = DOMAIN db.refs /\ DOMAIN e.contents = DOMAIN db.contents
    BY <1>0, UnrefIs
  <2> HIDE DEF e
  <2> QED
    BY <1>0, <2>1, <2>2, <2>3, <2>4 DEF TypeInv, SameTables
<1>4. ASSUME NEW t \in Threads, MinorStep(t) PROVE TypeInv'
  BY <1>0, <1>4 DEF TypeInv, MinorStep, StepOf, BgSame
<1>5. ASSUME NEW t \in Threads, LeavesAlone(t) PROVE TypeInv'
  <2>1. 1 \in 1..Len(queue)
    BY <1>0, <1>5 DEF LeavesAlone, IsFront
  <2>2. queue' \in Seq(Threads) /\ mutex' = None /\ thread' \in [Threads -> ThreadState]
    BY <1>0, <1>5, <2>1, SubQueue DEF LeavesAlone, LeaveOf
  <2> QED
    BY <1>0, <1>5, <2>2 DEF TypeInv, LeavesAlone
<1>6. ASSUME NEW t \in Threads, RoomSwitch(t) PROVE TypeInv'
  <2>1. thread' \in [Threads -> ThreadState]
    BY <1>6, RoomSwitchIs DEF StepOf
  <2>2. UNCHANGED <<queue, group, failures, acked>> /\ mutex' = t
    BY <1>6 DEF RoomSwitch
  <2>3. /\ db' \in DbState /\ bg' \in BgState /\ db'.mem \in DOMAIN db'.contents /\ db'.imm \in DOMAIN db'.contents
        /\ DOMAIN db'.refs = DOMAIN db'.contents
    BY <1>0, <1>6, RoomSwitchStore
  <2> QED
    BY <1>0, <2>1, <2>2, <2>3 DEF TypeInv
<1>7. ASSUME NEW t \in Threads, StartGroup(t) PROVE TypeInv'
  <2>1. thread' \in [Threads -> ThreadState] /\ group' \in GroupState
    BY <1>7, StartGroupIs, StartGroupGroup DEF StepOf
  <2>2. UNCHANGED <<queue, db, bg, failures, acked>> /\ mutex' = None
    BY <1>7 DEF StartGroup
  <2> QED
    BY <1>0, <2>1, <2>2 DEF TypeInv
<1>8. ASSUME NEW t \in Threads, Insert(t) PROVE TypeInv'
  <2>1. thread' \in [Threads -> ThreadState]
    BY <1>8, InsertIs DEF StepOf
  <2>2. UNCHANGED <<mutex, queue, bg, failures, acked>> /\ thread[t].pc = "inserting"
    BY <1>8 DEF Insert
  <2>3. group.todo # <<>>
    BY <2>2 DEF GroupInv, GroupOf, Busy
  <2>4. /\ db' \in DbState /\ group' \in GroupState /\ db'.mem = db.mem /\ db'.imm = db.imm /\ db'.refs = db.refs
        /\ DOMAIN db'.contents = DOMAIN db.contents
    BY <1>8, <2>3, InsertStore
  <2> QED
    BY <1>0, <2>1, <2>2, <2>4 DEF TypeInv
<1>9. ASSUME NEW t \in Threads, Commit(t) PROVE TypeInv'
  <2>1. LeaveOf(Len(group.members)) /\ GroupOf(t) /\ failures' = failures
    BY <1>9, CommitIs
  <2>2. group.members \in Seq(Threads)
    BY <1>0 DEF GroupState
  <2>3. Len(group.members) \in 1..Len(queue)
    <3>1. group.members # <<>> /\ Len(group.members) <= Len(queue)
      BY <2>1 DEF GroupOf
    <3> QED
      BY <1>0, <2>2, <3>1
  <2>4. queue' \in Seq(Threads) /\ mutex' = None /\ thread' \in [Threads -> ThreadState]
    BY <1>0, <2>1, <2>3, SubQueue DEF LeaveOf
  <2>5. /\ db' \in DbState /\ SameTables(db, db') /\ bg' \in BgState /\ group' \in GroupState
    BY <1>9, CommitStore
  <2>6. acked' \subseteq Ack
    <3>1. \A i \in Batches(group.members) : /\ thread[group.members[i]].op.sync \in BOOLEAN
                                            /\ thread[group.members[i]].late \in BOOLEAN
      <4> SUFFICES ASSUME NEW i \in Batches(group.members)
                   PROVE  /\ thread[group.members[i]].op.sync \in BOOLEAN
                          /\ thread[group.members[i]].late \in BOOLEAN
        OBVIOUS
      <4>1. group.members[i] \in Threads
        BY <2>2 DEF Batches
      <4>2. thread[group.members[i]] \in ThreadState
        BY <1>0, <4>1
      <4> QED
        BY <4>2 DEF ThreadState, Call
    <3>2. \A i \in Batches(group.members) :
             [entries |-> Entries(i), sync |-> thread[group.members[i]].op.sync,
              late |-> thread[group.members[i]].late] \in Ack
      <4> SUFFICES ASSUME NEW i \in Batches(group.members)
                   PROVE  [entries |-> Entries(i), sync |-> thread[group.members[i]].op.sync,
                           late |-> thread[group.members[i]].late] \in Ack
        OBVIOUS
      <4>1. Entries(i) \in SUBSET Nat
        BY EntriesType
      <4>2. thread[group.members[i]].op.sync \in BOOLEAN /\ thread[group.members[i]].late \in BOOLEAN
        BY <3>1
      <4> QED
        BY <4>1, <4>2, AckFrom
    <3>3. acked' = IF ~group.ok THEN acked
                   ELSE acked \cup {[entries |-> Entries(i), sync |-> thread[group.members[i]].op.sync,
                                     late |-> thread[group.members[i]].late] : i \in Batches(group.members)}
      BY <1>9 DEF Commit
    <3> QED
      BY <1>0, <3>2, <3>3
  <2> QED
    BY <1>0, <2>1, <2>4, <2>5, <2>6 DEF TypeInv, SameTables
<1>10. ASSUME NEW t \in Threads, NEW ok \in BOOLEAN, AddRecord(t, ok) PROVE TypeInv'
  <2>1. thread' \in [Threads -> ThreadState]
    BY <1>10, AddRecordIs DEF StepOf
  <2>2. UNCHANGED <<mutex, queue, bg, acked>> /\ failures' \in Nat
    BY <1>0, <1>10, OutcomeIs DEF AddRecord
  <2> QED
    BY <1>0, <1>10, <2>1, <2>2, AddRecordStore DEF TypeInv, SameTables
<1>11. ASSUME NEW t \in Threads, NEW ok \in BOOLEAN, Sync(t, ok) PROVE TypeInv'
  <2>1. thread' \in [Threads -> ThreadState]
    BY <1>11, SyncIs DEF StepOf
  <2>2. UNCHANGED <<mutex, queue, bg, acked>> /\ failures' \in Nat
    BY <1>0, <1>11, OutcomeIs DEF Sync
  <2> QED
    BY <1>0, <1>11, <2>1, <2>2, SyncStore DEF TypeInv, SameTables
<1>12. CASE BackgroundIs
  <2>1. thread' \in [Threads -> ThreadState]
    BY <1>0, <1>12, SignalAllIs DEF BackgroundIs
  <2>2. /\ UNCHANGED <<mutex, queue, group, acked>> /\ bg' \in BgState /\ db' \in DbState /\ failures' \in Nat
    BY <1>12 DEF BackgroundIs
  <2>3. /\ db'.mem \in DOMAIN db'.contents /\ db'.imm \in DOMAIN db'.contents \cup {None}
        /\ DOMAIN db'.refs = DOMAIN db'.contents
    <3>1. CASE SameTables(db, db')
      BY <1>0, <3>1 DEF SameTables
    <3>2. CASE Installs
      BY <1>0, <3>2, UnrefIs DEF Installs
    <3> QED
      BY <1>12, <3>1, <3>2 DEF BackgroundIs
  <2> QED
    BY <1>0, <2>1, <2>2, <2>3 DEF TypeInv
<1>13. CASE Rests
  BY <1>0, <1>13 DEF Rests, TypeInv
<1> QED
  BY <1>1, <1>2, <1>3, <1>4, <1>5, <1>6, <1>7, <1>8, <1>9, <1>10, <1>11, <1>12, <1>13 DEF Steps

-----------------------------------------------------------------------------
(* The queue.                                                              *)

\* Only who waits for something sleeps.
LEMMA AwakeIs ==
    ASSUME TypeInv, QueueInv, NEW t \in Threads, thread[t].pc \notin {"queued", "flushing", "manual"}
    PROVE  thread[t].asleep = "no"
<1>1. thread[t].asleep \in {"no", "own", "bg"}
  BY DEF TypeInv, ThreadState
<1> QED
  BY <1>1 DEF QueueInv

\* A thread goes on and the queue stays.
LEMMA QueueKept ==
    ASSUME QueueInv, NEW t \in Threads, queue' = queue, \A u \in Threads \ {t} : thread'[u] = thread[u],
           thread'[t].op = thread[t].op \/ thread'[t].pc \notin InQueue,
           thread[t].pc \in InQueue <=> thread'[t].pc \in InQueue,
           thread'[t].pc \in Writing => queue # <<>> /\ queue[1] = t,
           thread'[t].asleep = "own" => thread'[t].pc = "queued" /\ thread[t].asleep = "own",
           thread'[t].asleep = "bg" => thread'[t].pc \in {"queued", "flushing", "manual"}
    PROVE  QueueInv'
<1>1. ASSUME NEW u \in Threads
      PROVE  /\ thread'[u].pc \in InQueue <=> \E i \in DOMAIN queue : queue[i] = u
             /\ thread'[u].pc \in InQueue => thread'[u].op.kind \in {"write", "flush", "range"}
             /\ thread'[u].pc \in Writing => queue # <<>> /\ queue[1] = u
             /\ thread'[u].asleep = "own" => thread'[u].pc = "queued" /\ queue[1] # u
             /\ thread'[u].asleep = "bg" => thread'[u].pc \in {"queued", "flushing", "manual"}
  <2>1. CASE u = t
    BY <2>1 DEF QueueInv
  <2>2. CASE u # t
    <3>1. thread'[u] = thread[u]
      BY <2>2
    <3> QED
      BY <3>1 DEF QueueInv
  <2> QED
    BY <2>1, <2>2
<1> QED
  BY <1>1 DEF QueueInv

\* Nobody goes on, and some may be woken.
LEMMA QueueSame ==
    ASSUME QueueInv, queue' = queue,
           \A u \in Threads : /\ thread'[u].pc = thread[u].pc /\ thread'[u].op = thread[u].op
                              /\ thread'[u].asleep \in {thread[u].asleep, "no"}
    PROVE  QueueInv'
<1>1. ASSUME NEW u \in Threads
      PROVE  /\ thread'[u].pc \in InQueue <=> \E i \in DOMAIN queue : queue[i] = u
             /\ thread'[u].pc \in InQueue => thread'[u].op.kind \in {"write", "flush", "range"}
             /\ thread'[u].pc \in Writing => queue # <<>> /\ queue[1] = u
             /\ thread'[u].asleep = "own" => thread'[u].pc = "queued" /\ queue[1] # u
             /\ thread'[u].asleep = "bg" => thread'[u].pc \in {"queued", "flushing", "manual"}
  <2>1. thread'[u].pc = thread[u].pc /\ thread'[u].op = thread[u].op /\ thread'[u].asleep \in {thread[u].asleep, "no"}
    OBVIOUS
  <2>2. /\ thread[u].pc \in InQueue <=> \E i \in DOMAIN queue : queue[i] = u
        /\ thread[u].pc \in InQueue => thread[u].op.kind \in {"write", "flush", "range"}
        /\ thread[u].pc \in Writing => queue # <<>> /\ queue[1] = u
        /\ thread[u].asleep = "own" => thread[u].pc = "queued" /\ queue[1] # u
        /\ thread[u].asleep = "bg" => thread[u].pc \in {"queued", "flushing", "manual"}
    BY DEF QueueInv
  <2> QED
    BY <2>1, <2>2
<1> QED
  BY <1>1 DEF QueueInv

\* The first writers leave: the others are still in the queue, and the new front
\* is awake.
LEMMA QueueLeft ==
    ASSUME TypeInv, QueueInv, NEW n \in 1..Len(queue), LeaveOf(n) PROVE QueueInv'
<1>1. queue \in Seq(Threads)
  BY DEF TypeInv
<1>2. /\ queue' \in Seq(Threads) /\ Len(queue') = Len(queue) - n
      /\ \A i \in DOMAIN queue' : queue'[i] = queue[n + i] /\ n + i \in DOMAIN queue
  BY <1>1, SubQueue DEF LeaveOf
<1>3. \A i, j \in DOMAIN queue' : queue'[i] = queue'[j] => i = j
  <2> SUFFICES ASSUME NEW i \in DOMAIN queue', NEW j \in DOMAIN queue', queue'[i] = queue'[j] PROVE i = j
    OBVIOUS
  <2>1. n + i = n + j
    BY <1>2 DEF QueueInv
  <2> QED
    BY <1>2, <2>1
<1>4. ASSUME NEW u \in Threads, NEW i \in 1..n, queue[i] = u
      PROVE  /\ thread'[u].pc \in {"idle", "flushing", "manual"} /\ thread'[u].asleep = "no"
             /\ ~ \E j \in DOMAIN queue' : queue'[j] = u
  <2>1. thread'[u].pc \in {"idle", "flushing", "manual"} /\ thread'[u].asleep = "no"
    BY <1>4 DEF LeaveOf
  <2>2. ASSUME NEW j \in DOMAIN queue', queue'[j] = u PROVE FALSE
    <3>1. queue[n + j] = queue[i] /\ n + j \in DOMAIN queue /\ i \in DOMAIN queue
      BY <1>1, <1>2, <1>4, <2>2
    <3>2. n + j = i
      BY <3>1 DEF QueueInv
    <3> QED
      BY <1>2, <3>2
  <2> QED
    BY <2>1, <2>2
<1>5. ASSUME NEW u \in Threads, ~ \E i \in 1..n : queue[i] = u
      PROVE  /\ thread'[u].pc = thread[u].pc /\ thread'[u].op = thread[u].op
             /\ thread'[u].asleep \in {thread[u].asleep, "no"}
             /\ n < Len(queue) /\ u = queue[n + 1] => thread'[u].asleep # "own"
  BY <1>5 DEF LeaveOf, Kept
<1>6. ASSUME NEW u \in Threads, ~ \E i \in 1..n : queue[i] = u
      PROVE  (\E i \in DOMAIN queue : queue[i] = u) <=> (\E j \in DOMAIN queue' : queue'[j] = u)
  <2>1. ASSUME NEW i \in DOMAIN queue, queue[i] = u PROVE \E j \in DOMAIN queue' : queue'[j] = u
    <3>1. i \in 1..Len(queue) /\ i \notin 1..n
      BY <1>1, <1>6, <2>1
    <3>2. i - n \in DOMAIN queue' /\ n + (i - n) = i
      BY <1>1, <1>2, <3>1
    <3>3. queue'[i - n] = queue[i]
      BY <1>2, <3>2
    <3> QED
      BY <2>1, <3>2, <3>3
  <2> QED
    BY <1>2, <2>1
<1>7. ASSUME NEW u \in Threads
      PROVE  /\ thread'[u].pc \in InQueue <=> \E i \in DOMAIN queue' : queue'[i] = u
             /\ thread'[u].pc \in InQueue => thread'[u].op.kind \in {"write", "flush", "range"}
             /\ thread'[u].pc \in Writing => queue' # <<>> /\ queue'[1] = u
             /\ thread'[u].asleep = "own" => thread'[u].pc = "queued" /\ queue'[1] # u
             /\ thread'[u].asleep = "bg" => thread'[u].pc \in {"queued", "flushing", "manual"}
  <2>1. CASE \E i \in 1..n : queue[i] = u
    BY <1>4, <2>1 DEF InQueue, Writing, Busy
  <2>2. CASE ~ \E i \in 1..n : queue[i] = u
    <3>1. thread[u].pc \notin Writing
      <4>1. thread[u].pc \in Writing => queue[1] = u /\ 1 \in 1..n
        BY DEF QueueInv
      <4> QED
        BY <2>2, <4>1
    <3>2. thread'[u].asleep = "own" => thread[u].pc = "queued" /\ queue'[1] # u
      <4> SUFFICES ASSUME thread'[u].asleep = "own" PROVE thread[u].pc = "queued" /\ queue'[1] # u
        OBVIOUS
      <4>1. thread[u].asleep = "own" /\ thread[u].pc = "queued"
        BY <1>5, <2>2 DEF QueueInv
      <4>2. \E j \in DOMAIN queue' : queue'[j] = u
        BY <1>6, <2>2, <4>1 DEF QueueInv, InQueue
      <4>3. n < Len(queue) /\ queue'[1] = queue[n + 1]
        BY <1>1, <1>2, <4>2
      <4> QED
        BY <1>5, <2>2, <4>1, <4>3
    <3>3. thread'[u].pc = thread[u].pc /\ thread'[u].op = thread[u].op /\ thread'[u].asleep \in {thread[u].asleep, "no"}
      BY <1>5, <2>2
    <3>4. thread[u].pc \in InQueue <=> \E i \in DOMAIN queue' : queue'[i] = u
      BY <1>6, <2>2 DEF QueueInv
    <3> QED
      BY <3>1, <3>2, <3>3, <3>4 DEF QueueInv
  <2> QED
    BY <2>1, <2>2
<1> QED
  BY <1>3, <1>7 DEF QueueInv

\* QueueInv is kept: who enters the queue goes to its end, who leaves it was at its front.
LEMMA QueueStep ==
    ASSUME Parameters, TypeInv, QueueInv, GroupInv, LevelInv, Steps PROVE QueueInv'
<1>0. thread \in [Threads -> ThreadState] /\ queue \in Seq(Threads) /\ group.members \in Seq(Threads)
  BY DEF TypeInv, GroupState
<1> USE DEF InQueue, Writing, Busy
<1>1. ASSUME NEW t \in Threads, NEW o \in Calls[t], Write(t, o) PROVE QueueInv'
  <2>1. queue' = Append(queue, t) /\ thread[t].pc = "idle" /\ o.kind # "get"
    BY <1>1 DEF Write, CanCall
  <2>2. /\ Len(queue') = Len(queue) + 1 /\ queue' \in Seq(Threads) /\ queue'[Len(queue) + 1] = t
        /\ \A i \in DOMAIN queue : queue'[i] = queue[i]
    BY <1>0, <2>1, AppendProperties
  <2>3. /\ thread'[t].pc = "queued" /\ thread'[t].op = o
        /\ thread'[t].asleep = IF IsFront(queue', t) THEN "no" ELSE "own"
        /\ \A u \in Threads \ {t} : thread'[u] = thread[u]
    <3>1. thread[t] \in ThreadState
      BY <1>0
    <3> QED
      BY <1>0, <1>1, <3>1 DEF Write, ThreadState
  <2>4. o.kind \in {"write", "flush", "range"}
    BY <2>1 DEF Parameters, Kinds
  <2>5. \A i \in DOMAIN queue : queue[i] # t
    BY <2>1 DEF QueueInv
  <2>6. /\ DOMAIN queue = 1..Len(queue) /\ DOMAIN queue' = 1..(Len(queue) + 1) /\ Len(queue) \in Nat
        /\ queue' # <<>>
    BY <1>0, <2>2
  <2>7. \A i, j \in DOMAIN queue' : queue'[i] = queue'[j] => i = j
    <3>1. \A i \in DOMAIN queue' : i \in DOMAIN queue \/ i = Len(queue) + 1
      BY <2>6
    <3>2. \A i, j \in DOMAIN queue : queue[i] = queue[j] => i = j
      BY DEF QueueInv
    <3> QED
      BY <2>2, <2>5, <3>1, <3>2
  <2>8. ASSUME NEW u \in Threads
        PROVE  /\ thread'[u].pc \in InQueue <=> \E i \in DOMAIN queue' : queue'[i] = u
               /\ thread'[u].pc \in InQueue => thread'[u].op.kind \in {"write", "flush", "range"}
               /\ thread'[u].pc \in Writing => queue' # <<>> /\ queue'[1] = u
               /\ thread'[u].asleep = "own" => thread'[u].pc = "queued" /\ queue'[1] # u
               /\ thread'[u].asleep = "bg" => thread'[u].pc \in {"queued", "flushing", "manual"}
    <3>1. CASE u = t
      <4>1. Len(queue) + 1 \in DOMAIN queue'
        BY <2>6
      <4> QED
        BY <2>2, <2>3, <2>4, <2>6, <3>1, <4>1 DEF IsFront
    <3>2. CASE u # t
      <4>1. thread'[u] = thread[u]
        BY <2>3, <3>2
      <4>2. (\E i \in DOMAIN queue : queue[i] = u) <=> (\E i \in DOMAIN queue' : queue'[i] = u)
        <5>1. \A i \in DOMAIN queue' : i \in DOMAIN queue \/ i = Len(queue) + 1
          BY <2>6
        <5>2. \A i \in DOMAIN queue : i \in DOMAIN queue'
          BY <2>6
        <5> QED
          BY <2>2, <3>2, <5>1, <5>2
      <4>3. queue # <<>> => queue'[1] = queue[1]
        BY <1>0, <2>2
      <4>4. thread[u].pc \in InQueue => queue # <<>>
        <5>1. thread[u].pc \in InQueue => \E i \in DOMAIN queue : queue[i] = u
          BY DEF QueueInv
        <5>2. queue = <<>> => DOMAIN queue = {}
          OBVIOUS
        <5> HIDE DEF InQueue
        <5> QED
          BY <5>1, <5>2
      <4>5. /\ thread[u].pc \in InQueue <=> \E i \in DOMAIN queue' : queue'[i] = u
            /\ thread[u].pc \in InQueue => thread[u].op.kind \in {"write", "flush", "range"}
            /\ thread[u].pc \in Writing => queue # <<>> /\ queue[1] = u
            /\ thread[u].asleep = "own" => thread[u].pc = "queued" /\ queue[1] # u
            /\ thread[u].asleep = "bg" => thread[u].pc \in {"queued", "flushing", "manual"}
        BY <4>2 DEF QueueInv
      <4> QED
        BY <2>6, <4>1, <4>3, <4>4, <4>5
    <3> QED
      BY <3>1, <3>2
  <2> QED
    BY <2>7, <2>8 DEF QueueInv
<1>2. ASSUME NEW t \in Threads, NEW o \in Calls[t], Get(t, o) PROVE QueueInv'
  <2>1. /\ \A u \in Threads \ {t} : thread'[u] = thread[u]
        /\ thread[t].pc = "idle" /\ thread'[t].pc = "reading" /\ thread'[t].asleep = thread[t].asleep
    BY <1>2, GetIs
  <2>2. thread[t].asleep = "no"
    BY <2>1, AwakeIs
  <2>3. queue' = queue
    BY <1>2 DEF Get
  <2> QED
    BY <2>1, <2>2, <2>3, QueueKept
<1>3. ASSUME NEW t \in Threads, NEW wasted \in BOOLEAN, GetReturns(t, wasted) PROVE QueueInv'
  <2>1. /\ \A u \in Threads \ {t} : thread'[u] = thread[u]
        /\ thread[t].pc = "reading" /\ thread'[t].pc = "idle" /\ thread'[t].asleep = thread[t].asleep
    BY <1>3, GetReturnsIs
  <2>2. thread[t].asleep = "no"
    BY <2>1, AwakeIs
  <2>3. queue' = queue
    BY <1>3 DEF GetReturns
  <2> QED
    BY <2>1, <2>2, <2>3, QueueKept
<1>4. ASSUME NEW t \in Threads, MinorStep(t) PROVE QueueInv'
  BY <1>4, QueueKept DEF MinorStep, StepOf, Kept, IsFront
<1>5. ASSUME NEW t \in Threads, LeavesAlone(t) PROVE QueueInv'
  <2>1. 1 \in 1..Len(queue)
    BY <1>0, <1>5 DEF LeavesAlone, IsFront
  <2> QED
    BY <1>5, <2>1, QueueLeft DEF LeavesAlone
<1>6. ASSUME NEW t \in Threads, RoomSwitch(t) PROVE QueueInv'
  <2>1. StepOf(t, thread[t].pc, thread[t].asleep) /\ queue' = queue /\ AtFront(t)
    BY <1>6, RoomSwitchIs DEF RoomSwitch, Turn
  <2> QED
    BY <2>1, QueueKept DEF StepOf, Kept, AtFront, IsFront
<1>7. ASSUME NEW t \in Threads, StartGroup(t) PROVE QueueInv'
  <2>1. StepOf(t, "logging", thread[t].asleep) /\ queue' = queue /\ AtFront(t)
    BY <1>7, StartGroupIs DEF StartGroup, Turn
  <2> QED
    BY <2>1, QueueKept DEF StepOf, Kept, AtFront, IsFront
<1>8. ASSUME NEW t \in Threads, NEW p \in Busy, StepOf(t, p, thread[t].asleep), thread[t].pc \in Busy, queue' = queue
      PROVE  QueueInv'
  <2>1. thread[t].asleep = "no"
    BY <1>8, AwakeIs
  <2>2. queue # <<>> /\ queue[1] = t
    BY <1>8 DEF QueueInv
  <2> QED
    BY <1>8, <2>1, <2>2, QueueKept DEF StepOf, Kept
<1>9. ASSUME NEW t \in Threads, Insert(t) PROVE QueueInv'
  BY <1>8, <1>9, InsertIs DEF Insert
<1>10. ASSUME NEW t \in Threads, NEW ok \in BOOLEAN, AddRecord(t, ok) PROVE QueueInv'
  BY <1>8, <1>10, AddRecordIs DEF AddRecord
<1>11. ASSUME NEW t \in Threads, NEW ok \in BOOLEAN, Sync(t, ok) PROVE QueueInv'
  BY <1>8, <1>11, SyncIs DEF Sync
<1>12. ASSUME NEW t \in Threads, Commit(t) PROVE QueueInv'
  <2>1. LeaveOf(Len(group.members)) /\ GroupOf(t)
    BY <1>12, CommitIs
  <2>2. group.members # <<>> /\ Len(group.members) <= Len(queue)
    BY <2>1 DEF GroupOf
  <2>3. Len(group.members) \in 1..Len(queue)
    BY <1>0, <2>2
  <2> QED
    BY <2>1, <2>3, QueueLeft
<1>13. CASE BackgroundIs
  <2>1. queue' = queue /\ thread' \in {thread, SignalAll(thread)}
    BY <1>13 DEF BackgroundIs
  <2>2. \A u \in Threads : /\ thread'[u].pc = thread[u].pc /\ thread'[u].op = thread[u].op
                           /\ thread'[u].asleep \in {thread[u].asleep, "no"}
    BY <1>0, <2>1, SignalAllIs DEF Kept
  <2> QED
    BY <2>1, <2>2, QueueSame
<1>14. CASE Rests
  BY <1>14, QueueSame DEF Rests
<1> QED
  BY <1>1, <1>2, <1>3, <1>4, <1>5, <1>6, <1>7, <1>9, <1>10, <1>11, <1>12, <1>13, <1>14 DEF Steps

-----------------------------------------------------------------------------
(* The group.                                                              *)

\* Who is in the group is in the queue, and its writer is the first.
LEMMA GroupIs ==
    ASSUME TypeInv, QueueInv, NEW t \in Threads, thread[t].pc \in Busy, GroupOf(t)
    PROVE  /\ group.members \in Seq(Threads) /\ queue \in Seq(Threads)
           /\ Len(group.members) \in 1..Len(queue)
           /\ queue[1] = t /\ group.members[1] = t /\ 1 \in Batches(group.members)
           /\ \A i \in DOMAIN group.members : i \in DOMAIN queue /\ group.members[i] = queue[i]
           /\ \A i \in Batches(group.members) : i \in DOMAIN queue /\ i \in DOMAIN group.members
<1>1. group.members \in Seq(Threads) /\ queue \in Seq(Threads)
  BY DEF TypeInv, GroupState
<1>2. /\ HasBatch(t) /\ group.members # <<>> /\ Len(group.members) <= Len(queue)
      /\ \A i \in DOMAIN group.members : group.members[i] = queue[i]
  BY DEF GroupOf
<1>3. queue[1] = t
  BY DEF QueueInv, Writing
<1>4. Len(group.members) \in 1..Len(queue) /\ DOMAIN group.members = 1..Len(group.members) /\ DOMAIN queue = 1..Len(queue)
  BY <1>1, <1>2
<1>5. 1 \in DOMAIN group.members /\ \A i \in DOMAIN group.members : i \in DOMAIN queue
  BY <1>4
<1>6. group.members[1] = t
  BY <1>2, <1>3, <1>5
<1> QED
  BY <1>1, <1>2, <1>3, <1>4, <1>5, <1>6 DEF Batches

\* A group has an entry.
LEMMA GroupHasEntries ==
    ASSUME Parameters, TypeInv, QueueInv, NEW t \in Threads, thread[t].pc \in Busy, GroupOf(t)
    PROVE  group.last > db.lastSequence
<1> DEFINE c == Cardinality(Batches(group.members))
<1>1. group.members \in Seq(Threads) /\ 1 \in Batches(group.members)
  BY GroupIs
<1>2. c \in Nat /\ c # 0
  BY <1>1, BatchesFinite, FS_EmptySet
<1>3. group.last = db.lastSequence + BatchSize * c
  BY DEF GroupOf
<1> HIDE DEF c
<1>4. BatchSize * c \in Nat /\ BatchSize * c # 0
  BY <1>2, Times
<1>5. db.lastSequence \in Nat
  BY DEF TypeInv, DbState
<1> QED
  BY <1>3, <1>4, <1>5

\* A step that leaves the group and its writers alone.
LEMMA GroupKept ==
    ASSUME Parameters, TypeInv, QueueInv, GroupInv, group' = group, db'.lastSequence = db.lastSequence,
           db'.unsynced \subseteq db.unsynced,
           queue' \in Seq(Threads), Len(queue) <= Len(queue'),
           \A i \in DOMAIN queue : /\ queue'[i] = queue[i] /\ thread'[queue[i]].op = thread[queue[i]].op
                                   /\ thread'[queue[i]].late = thread[queue[i]].late,
           \A u \in Threads : thread'[u].pc \in Busy => thread'[u].pc = thread[u].pc
    PROVE  GroupInv'
<1> SUFFICES ASSUME NEW t \in Threads, thread'[t].pc \in Busy PROVE GroupOf(t)'
  BY DEF GroupInv
<1>1. thread'[t].pc = thread[t].pc /\ GroupOf(t)
  BY DEF GroupInv
<1>2. /\ group.members \in Seq(Threads) /\ queue \in Seq(Threads) /\ Len(group.members) \in 1..Len(queue)
      /\ queue[1] = t /\ \A i \in DOMAIN group.members : i \in DOMAIN queue /\ group.members[i] = queue[i]
  BY <1>1, GroupIs
<1>3. 1 \in DOMAIN queue /\ Len(group.members) <= Len(queue')
  BY <1>2
<1>4. thread'[t].op = thread[t].op
  BY <1>2, <1>3
<1>5. Batches(group.members)' = Batches(group.members)
  <2>1. \A i \in DOMAIN group.members : HasBatch(group.members[i])' <=> HasBatch(group.members[i])
    BY <1>2 DEF HasBatch
  <2> QED
    BY <2>1 DEF Batches
<1>6. Inserts(t)' <=> Inserts(t)
  BY <1>1 DEF Inserts
<1>7. \A i \in DOMAIN group.members : /\ group.members[i] = queue'[i]
                                     /\ thread'[queue'[i]].late = thread[queue[i]].late
                                     /\ thread'[queue'[i]].op = thread[queue[i]].op
  BY <1>2
<1>8. HasBatch(t)'
  BY <1>1, <1>4 DEF GroupOf, HasBatch
<1>9. \A i \in DOMAIN group.members : ~thread[queue[i]].late /\ (thread[queue[i]].op.sync => thread[t].op.sync)
  BY <1>1 DEF GroupOf
<1>10. \A i \in DOMAIN group.members :
           /\ group.members[i] = queue'[i] /\ ~thread'[queue'[i]].late
           /\ thread'[queue'[i]].op.sync => thread'[t].op.sync
  BY <1>4, <1>7, <1>9
<1>11. thread'[t].op.sync /\ Inserts(t)' => \A s \in db'.unsynced : s <= db'.lastSequence
  BY <1>1, <1>4, <1>6 DEF GroupOf
<1> QED
  BY <1>1, <1>3, <1>5, <1>6, <1>8, <1>10, <1>11 DEF GroupOf

\* When writers leave, nobody is left who writes.
LEMMA NobodyWrites ==
    ASSUME TypeInv, QueueInv, NEW n \in 1..Len(queue), LeaveOf(n), NEW u \in Threads
    PROVE  thread'[u].pc \notin Writing
<1>1. CASE \E i \in 1..n : queue[i] = u
  BY <1>1 DEF LeaveOf, Writing, Busy
<1>2. CASE ~ \E i \in 1..n : queue[i] = u
  <2>1. thread'[u].pc = thread[u].pc
    BY <1>2 DEF LeaveOf
  <2>2. thread[u].pc \in Writing => queue[1] = u /\ 1 \in 1..n
    BY DEF QueueInv
  <2> QED
    BY <1>2, <2>1, <2>2
<1> QED
  BY <1>1, <1>2

\* One thread writes.
LEMMA OneWrites ==
    ASSUME QueueInv, NEW t \in Threads, NEW u \in Threads, thread[t].pc \in InQueue, IsFront(queue, t),
           thread[u].pc \in Writing
    PROVE  u = t
BY DEF QueueInv, IsFront

\* GroupInv holds of a group when it is made,
LEMMA GroupStart ==
    ASSUME Parameters, TypeInv, QueueInv, GroupInv, LateInv, NEW t \in Threads, StartGroup(t)
    PROVE  GroupInv'
<1>0. thread \in [Threads -> ThreadState] /\ queue \in Seq(Threads) /\ db.lastSequence \in Nat
  BY DEF TypeInv, DbState
<1>1. /\ StepOf(t, "logging", thread[t].asleep) /\ UNCHANGED <<queue, db, bg>> /\ AtFront(t) /\ ~bg.error
  BY StartGroupIs DEF StartGroup, Turn, YieldsError
<1>2. PICK n \in 1..Len(queue) :
              /\ group' \in GroupState /\ group'.ok
              /\ Len(group'.members) = n /\ \A i \in 1..n : group'.members[i] = queue[i]
              /\ \A i \in 1..n : thread[queue[i]].op.sync => thread[t].op.sync
              /\ Len(group'.todo) = BatchSize * Cardinality(Batches(group'.members))
              /\ group'.last = db.lastSequence + Len(group'.todo)
              /\ \A i \in DOMAIN group'.todo : group'.todo[i] = db.lastSequence + i
              /\ Cardinality(Batches(group'.members)) # 0
              /\ queue # <<>> /\ queue[1] = t /\ HasBatch(t)
  BY StartGroupGroup
<1>3. \A u \in Threads : thread'[u].op = thread[u].op /\ thread'[u].late = thread[u].late
  BY <1>1 DEF StepOf, Kept
<1>4. \A u \in Threads : thread'[u].pc \in Busy => u = t
  <2> SUFFICES ASSUME NEW u \in Threads, thread'[u].pc \in Busy, u # t PROVE FALSE
    OBVIOUS
  <2>1. thread[u].pc \in Writing
    BY <1>1 DEF StepOf, Writing
  <2> QED
    BY <1>1, <2>1, OneWrites DEF AtFront, InQueue
<1>5. GroupOf(t)'
  <2>1. group'.members \in Seq(Threads) /\ group'.todo \in Seq(Nat) /\ Len(group'.todo) \in Nat
    BY <1>2 DEF GroupState
  <2>2. DOMAIN group'.members = 1..n /\ group'.members # <<>> /\ n <= Len(queue)
    BY <1>0, <1>2, <2>1
  <2>3. \A i \in 1..n : queue[i] \in Threads /\ ~thread[queue[i]].late
    BY <1>0, <1>1 DEF LateInv
  <2>4. Batches(group.members)' = Batches(group'.members)
    <3>1. \A i \in 1..n : thread'[group'.members[i]].op = thread[group'.members[i]].op
      BY <1>2, <1>3, <2>3
    <3> QED
      BY <2>2, <3>1 DEF Batches, HasBatch
  <2>5. HasBatch(t)' /\ thread'[t].pc = "logging" /\ ~Inserts(t)'
    BY <1>1, <1>2, <1>3 DEF HasBatch, StepOf, Inserts
  <2>6. \A i \in DOMAIN group'.members :
           /\ group'.members[i] = queue'[i] /\ ~thread'[queue'[i]].late
           /\ thread'[queue'[i]].op.sync => thread'[t].op.sync
    BY <1>1, <1>2, <1>3, <2>2, <2>3
  <2>7. \A i \in DOMAIN group'.todo : group'.todo[i] = group'.last - Len(group'.todo) + i
    BY <1>0, <1>2, <2>1
  <2>8. group'.last = db'.lastSequence + BatchSize * Cardinality(Batches(group.members)')
    BY <1>1, <1>2, <2>4
  <2>9. db'.lastSequence + Len(group'.todo) <= group'.last /\ db'.lastSequence + Len(group'.todo) = group'.last
    BY <1>0, <1>1, <1>2, <2>1
  <2>10. group'.members # <<>> /\ Len(group'.members) <= Len(queue')
    BY <1>1, <1>2, <2>2
  <2> QED
    BY <2>5, <2>6, <2>7, <2>8, <2>9, <2>10 DEF GroupOf
<1> QED
  BY <1>4, <1>5 DEF GroupInv

\* Two threads that write are one: both are at the front of the queue.
LEMMA OneWriter ==
    ASSUME QueueInv, NEW t \in Threads, NEW u \in Threads, thread[t].pc \in Writing, thread[u].pc \in Writing
    PROVE  u = t
BY DEF QueueInv

\* What the provers need of a sequence.
LEMMA LengthIs ==
    ASSUME NEW S, NEW s \in Seq(S)
    PROVE  /\ Len(s) \in Nat /\ (s = <<>> <=> Len(s) = 0) /\ DOMAIN s = 1..Len(s)
           /\ \A i \in DOMAIN s : s[i] \in S /\ i \in Nat
OBVIOUS

\* The writer of a group goes on: it is still the only one, and its group has the
\* same writers.
LEMMA GroupGoes ==
    ASSUME Parameters, TypeInv, QueueInv, GroupInv, NEW t \in Threads, thread[t].pc \in Busy,
           NEW p \in Busy, StepOf(t, p, thread[t].asleep), queue' = queue, group'.members = group.members,
           group'.last = group.last, db'.lastSequence = db.lastSequence,
           db.lastSequence + Len(group'.todo) <= group.last,
           \A i \in DOMAIN group'.todo : group'.todo[i] = group.last - Len(group'.todo) + i,
           ~Inserts(t)' => db.lastSequence + Len(group'.todo) = group.last,
           p = "inserting" => group'.todo # <<>> /\ group'.ok,
           p = "committing" /\ group'.ok => group'.todo = <<>>,
           p = "sync failed" => ~group'.ok,
           thread[t].op.sync /\ Inserts(t)' => \A s \in db'.unsynced : s <= db.lastSequence
    PROVE  GroupInv'
<1>1. thread'[t].pc = p /\ \A u \in Threads : thread'[u].op = thread[u].op /\ thread'[u].late = thread[u].late
  BY DEF StepOf, Kept
<1>2. \A u \in Threads : thread'[u].pc \in Busy => u = t
  <2> SUFFICES ASSUME NEW u \in Threads, thread'[u].pc \in Busy, u # t PROVE FALSE
    OBVIOUS
  <2>1. thread[u].pc \in Writing /\ thread[t].pc \in Writing
    BY DEF StepOf, Writing
  <2> QED
    BY <2>1, OneWriter
<1>3. GroupOf(t)
  BY DEF GroupInv
<1>4. /\ group.members \in Seq(Threads) /\ queue \in Seq(Threads)
      /\ \A i \in DOMAIN group.members : i \in DOMAIN queue /\ group.members[i] = queue[i] /\ queue[i] \in Threads
  <2>1. /\ group.members \in Seq(Threads) /\ queue \in Seq(Threads)
        /\ \A i \in DOMAIN group.members : i \in DOMAIN queue /\ group.members[i] = queue[i]
    BY <1>3, GroupIs
  <2>2. \A i \in DOMAIN queue : queue[i] \in Threads
    BY <2>1, LengthIs
  <2> QED
    BY <2>1, <2>2
<1>5. Batches(group.members)' = Batches(group.members)
  <2>1. \A i \in DOMAIN group.members : thread'[group.members[i]].op = thread[group.members[i]].op
    BY <1>1, <1>4
  <2> QED
    BY <2>1 DEF Batches, HasBatch
<1>6. /\ HasBatch(t)' /\ group'.members # <<>> /\ Len(group'.members) <= Len(queue')
      /\ group'.last = db'.lastSequence + BatchSize * Cardinality(Batches(group.members)')
  BY <1>1, <1>3, <1>5 DEF GroupOf, HasBatch
<1>7. \A i \in DOMAIN group'.members :
           /\ group'.members[i] = queue'[i] /\ ~thread'[queue'[i]].late
           /\ thread'[queue'[i]].op.sync => thread'[t].op.sync
  <2>1. \A i \in DOMAIN group.members : ~thread[queue[i]].late /\ (thread[queue[i]].op.sync => thread[t].op.sync)
    BY <1>3 DEF GroupOf
  <2> QED
    BY <1>1, <1>4, <2>1
<1>8. GroupOf(t)'
  BY <1>1, <1>6, <1>7 DEF GroupOf
<1> QED
  BY <1>2, <1>8 DEF GroupInv

\* GroupInv is kept by AddRecord,
LEMMA GroupAddRecord ==
    ASSUME Parameters, TypeInv, QueueInv, GroupInv, NEW t \in Threads, NEW ok \in BOOLEAN, AddRecord(t, ok)
    PROVE  GroupInv'
<1> DEFINE p == IF ~ok THEN "committing" ELSE IF thread[t].op.sync THEN "syncing" ELSE "inserting"
<1>1. StepOf(t, p, thread[t].asleep) /\ queue' = queue /\ thread[t].pc = "logging"
  BY AddRecordIs DEF AddRecord
<1>2. /\ db'.lastSequence = db.lastSequence
      /\ group'.members = group.members /\ group'.todo = group.todo /\ group'.last = group.last /\ group'.ok = ok
  BY AddRecordStore
<1>3. GroupOf(t) /\ thread[t].pc \in Busy
  BY <1>1 DEF GroupInv, Busy
<1>4. group.last > db.lastSequence
  BY <1>3, GroupHasEntries
<1>5. /\ db.lastSequence + Len(group.todo) = group.last
      /\ \A i \in DOMAIN group.todo : group.todo[i] = group.last - Len(group.todo) + i
  BY <1>1, <1>3 DEF GroupOf, Inserts
<1>6. db.lastSequence \in Nat /\ group.last \in Nat /\ group.todo \in Seq(Nat)
  BY DEF TypeInv, DbState, GroupState
<1>7. group.todo # <<>> /\ db.lastSequence + Len(group.todo) <= group.last
  BY <1>4, <1>5, <1>6
<1>8. p \in Busy /\ (p = "committing" => ~ok) /\ (p = "inserting" => ok /\ ~thread[t].op.sync) /\ p # "sync failed"
  BY DEF Busy
<1> HIDE DEF p
<1>9. thread[t].op.sync => ~Inserts(t)'
  BY <1>1, <1>2, <1>8 DEF Inserts, StepOf
<1> QED
  BY <1>1, <1>2, <1>3, <1>5, <1>7, <1>8, <1>9, GroupGoes

\* by Sync,
LEMMA GroupSync ==
    ASSUME Parameters, TypeInv, QueueInv, GroupInv, UnsyncedInv, NEW t \in Threads, NEW ok \in BOOLEAN,
           Sync(t, ok)
    PROVE  GroupInv'
<1> DEFINE p == IF ok THEN "inserting" ELSE "sync failed"
<1>1. StepOf(t, p, thread[t].asleep) /\ queue' = queue /\ thread[t].pc = "syncing"
  BY SyncIs DEF Sync
<1>2. /\ db'.lastSequence = db.lastSequence /\ db'.unsynced = IF ok THEN db.unsynced \ InLog ELSE db.unsynced
      /\ group'.members = group.members /\ group'.todo = group.todo /\ group'.last = group.last /\ group'.ok = ok
  BY SyncStore
<1>3. GroupOf(t) /\ thread[t].pc \in Busy
  BY <1>1 DEF GroupInv, Busy
<1>4. group.last > db.lastSequence
  BY <1>3, GroupHasEntries
<1>5. /\ db.lastSequence + Len(group.todo) = group.last
      /\ \A i \in DOMAIN group.todo : group.todo[i] = group.last - Len(group.todo) + i
  BY <1>1, <1>3 DEF GroupOf, Inserts
<1>6. db.lastSequence \in Nat /\ group.last \in Nat /\ group.todo \in Seq(Nat)
  BY DEF TypeInv, DbState, GroupState
<1>7. group.todo # <<>> /\ db.lastSequence + Len(group.todo) <= group.last
  BY <1>4, <1>5, <1>6
<1>8. p \in Busy /\ (p = "inserting" => ok) /\ (p = "sync failed" => ~ok) /\ p # "committing"
  BY DEF Busy
<1> HIDE DEF p
<1>9. Inserts(t)' => \A s \in db'.unsynced : s <= db.lastSequence
  <2> SUFFICES ASSUME Inserts(t)', NEW s \in db'.unsynced, ~(s <= db.lastSequence) PROVE FALSE
    OBVIOUS
  <2>1. s \in db.unsynced \ InLog
    BY <1>1, <1>2, <1>8 DEF Inserts, StepOf
  <2>2. s \in Nat /\ s <= group.last
    BY <2>1 DEF TypeInv, DbState, UnsyncedInv
  <2> DEFINE i == s - (group.last - Len(group.todo))
  <2>3. i \in DOMAIN group.todo /\ group.todo[i] = s
    <3>1. Len(group.todo) \in Nat /\ DOMAIN group.todo = 1..Len(group.todo)
      BY <1>6
    <3>2. i \in 1..Len(group.todo)
      BY <1>5, <1>6, <2>2, <3>1
    <3>3. group.todo[i] = group.last - Len(group.todo) + i
      BY <1>5, <3>1, <3>2
    <3> QED
      BY <1>6, <2>2, <3>1, <3>2, <3>3
  <2> QED
    BY <2>1, <2>3 DEF InLog, ToSet
<1> QED
  BY <1>1, <1>2, <1>3, <1>5, <1>7, <1>8, <1>9, GroupGoes

\* and by the insertion of an entry, which takes one off those to do.
LEMMA GroupInsert ==
    ASSUME Parameters, TypeInv, QueueInv, GroupInv, NEW t \in Threads, Insert(t)
    PROVE  GroupInv'
<1> DEFINE p == IF Len(group.todo) = 1 THEN "committing" ELSE "inserting"
<1>1. StepOf(t, p, thread[t].asleep) /\ queue' = queue /\ thread[t].pc = "inserting"
  BY InsertIs DEF Insert
<1>2. GroupOf(t) /\ thread[t].pc \in Busy
  BY <1>1 DEF GroupInv, Busy
<1>3. /\ group.todo # <<>> /\ group.ok
      /\ db.lastSequence + Len(group.todo) <= group.last
      /\ \A i \in DOMAIN group.todo : group.todo[i] = group.last - Len(group.todo) + i
      /\ thread[t].op.sync => \A s \in db.unsynced : s <= db.lastSequence
  BY <1>1, <1>2 DEF GroupOf, Inserts
<1>4. /\ SameFiles(db, db') /\ group' \in GroupState /\ group'.members = group.members /\ group'.last = group.last
      /\ group'.ok = group.ok /\ Len(group'.todo) = Len(group.todo) - 1
      /\ \A i \in DOMAIN group'.todo : group'.todo[i] = group.todo[i + 1] /\ i + 1 \in DOMAIN group.todo
  BY <1>3, InsertStore
<1>5. db.lastSequence \in Nat /\ group.last \in Nat /\ group.todo \in Seq(Nat) /\ group'.todo \in Seq(Nat)
  BY <1>4 DEF TypeInv, DbState, GroupState
<1>6. db.lastSequence + Len(group'.todo) <= group.last
  BY <1>3, <1>4, <1>5
<1>7. \A i \in DOMAIN group'.todo : group'.todo[i] = group.last - Len(group'.todo) + i
  <2> SUFFICES ASSUME NEW i \in DOMAIN group'.todo PROVE group'.todo[i] = group.last - Len(group'.todo) + i
    OBVIOUS
  <2>1. group'.todo[i] = group.last - Len(group.todo) + (i + 1)
    BY <1>3, <1>4
  <2>2. i \in Int /\ Len(group.todo) \in Int /\ group.last \in Int
    BY <1>5, LengthIs
  <2>3. group.last - Len(group.todo) + (i + 1) = group.last - (Len(group.todo) - 1) + i
    BY <2>2
  <2> QED
    BY <1>4, <2>1, <2>2, <2>3
<1>8. (p = "inserting" => group'.todo # <<>>) /\ (p = "committing" => group'.todo = <<>>) /\ p \in {"inserting", "committing"}
  <2>1. /\ Len(group.todo) \in Nat /\ Len(group.todo) # 0
        /\ group'.todo = <<>> <=> Len(group'.todo) = 0
    BY <1>3, <1>5, LengthIs
  <2> QED
    BY <1>4, <2>1
<1>9. p \in Busy /\ p # "sync failed"
  BY <1>8 DEF Busy
<1> HIDE DEF p
<1>10. Inserts(t)'
  BY <1>1, <1>3, <1>4, <1>8 DEF Inserts, StepOf
<1>11. db'.lastSequence = db.lastSequence /\ db'.unsynced = db.unsynced
  BY <1>4 DEF SameFiles
<1> QED
  BY <1>1, <1>2, <1>3, <1>4, <1>6, <1>7, <1>8, <1>9, <1>10, <1>11, GroupGoes

\* GroupInv is kept by every step: nobody touches the group of another.
LEMMA GroupStep ==
    ASSUME Parameters, TypeInv, QueueInv, GroupInv, UnsyncedInv, LateInv, LevelInv, Steps PROVE GroupInv'
<1>0. /\ thread \in [Threads -> ThreadState] /\ queue \in Seq(Threads) /\ group.members \in Seq(Threads)
      /\ db \in DbState
  BY DEF TypeInv, GroupState
<1>1. ASSUME NEW t \in Threads, NEW o \in Calls[t], Write(t, o) PROVE GroupInv'
  <2>1. queue' = Append(queue, t) /\ thread[t].pc = "idle" /\ group' = group /\ db' = db
    BY <1>1 DEF Write, CanCall
  <2>2. queue' \in Seq(Threads) /\ Len(queue) <= Len(queue') /\ \A i \in DOMAIN queue : queue'[i] = queue[i]
    BY <1>0, <2>1, AppendProperties
  <2>3. thread'[t].pc = "queued" /\ \A u \in Threads \ {t} : thread'[u] = thread[u]
    <3>1. thread[t] \in ThreadState
      BY <1>0
    <3> QED
      BY <1>0, <1>1, <3>1 DEF Write, ThreadState
  <2>4. \A i \in DOMAIN queue : queue[i] \in Threads \ {t}
    <3>1. ~ \E i \in DOMAIN queue : queue[i] = t
      <4>1. thread[t].pc \notin InQueue
        BY <2>1 DEF InQueue, Writing, Busy
      <4> QED
        BY <4>1 DEF QueueInv
    <3>2. \A i \in DOMAIN queue : queue[i] \in Threads
      BY <1>0
    <3> QED
      BY <3>1, <3>2
  <2>5. \A u \in Threads : thread'[u].pc \in Busy => thread'[u].pc = thread[u].pc
    BY <2>3 DEF Busy
  <2> QED
    BY <2>1, <2>2, <2>3, <2>4, <2>5, GroupKept
<1>2. ASSUME queue' = queue, group' = group, db'.lastSequence = db.lastSequence, db'.unsynced \subseteq db.unsynced,
             \A u \in Threads : /\ thread'[u].op = thread[u].op \/ thread[u].pc \notin InQueue
                                /\ thread'[u].late = thread[u].late
                                /\ thread'[u].pc \in Busy => thread'[u].pc = thread[u].pc
      PROVE  GroupInv'
  <2>1. \A i \in DOMAIN queue : queue[i] \in Threads /\ thread[queue[i]].pc \in InQueue
    BY <1>0 DEF QueueInv
  <2>2. Len(queue) <= Len(queue')
    BY <1>0, <1>2
  <2> QED
    BY <1>0, <1>2, <2>1, <2>2, GroupKept
<1>3. ASSUME NEW t \in Threads, NEW o \in Calls[t], Get(t, o) PROVE GroupInv'
  <2>1. /\ \A u \in Threads \ {t} : thread'[u] = thread[u]
        /\ thread[t].pc = "idle" /\ thread'[t].pc = "reading" /\ thread'[t].late = thread[t].late
    BY <1>3, GetIs
  <2>2. queue' = queue /\ group' = group /\ db' = Ref(db, {db.mem, db.imm} \ {None})
    BY <1>3 DEF Get
  <2>3. db'.lastSequence = db.lastSequence /\ db'.unsynced = db.unsynced
    BY <2>2, <1>0, RefIs DEF TypeInv, SameFiles
  <2> QED
    BY <1>2, <2>1, <2>2, <2>3 DEF Busy, InQueue, Writing
<1>4. ASSUME NEW t \in Threads, NEW wasted \in BOOLEAN, GetReturns(t, wasted) PROVE GroupInv'
  <2>1. /\ \A u \in Threads \ {t} : thread'[u] = thread[u]
        /\ thread[t].pc = "reading" /\ thread'[t].pc = "idle" /\ thread'[t].late = thread[t].late
    BY <1>4, GetReturnsIs
  <2>2. queue' = queue /\ group' = group
    BY <1>4 DEF GetReturns
  <2>3. db'.lastSequence = db.lastSequence /\ db'.unsynced = db.unsynced
    BY <1>0, <1>4, GetReturnsStore, UnrefIs DEF TypeInv, SameFiles
  <2> QED
    BY <1>2, <2>1, <2>2, <2>3 DEF Busy, InQueue, Writing
<1>5. ASSUME NEW t \in Threads, MinorStep(t) PROVE GroupInv'
  BY <1>2, <1>5 DEF MinorStep, StepOf, Kept, Busy
<1>6. ASSUME NEW n \in 1..Len(queue), LeaveOf(n) PROVE GroupInv'
  BY <1>6, NobodyWrites DEF GroupInv, Writing
<1>7. ASSUME NEW t \in Threads, LeavesAlone(t) PROVE GroupInv'
  <2>1. 1 \in 1..Len(queue)
    BY <1>0, <1>7 DEF LeavesAlone, IsFront
  <2> QED
    BY <1>6, <1>7, <2>1 DEF LeavesAlone
<1>8. ASSUME NEW t \in Threads, RoomSwitch(t) PROVE GroupInv'
  <2>1. StepOf(t, thread[t].pc, thread[t].asleep) /\ queue' = queue /\ group' = group
    BY <1>8, RoomSwitchIs DEF RoomSwitch
  <2>2. db'.lastSequence = db.lastSequence /\ db'.unsynced = db.unsynced
    BY <1>8, RoomSwitchStore DEF SameFiles
  <2> QED
    BY <1>2, <2>1, <2>2 DEF StepOf, Kept
<1>9. ASSUME NEW t \in Threads, StartGroup(t) PROVE GroupInv'
  BY <1>9, GroupStart
<1>10. ASSUME NEW t \in Threads, Insert(t) PROVE GroupInv'
  BY <1>10, GroupInsert
<1>11. ASSUME NEW t \in Threads, NEW ok \in BOOLEAN, AddRecord(t, ok) PROVE GroupInv'
  BY <1>11, GroupAddRecord
<1>12. ASSUME NEW t \in Threads, NEW ok \in BOOLEAN, Sync(t, ok) PROVE GroupInv'
  BY <1>12, GroupSync
<1>13. ASSUME NEW t \in Threads, Commit(t) PROVE GroupInv'
  <2>1. LeaveOf(Len(group.members)) /\ GroupOf(t)
    BY <1>13, CommitIs
  <2>2. group.members # <<>> /\ Len(group.members) <= Len(queue)
    BY <2>1 DEF GroupOf
  <2>3. Len(group.members) \in 1..Len(queue)
    BY <1>0, <2>2
  <2> QED
    BY <1>6, <2>1, <2>3
<1>14. CASE BackgroundIs
  <2>1. queue' = queue /\ group' = group /\ thread' \in {thread, SignalAll(thread)}
    BY <1>14 DEF BackgroundIs
  <2>2. \A u \in Threads : thread'[u].pc = thread[u].pc /\ thread'[u].op = thread[u].op /\ thread'[u].late = thread[u].late
    BY <1>0, <2>1, SignalAllIs DEF Kept
  <2>3. db'.lastSequence = db.lastSequence /\ db'.unsynced \subseteq db.unsynced
    BY <1>14 DEF BackgroundIs, SameFiles, Installs
  <2> QED
    BY <1>2, <2>1, <2>2, <2>3
<1>15. CASE Rests
  BY <1>2, <1>15 DEF Rests
<1> QED
  BY <1>1, <1>3, <1>4, <1>5, <1>7, <1>8, <1>9, <1>10, <1>11, <1>12, <1>13, <1>14, <1>15 DEF Steps

\* UnsyncedInv is kept by every step: only AddRecord adds to what is not synced,
\* and what it adds is the group, which is committed before the next one begins.
LEMMA UnsyncedStep ==
    ASSUME Parameters, TypeInv, QueueInv, GroupInv, UnsyncedInv, LevelInv, Steps PROVE UnsyncedInv'
<1>0. /\ thread \in [Threads -> ThreadState] /\ db \in DbState /\ group \in GroupState /\ Logged \subseteq Writing
  BY DEF TypeInv, Logged, Writing
<1>1. ASSUME db'.unsynced \subseteq db.unsynced, db'.lastSequence = db.lastSequence, group'.last = group.last,
             \A u \in Threads : thread[u].pc \in Logged => thread'[u].pc \in Logged
      PROVE  UnsyncedInv'
  BY <1>1 DEF UnsyncedInv
<1>2. ASSUME NEW t \in Threads, thread[t].pc \in InQueue \ Logged, IsFront(queue, t)
      PROVE  \A s \in db.unsynced : s <= db.lastSequence
  <2>1. \A u \in Threads : thread[u].pc \notin Logged
    BY <1>0, <1>2, OneWrites
  <2> QED
    BY <2>1 DEF UnsyncedInv
<1>3. ASSUME NEW t \in Threads, NEW o \in Calls[t], Write(t, o) PROVE UnsyncedInv'
  <2>1. group' = group /\ db' = db /\ thread[t].pc = "idle"
    BY <1>3 DEF Write, CanCall
  <2>2. \A u \in Threads \ {t} : thread'[u] = thread[u]
    BY <1>0, <1>3 DEF Write
  <2> QED
    BY <1>1, <2>1, <2>2 DEF Logged, Busy
<1>4. ASSUME NEW t \in Threads, NEW o \in Calls[t], Get(t, o) PROVE UnsyncedInv'
  <2>1. (\A u \in Threads \ {t} : thread'[u] = thread[u]) /\ thread[t].pc = "idle"
    BY <1>4, GetIs
  <2>2. group' = group /\ db' = Ref(db, {db.mem, db.imm} \ {None})
    BY <1>4 DEF Get
  <2>3. db'.lastSequence = db.lastSequence /\ db'.unsynced = db.unsynced
    BY <2>2, <1>0, RefIs DEF TypeInv, SameFiles
  <2> QED
    BY <1>1, <2>1, <2>2, <2>3 DEF Logged, Busy
<1>5. ASSUME NEW t \in Threads, NEW wasted \in BOOLEAN, GetReturns(t, wasted) PROVE UnsyncedInv'
  <2>1. (\A u \in Threads \ {t} : thread'[u] = thread[u]) /\ thread[t].pc = "reading"
    BY <1>5, GetReturnsIs
  <2>2. group' = group
    BY <1>5 DEF GetReturns
  <2>3. db'.lastSequence = db.lastSequence /\ db'.unsynced = db.unsynced
    BY <1>0, <1>5, GetReturnsStore, UnrefIs DEF TypeInv, SameFiles
  <2> QED
    BY <1>1, <2>1, <2>2, <2>3 DEF Logged, Busy
<1>6. ASSUME NEW t \in Threads, MinorStep(t) PROVE UnsyncedInv'
  BY <1>1, <1>6 DEF MinorStep, StepOf, Logged, Busy
<1>7. ASSUME NEW t \in Threads, LeavesAlone(t) PROVE UnsyncedInv'
  <2>1. db' = db /\ thread[t].pc \in InQueue \ Logged /\ IsFront(queue, t)
    BY <1>7 DEF LeavesAlone, InQueue, Logged, Writing, Busy
  <2> QED
    BY <1>2, <2>1 DEF UnsyncedInv
<1>8. ASSUME NEW t \in Threads, RoomSwitch(t) PROVE UnsyncedInv'
  <2>1. StepOf(t, thread[t].pc, thread[t].asleep) /\ group' = group
    BY <1>8, RoomSwitchIs DEF RoomSwitch
  <2>2. db'.lastSequence = db.lastSequence /\ db'.unsynced = db.unsynced
    BY <1>8, RoomSwitchStore DEF SameFiles
  <2> QED
    BY <1>1, <2>1, <2>2 DEF StepOf
<1>9. ASSUME NEW t \in Threads, StartGroup(t) PROVE UnsyncedInv'
  <2>1. db' = db /\ thread[t].pc \in InQueue \ Logged /\ IsFront(queue, t)
    BY <1>9 DEF StartGroup, Turn, AtFront, InQueue, Logged, Writing, Busy
  <2> QED
    BY <1>2, <2>1 DEF UnsyncedInv
<1>10. ASSUME NEW t \in Threads, Insert(t) PROVE UnsyncedInv'
  <2>1. thread[t].pc = "inserting" /\ thread'[t].pc \in {"inserting", "committing"}
        /\ \A u \in Threads \ {t} : thread'[u] = thread[u]
    BY <1>10, InsertIs DEF Insert, StepOf
  <2>2. group.todo # <<>>
    BY <2>1 DEF GroupInv, GroupOf, Busy
  <2>3. group'.last = group.last /\ db'.lastSequence = db.lastSequence /\ db'.unsynced = db.unsynced
    BY <1>10, <2>2, InsertStore DEF SameFiles
  <2>4. \A u \in Threads : thread[u].pc \in Logged => thread'[u].pc \in Logged
    BY <2>1 DEF Logged, Busy
  <2> QED
    BY <1>1, <2>3, <2>4
<1>11. ASSUME NEW t \in Threads, NEW ok \in BOOLEAN, AddRecord(t, ok) PROVE UnsyncedInv'
  <2>1. thread[t].pc = "logging" /\ thread'[t].pc \in Logged
    <3> DEFINE p == IF ~ok THEN "committing" ELSE IF thread[t].op.sync THEN "syncing" ELSE "inserting"
    <3>1. StepOf(t, p, thread[t].asleep) /\ thread[t].pc = "logging"
      BY <1>11, AddRecordIs DEF AddRecord
    <3>2. p \in Logged
      BY DEF Logged, Busy
    <3> HIDE DEF p
    <3> QED
      BY <3>1, <3>2 DEF StepOf
  <2>2. GroupOf(t) /\ IsFront(queue, t)
    BY <2>1 DEF GroupInv, QueueInv, IsFront, Busy, Writing
  <2>3. \A s \in db.unsynced : s <= db.lastSequence
    BY <1>2, <2>1, <2>2 DEF InQueue, Writing, Busy, Logged
  <2>4. db'.unsynced \subseteq db.unsynced \cup ToSet(group.todo) /\ group'.last = group.last
        /\ db'.lastSequence = db.lastSequence
    BY <1>11, AddRecordStore
  <2>5. \A s \in ToSet(group.todo) : s <= group.last
    <3> SUFFICES ASSUME NEW i \in DOMAIN group.todo PROVE group.todo[i] <= group.last
      BY DEF ToSet
    <3>1. group.todo \in Seq(Nat) /\ group.last \in Nat
      BY <1>0 DEF GroupState
    <3>2. i \in 1..Len(group.todo) /\ Len(group.todo) \in Nat
      BY <3>1
    <3>3. group.todo[i] = group.last - Len(group.todo) + i
      BY <2>2 DEF GroupOf
    <3> QED
      BY <3>1, <3>2, <3>3
  <2> QED
    BY <2>1, <2>3, <2>4, <2>5 DEF UnsyncedInv
<1>12. ASSUME NEW t \in Threads, NEW ok \in BOOLEAN, Sync(t, ok) PROVE UnsyncedInv'
  <2>1. thread'[t].pc \in Logged /\ \A u \in Threads \ {t} : thread'[u] = thread[u]
    <3> DEFINE p == IF ok THEN "inserting" ELSE "sync failed"
    <3>1. StepOf(t, p, thread[t].asleep)
      BY <1>12, SyncIs
    <3>2. p \in Logged
      BY DEF Logged, Busy
    <3> HIDE DEF p
    <3> QED
      BY <3>1, <3>2 DEF StepOf
  <2>2. group'.last = group.last /\ db'.lastSequence = db.lastSequence /\ db'.unsynced \subseteq db.unsynced
    BY <1>12, SyncStore
  <2>3. \A u \in Threads : thread[u].pc \in Logged => thread'[u].pc \in Logged
    <3> SUFFICES ASSUME NEW u \in Threads, thread[u].pc \in Logged PROVE thread'[u].pc \in Logged
      OBVIOUS
    <3>1. CASE u = t
      BY <2>1, <3>1
    <3>2. CASE u # t
      BY <2>1, <3>2
    <3> QED
      BY <3>1, <3>2
  <2> QED
    BY <1>1, <2>2, <2>3
<1>13. ASSUME NEW t \in Threads, Commit(t) PROVE UnsyncedInv'
  <2>1. GroupOf(t) /\ thread[t].pc \in Busy
    BY <1>13, CommitIs DEF Commit, Busy
  <2>2. group.last > db.lastSequence
    BY <2>1, GroupHasEntries
  <2>3. db'.lastSequence = group.last /\ db'.unsynced = db.unsynced
    BY <1>13, CommitStore
  <2>4. db.lastSequence \in Nat /\ group.last \in Nat /\ \A s \in db.unsynced : s \in Nat
    BY <1>0 DEF DbState, GroupState
  <2> QED
    BY <2>2, <2>3, <2>4 DEF UnsyncedInv
<1>14. CASE BackgroundIs
  <2>1. group' = group /\ thread' \in {thread, SignalAll(thread)}
    BY <1>14 DEF BackgroundIs
  <2>2. \A u \in Threads : thread'[u].pc = thread[u].pc
    BY <1>0, <2>1, SignalAllIs
  <2>3. db'.lastSequence = db.lastSequence /\ db'.unsynced \subseteq db.unsynced
    BY <1>14 DEF BackgroundIs, SameFiles, Installs
  <2> QED
    BY <1>1, <2>1, <2>2, <2>3
<1>15. CASE Rests
  BY <1>1, <1>15 DEF Rests
<1> QED
  BY <1>3, <1>4, <1>5, <1>6, <1>7, <1>8, <1>9, <1>10, <1>11, <1>12, <1>13, <1>14, <1>15 DEF Steps

-----------------------------------------------------------------------------
(* Errors, counts and files.                                               *)

\* LateInv is kept: an error stays.
LEMMA LateStep ==
    ASSUME Parameters, TypeInv, QueueInv, GroupInv, LateInv, LevelInv, Steps PROVE LateInv'
<1>0. thread \in [Threads -> ThreadState] /\ bg.error \in BOOLEAN /\ bg \in BgState
  BY DEF TypeInv, BgState
<1>1. ASSUME \A u \in Threads : thread'[u].late = thread[u].late, bg.error => bg'.error PROVE LateInv'
  BY <1>1 DEF LateInv
<1>2. ASSUME NEW t \in Threads, NEW o \in Calls[t], Write(t, o) PROVE LateInv'
  <2>1. thread'[t].late = bg.error /\ bg' = bg /\ \A u \in Threads \ {t} : thread'[u] = thread[u]
    <3>1. thread[t] \in ThreadState
      BY <1>0
    <3> QED
      BY <1>0, <1>2, <3>1 DEF Write, ThreadState
  <2> QED
    BY <2>1 DEF LateInv
<1>3. ASSUME NEW t \in Threads, NEW o \in Calls[t], Get(t, o) PROVE LateInv'
  <2>1. bg' = bg /\ thread'[t].late = thread[t].late /\ \A u \in Threads \ {t} : thread'[u] = thread[u]
    BY <1>3, GetIs DEF Get
  <2> QED
    BY <1>1, <2>1
<1>4. ASSUME NEW t \in Threads, NEW wasted \in BOOLEAN, GetReturns(t, wasted) PROVE LateInv'
  <2>1. thread'[t].late = thread[t].late /\ \A u \in Threads \ {t} : thread'[u] = thread[u]
    BY <1>4, GetReturnsIs
  <2>2. bg' = (IF wasted THEN MaybeScheduleCompaction(bg, db') ELSE bg)
    BY <1>4, GetReturnsStore
  <2>3. bg'.error = bg.error
    BY <1>0, <2>2, ScheduleIs
  <2> QED
    BY <1>1, <2>1, <2>3
<1>5. ASSUME NEW t \in Threads, NEW p, NEW a, StepOf(t, p, a), bg'.error = bg.error PROVE LateInv'
  BY <1>1, <1>5 DEF StepOf, Kept
<1>6. ASSUME NEW t \in Threads, MinorStep(t) PROVE LateInv'
  BY <1>5, <1>6 DEF MinorStep, BgSame
<1>7. ASSUME NEW t \in Threads, LeavesAlone(t) PROVE LateInv'
  BY <1>1, <1>7 DEF LeavesAlone, LeaveOf, Kept
<1>8. ASSUME NEW t \in Threads, RoomSwitch(t) PROVE LateInv'
  <2>0. bg' = MaybeScheduleCompaction(bg, db')
    BY <1>8, RoomSwitchStore
  <2>1. bg'.error = bg.error
    BY <1>0, <2>0, ScheduleIs
  <2> QED
    BY <1>5, <1>8, <2>1, RoomSwitchIs
<1>9. ASSUME NEW t \in Threads, StartGroup(t) PROVE LateInv'
  <2>1. bg' = bg
    BY <1>9 DEF StartGroup
  <2> QED
    BY <1>5, <1>9, <2>1, StartGroupIs
<1>10. ASSUME NEW t \in Threads, Insert(t) PROVE LateInv'
  <2>1. bg' = bg
    BY <1>10 DEF Insert
  <2> QED
    BY <1>5, <1>10, <2>1, InsertIs
<1>11. ASSUME NEW t \in Threads, NEW ok \in BOOLEAN, AddRecord(t, ok) PROVE LateInv'
  <2>1. bg' = bg
    BY <1>11 DEF AddRecord
  <2> QED
    BY <1>5, <1>11, <2>1, AddRecordIs
<1>12. ASSUME NEW t \in Threads, NEW ok \in BOOLEAN, Sync(t, ok) PROVE LateInv'
  <2>1. bg' = bg
    BY <1>12 DEF Sync
  <2> QED
    BY <1>5, <1>12, <2>1, SyncIs
<1>13. ASSUME NEW t \in Threads, Commit(t) PROVE LateInv'
  <2>1. LeaveOf(Len(group.members)) /\ (bg.error => bg'.error)
    BY <1>13, CommitIs, CommitStore
  <2> QED
    BY <1>1, <2>1 DEF LeaveOf, Kept
<1>14. CASE BackgroundIs
  <2>1. thread' \in {thread, SignalAll(thread)} /\ (bg.error => bg'.error)
    BY <1>14 DEF BackgroundIs
  <2> QED
    BY <1>0, <1>1, <2>1, SignalAllIs DEF Kept
<1>15. CASE Rests
  BY <1>1, <1>15 DEF Rests
<1> QED
  BY <1>2, <1>3, <1>4, <1>6, <1>7, <1>8, <1>9, <1>10, <1>11, <1>12, <1>13, <1>14, <1>15 DEF Steps

\* CountInv is kept: calls and failures stay within their bounds.
LEMMA CountStep ==
    ASSUME Parameters, TypeInv, QueueInv, GroupInv, LevelInv, CountInv, Steps PROVE CountInv'
<1>0. /\ thread \in [Threads -> ThreadState] /\ failures \in Nat /\ MaxCalls \in [Threads -> Nat]
      /\ \A u \in Threads : thread[u].calls \in Nat
  BY DEF TypeInv, Parameters, ThreadState
<1>1. ASSUME \A u \in Threads : thread'[u].calls = thread[u].calls, failures <= MaxFailures => failures' <= MaxFailures
      PROVE  CountInv'
  BY <1>1 DEF CountInv
<1>2. ASSUME NEW t \in Threads, thread[t].calls < MaxCalls[t], thread'[t].calls = thread[t].calls + 1,
             \A u \in Threads \ {t} : thread'[u] = thread[u], failures' = failures
      PROVE  CountInv'
  <2>1. thread'[t].calls <= MaxCalls[t]
    BY <1>0, <1>2
  <2> QED
    BY <1>2, <2>1 DEF CountInv
<1>3. ASSUME NEW t \in Threads, NEW o \in Calls[t], Write(t, o) PROVE CountInv'
  <2>1. thread'[t].calls = thread[t].calls + 1 /\ \A u \in Threads \ {t} : thread'[u] = thread[u]
    <3>1. thread[t] \in ThreadState
      BY <1>0
    <3> QED
      BY <1>0, <1>3, <3>1 DEF Write, ThreadState
  <2>2. thread[t].calls < MaxCalls[t] /\ failures' = failures
    BY <1>3 DEF Write, CanCall
  <2> QED
    BY <1>2, <2>1, <2>2
<1>4. ASSUME NEW t \in Threads, NEW o \in Calls[t], Get(t, o) PROVE CountInv'
  <2>1. thread[t].calls < MaxCalls[t] /\ failures' = failures
    BY <1>4 DEF Get, CanCall
  <2>2. thread'[t].calls = thread[t].calls + 1 /\ \A u \in Threads \ {t} : thread'[u] = thread[u]
    BY <1>4, GetIs
  <2> QED
    BY <1>2, <2>1, <2>2
<1>5. ASSUME NEW t \in Threads, NEW wasted \in BOOLEAN, GetReturns(t, wasted) PROVE CountInv'
  <2>1. failures' = failures
    BY <1>5 DEF GetReturns
  <2>2. thread'[t].calls = thread[t].calls /\ \A u \in Threads \ {t} : thread'[u] = thread[u]
    BY <1>5, GetReturnsIs
  <2> QED
    BY <1>1, <2>1, <2>2
<1>6. ASSUME NEW t \in Threads, NEW p, NEW a, StepOf(t, p, a), failures <= MaxFailures => failures' <= MaxFailures
      PROVE  CountInv'
  BY <1>1, <1>6 DEF StepOf, Kept
<1>7. ASSUME NEW t \in Threads, MinorStep(t) PROVE CountInv'
  BY <1>6, <1>7 DEF MinorStep
<1>8. ASSUME NEW t \in Threads, LeavesAlone(t) PROVE CountInv'
  BY <1>1, <1>8 DEF LeavesAlone, LeaveOf, Kept
<1>9. ASSUME NEW t \in Threads, RoomSwitch(t) \/ StartGroup(t) \/ Insert(t) PROVE CountInv'
  <2>1. failures' = failures
    BY <1>9 DEF RoomSwitch, StartGroup, Insert
  <2> QED
    BY <1>6, <1>9, <2>1, RoomSwitchIs, StartGroupIs, InsertIs
<1>10. ASSUME NEW t \in Threads, NEW ok \in BOOLEAN, AddRecord(t, ok) PROVE CountInv'
  <2>1. failures <= MaxFailures => failures' <= MaxFailures
    BY <1>0, <1>10, OutcomeIs DEF AddRecord
  <2> QED
    BY <1>6, <1>10, <2>1, AddRecordIs
<1>11. ASSUME NEW t \in Threads, NEW ok \in BOOLEAN, Sync(t, ok) PROVE CountInv'
  <2>1. failures <= MaxFailures => failures' <= MaxFailures
    BY <1>0, <1>11, OutcomeIs DEF Sync
  <2> QED
    BY <1>6, <1>11, <2>1, SyncIs
<1>12. ASSUME NEW t \in Threads, Commit(t) PROVE CountInv'
  <2>1. LeaveOf(Len(group.members)) /\ failures' = failures
    BY <1>12, CommitIs
  <2> QED
    BY <1>1, <2>1 DEF LeaveOf, Kept
<1>13. CASE BackgroundIs
  <2>1. thread' \in {thread, SignalAll(thread)} /\ (failures <= MaxFailures => failures' <= MaxFailures)
    BY <1>13 DEF BackgroundIs
  <2> QED
    BY <1>0, <1>1, <2>1, SignalAllIs DEF Kept
<1>14. CASE Rests
  BY <1>1, <1>14 DEF Rests
<1> QED
  BY <1>3, <1>4, <1>5, <1>7, <1>8, <1>9, <1>10, <1>11, <1>12, <1>13, <1>14 DEF Steps

\* A call that schedules the background thread changes nothing else of it.
LEMMA ScheduleSame ==
    ASSUME TypeInv, NEW d, bg' = MaybeScheduleCompaction(bg, d) PROVE BgSame /\ bg'.manual = bg.manual
BY ScheduleIs DEF TypeInv, BgSame

\* LevelInv is kept: MakeRoomForWrite stops writers before level 0 is full.
LEMMA LevelStep ==
    ASSUME Parameters, TypeInv, QueueInv, GroupInv, LevelInv, Steps PROVE LevelInv'
<1>0. db \in DbState /\ bg \in BgState /\ DOMAIN db.refs = DOMAIN db.contents
  BY DEF TypeInv
<1>1. ASSUME db'.level0 = db.level0, db'.imm = db.imm, BgSame PROVE LevelInv'
  <2>1. bg'.pc \in {"memtable", "memtable manifest"} => bg.pc \in {"memtable", "memtable manifest"}
    BY <1>1 DEF BgSame
  <2>2. bg'.picked = bg.picked /\ bg'.crashed = bg.crashed
    BY <1>1 DEF BgSame
  <2> QED
    BY <1>1, <2>1, <2>2 DEF LevelInv
<1>2. ASSUME db' = db, bg' = bg PROVE LevelInv'
  BY <1>2 DEF LevelInv
<1>3. ASSUME NEW t \in Threads, NEW o \in Calls[t], Write(t, o) PROVE LevelInv'
  BY <1>2, <1>3 DEF Write
<1>4. ASSUME NEW t \in Threads, NEW o \in Calls[t], Get(t, o) PROVE LevelInv'
  <2>1. db' = Ref(db, {db.mem, db.imm} \ {None}) /\ bg' = bg
    BY <1>4 DEF Get
  <2>2. db'.level0 = db.level0 /\ db'.imm = db.imm
    BY <1>0, <2>1, RefIs DEF SameRest
  <2> QED
    BY <1>1, <2>1, <2>2, BgUnchanged
<1>5. ASSUME NEW t \in Threads, NEW wasted \in BOOLEAN, GetReturns(t, wasted) PROVE LevelInv'
  <2> DEFINE e == Unref(db, thread[t].held.mems)
  <2>1. SameTables(e, db') /\ db'.level0 = e.level0 /\ bg' = IF wasted THEN MaybeScheduleCompaction(bg, db') ELSE bg
    BY <1>5, GetReturnsStore
  <2>2. e.level0 = db.level0 /\ e.imm = db.imm
    BY <1>0, UnrefIs DEF SameRest
  <2> HIDE DEF e
  <2>3. BgSame
    BY <2>1, ScheduleSame, BgUnchanged
  <2> QED
    BY <1>1, <2>1, <2>2, <2>3 DEF SameTables
<1>6. ASSUME NEW t \in Threads, MinorStep(t) PROVE LevelInv'
  BY <1>1, <1>6 DEF MinorStep
<1>7. ASSUME NEW t \in Threads, LeavesAlone(t) \/ StartGroup(t) PROVE LevelInv'
  BY <1>2, <1>7 DEF LeavesAlone, StartGroup
<1>8. ASSUME NEW t \in Threads, RoomSwitch(t) PROVE LevelInv'
  <2>1. /\ db'.level0 = db.level0 /\ db'.imm = db.mem /\ bg' = MaybeScheduleCompaction(bg, db')
        /\ db.imm = None
    BY <1>8, RoomSwitchStore DEF SameRest
  <2>2. BgSame
    BY <2>1, ScheduleSame
  <2>3. db.level0 < L0Stop
    <3>1. ~(db.level0 >= L0Stop)
      BY <1>8 DEF RoomSwitch, MustWait
    <3>2. db.level0 \in Int /\ L0Stop \in Int
      BY <1>0 DEF DbState, Parameters
    <3> QED
      BY <3>1, <3>2
  <2>4. bg.pc \notin {"memtable", "memtable manifest"} /\ db.level0 \in 0..L0Stop /\ (~bg.crashed => bg.picked \in 0..db.level0)
    BY <2>1 DEF LevelInv
  <2>5. bg'.pc \notin {"memtable", "memtable manifest"}
    BY <2>2, <2>4 DEF BgSame
  <2>6. bg'.picked = bg.picked /\ bg'.crashed = bg.crashed
    BY <2>2 DEF BgSame
  <2> QED
    BY <2>1, <2>3, <2>4, <2>5, <2>6 DEF LevelInv
<1>9. ASSUME NEW t \in Threads, Insert(t) PROVE LevelInv'
  <2>1. bg' = bg /\ thread[t].pc = "inserting"
    BY <1>9 DEF Insert
  <2>2. group.todo # <<>>
    BY <2>1 DEF GroupInv, GroupOf, Busy
  <2> QED
    BY <1>1, <1>9, <2>1, <2>2, InsertStore, BgUnchanged DEF SameRest
<1>10. ASSUME NEW t \in Threads, NEW ok \in BOOLEAN, AddRecord(t, ok) PROVE LevelInv'
  <2>1. bg' = bg
    BY <1>10 DEF AddRecord
  <2> QED
    BY <1>1, <1>10, <2>1, AddRecordStore, BgUnchanged DEF SameRest, SameTables
<1>11. ASSUME NEW t \in Threads, NEW ok \in BOOLEAN, Sync(t, ok) PROVE LevelInv'
  <2>1. bg' = bg
    BY <1>11 DEF Sync
  <2> QED
    BY <1>1, <1>11, <2>1, SyncStore, BgUnchanged DEF SameRest, SameTables
<1>12. ASSUME NEW t \in Threads, Commit(t) PROVE LevelInv'
  <2>1. /\ db'.level0 = db.level0 /\ db'.imm = db.imm /\ bg'.pc = bg.pc /\ bg'.picked = bg.picked
        /\ bg'.crashed = bg.crashed
    BY <1>12, CommitStore DEF SameRest, SameTables
  <2> QED
    BY <2>1 DEF LevelInv
<1>13. CASE BackgroundIs
  BY <1>13 DEF BackgroundIs
<1>14. CASE Rests
  BY <1>14 DEF Rests, LevelInv
<1> QED
  BY <1>3, <1>4, <1>5, <1>6, <1>7, <1>8, <1>9, <1>10, <1>11, <1>12, <1>13, <1>14 DEF Steps

-----------------------------------------------------------------------------
(* Who is woken.                                                           *)

\* A step that makes no work, ends no call and sends nobody to sleep.
LEMMA WorkKept ==
    ASSUME WorkInv, db'.imm = db.imm \/ db'.imm = None, NeedsCompaction(db) <=> NeedsCompaction(db'),
           bg'.manual \in {bg.manual, None}, bg'.pc \in {bg.pc, "scheduled"}, bg.error => bg'.error,
           bg'.shutdown = bg.shutdown,
           \A u \in Threads : thread'[u].asleep = "bg" => thread[u].asleep = "bg" \/ bg.pc # "idle",
           bg.shutdown => \A u \in Threads : thread'[u].pc = "idle"
    PROVE  WorkInv'
<1>1. bg.pc # "idle" => bg'.pc # "idle"
  OBVIOUS
<1>2. Work' => Work
  BY DEF Work
<1>3. Work' /\ ~bg'.error /\ ~bg'.shutdown => bg'.pc # "idle"
  BY <1>1, <1>2 DEF WorkInv
<1>4. \A u \in Threads : thread'[u].asleep = "bg" => bg'.pc # "idle"
  BY <1>1 DEF WorkInv
<1> QED
  BY <1>3, <1>4 DEF WorkInv

\* It is not being deleted while somebody uses it.
LEMMA InUse ==
    ASSUME WorkInv, NEW t \in Threads, thread[t].pc # "idle" PROVE ~bg.shutdown
BY DEF WorkInv

\* One thread goes on, and the background thread is not concerned.
LEMMA WorkGoes ==
    ASSUME TypeInv, WorkInv, NEW t \in Threads, thread[t].pc # "idle", bg' = bg,
           db'.imm = db.imm, SameRest(db, db'),
           \A u \in Threads : thread'[u].asleep = "bg" => thread[u].asleep = "bg" \/ bg.pc # "idle"
    PROVE  WorkInv'
<1>1. ~bg.shutdown
  BY InUse
<1>2. NeedsCompaction(db) <=> NeedsCompaction(db')
  BY DEF NeedsCompaction, SameRest
<1> QED
  BY <1>1, <1>2, WorkKept

\* WorkInv is kept by the minor steps: who goes to sleep sees the background thread at work, or schedules it.
LEMMA WorkMinor ==
    ASSUME Parameters, TypeInv, QueueInv, WorkInv, NEW t \in Threads,
           RoomDelay(t) \/ DelayOver(t) \/ RoomWait(t) \/ AwaitMemTable(t) \/ AwaitManual(t) \/ ManualReturns(t)
    PROVE  WorkInv'
<1>0. bg \in BgState /\ db \in DbState
  BY DEF TypeInv
<1>1. ASSUME NEW p, NEW a, StepOf(t, p, a), a = "bg" => thread[t].asleep = "bg" \/ bg.pc # "idle",
             thread[t].pc # "idle", bg' = bg, db' = db
      PROVE  WorkInv'
  <2>1. \A u \in Threads : thread'[u].asleep = "bg" => thread[u].asleep = "bg" \/ bg.pc # "idle"
    BY <1>1 DEF StepOf
  <2> QED
    BY <1>1, <2>1, WorkGoes DEF SameRest
<1>2. CASE RoomDelay(t)
  <2>1. thread[t].pc # "idle" /\ bg' = bg /\ db' = db
    BY <1>2 DEF RoomDelay, Turn, AtFront
  <2> QED
    BY <1>1, <1>2, <2>1, RoomDelayIs
<1>3. CASE DelayOver(t)
  <2>1. thread[t].pc # "idle" /\ bg' = bg /\ db' = db
    BY <1>3 DEF DelayOver
  <2> QED
    BY <1>1, <1>3, <2>1, DelayOverIs
<1>4. CASE RoomWait(t)
  <2>1. thread[t].pc # "idle" /\ bg' = bg /\ db' = db /\ ~bg.error /\ MustWait
    BY <1>4 DEF RoomWait, Turn, AtFront, YieldsError
  <2>2. ~bg.shutdown
    BY <2>1, InUse
  <2>3. Work
    <3>1. db.level0 >= L0Stop => db.level0 >= L0Trigger
      BY <1>0 DEF DbState, Parameters
    <3> QED
      BY <2>1, <3>1 DEF MustWait, Work, NeedsCompaction
  <2>4. bg.pc # "idle"
    BY <2>1, <2>2, <2>3 DEF WorkInv
  <2> QED
    BY <1>1, <1>4, <2>1, <2>4, RoomWaitIs
<1>5. CASE AwaitMemTable(t)
  <2>1. thread[t].pc = "flushing" /\ bg' = bg /\ db' = db
    BY <1>5 DEF AwaitMemTable
  <2>2. ~bg.shutdown
    BY <2>1, InUse
  <2>3. CASE StepOf(t, thread[t].pc, "bg") /\ db.imm # None /\ ~bg.error
    <3>1. bg.pc # "idle"
      BY <2>2, <2>3 DEF WorkInv, Work
    <3> QED
      BY <1>1, <2>1, <2>3, <3>1
  <2>4. ASSUME NEW p, StepOf(t, p, thread[t].asleep) PROVE WorkInv'
    BY <1>1, <2>1, <2>4
  <2> QED
    BY <1>5, <2>3, <2>4, AwaitMemTableIs
<1>6. CASE AwaitManual(t)
  <2>1. /\ db' = db /\ ~bg.shutdown /\ ~bg.error /\ thread[t].pc = "manual"
    BY <1>6 DEF AwaitManual
  <2>2. /\ MinorStep(t) /\ thread'[t].asleep = "bg"
        /\ bg'.manual = (IF bg.manual = None THEN t ELSE bg.manual)
        /\ bg.manual = None /\ t # None => bg'.pc # "idle"
    BY <1>6, AwaitManualMinor
  <2>3. BgSame /\ ~bg'.shutdown
    BY <2>1, <2>2 DEF MinorStep, BgSame
  <2>4. bg'.pc # "idle"
    <3>1. CASE bg.manual = None
      BY <2>2, <3>1 DEF Parameters
    <3>2. CASE bg.manual # None
      <4>1. bg.pc # "idle"
        BY <2>1, <3>2 DEF WorkInv, Work
      <4> QED
        BY <2>3, <4>1 DEF BgSame
    <3> QED
      BY <3>1, <3>2
  <2> QED
    BY <2>3, <2>4 DEF WorkInv
<1>7. CASE ManualReturns(t)
  <2>1. MinorStep(t) /\ bg'.pc = bg.pc /\ bg'.manual \in {bg.manual, None} /\ thread'[t].asleep = "no"
    BY <1>7, ManualReturnsMinor
  <2>2. db' = db /\ thread[t].pc = "manual"
    BY <1>7 DEF ManualReturns
  <2>3. ~bg.shutdown
    BY <2>2, InUse
  <2>4. bg'.error = bg.error /\ bg'.shutdown = bg.shutdown
    BY <2>1 DEF MinorStep, BgSame
  <2>5. \A u \in Threads : thread'[u].asleep = "bg" => thread[u].asleep = "bg"
    BY <2>1 DEF MinorStep, StepOf
  <2> QED
    BY <2>1, <2>2, <2>3, <2>4, <2>5, WorkKept
<1> QED
  BY <1>2, <1>3, <1>4, <1>5, <1>6, <1>7

\* The steps that WorkMinor is about, and the others.
WorkSteps ==
    \/ \E t \in Threads : \E o \in Calls[t] : Write(t, o) \/ Get(t, o)
    \/ \E t \in Threads, wasted \in BOOLEAN : GetReturns(t, wasted)
    \/ \E t \in Threads : LeavesAlone(t) \/ RoomSwitch(t) \/ StartGroup(t) \/ Insert(t) \/ Commit(t)
    \/ \E t \in Threads, ok \in BOOLEAN : AddRecord(t, ok) \/ Sync(t, ok)
    \/ \E t \in Threads : RoomDelay(t) \/ DelayOver(t) \/ RoomWait(t) \/ AwaitMemTable(t) \/ AwaitManual(t) \/ ManualReturns(t)
    \/ BackgroundIs
    \/ Rests

\* Every step is one of those WorkStep goes through.
LEMMA NextWorkSteps ==
    ASSUME Parameters, TypeInv, QueueInv, LevelInv, [Next]_vars PROVE WorkSteps
<1>1. ASSUME NEW t \in Threads, Thread(t) PROVE WorkSteps
  <2>1. CASE \E wasted \in BOOLEAN : GetReturns(t, wasted)
    BY <2>1 DEF WorkSteps
  <2>2. CASE MakeRoomForWrite(t)
    <3>1. CASE RoomError(t) \/ RoomForNone(t) \/ RoomSwitchFails(t)
      BY <3>1, LeavesAloneIs DEF WorkSteps
    <3>2. CASE RoomDelay(t) \/ DelayOver(t) \/ RoomWait(t) \/ RoomSwitch(t)
      BY <3>2 DEF WorkSteps
    <3> QED
      BY <2>2, <3>1, <3>2 DEF MakeRoomForWrite
  <2>3. CASE StartGroup(t) \/ Insert(t) \/ Commit(t)
    BY <2>3 DEF WorkSteps
  <2>4. CASE \E ok \in BOOLEAN : AddRecord(t, ok) \/ Sync(t, ok)
    BY <2>4 DEF WorkSteps
  <2>5. CASE AwaitMemTable(t) \/ AwaitManual(t) \/ ManualReturns(t)
    BY <2>5 DEF WorkSteps
  <2> QED
    BY <1>1, <2>1, <2>2, <2>3, <2>4, <2>5 DEF Thread
<1>2. ASSUME NEW t \in Threads, NEW o \in Calls[t], Write(t, o) \/ Get(t, o) PROVE WorkSteps
  BY <1>2 DEF WorkSteps
<1>3. CASE Background
  BY <1>3, BackgroundEffect DEF WorkSteps
<1>4. CASE Destruct \/ UNCHANGED vars
  BY <1>4, RestsIs DEF WorkSteps
<1> QED
  BY <1>1, <1>2, <1>3, <1>4 DEF Next

\* WorkInv is kept: where there is work, and no error and no shutdown, the background thread is scheduled.
LEMMA WorkStep ==
    ASSUME Parameters, TypeInv, QueueInv, GroupInv, LevelInv, WorkInv, WorkSteps PROVE WorkInv'
<1>0. thread \in [Threads -> ThreadState] /\ db \in DbState /\ bg \in BgState /\ DOMAIN db.refs = DOMAIN db.contents
  BY DEF TypeInv
<1>1. ASSUME NEW t \in Threads, NEW o \in Calls[t], Write(t, o) PROVE WorkInv'
  <2>1. bg' = bg /\ db' = db /\ ~bg.shutdown
    BY <1>1 DEF Write, CanCall
  <2>2. thread'[t].asleep \in {"no", "own"} /\ \A u \in Threads \ {t} : thread'[u] = thread[u]
    <3>1. thread[t] \in ThreadState
      BY <1>0
    <3> QED
      BY <1>0, <1>1, <3>1 DEF Write, ThreadState
  <2>3. \A u \in Threads : thread'[u].asleep = "bg" => thread[u].asleep = "bg"
    BY <2>2
  <2> QED
    BY <2>1, <2>3, WorkKept
<1>2. ASSUME NEW t \in Threads, NEW o \in Calls[t], Get(t, o) PROVE WorkInv'
  <2>1. bg' = bg /\ db' = Ref(db, {db.mem, db.imm} \ {None}) /\ ~bg.shutdown
    BY <1>2 DEF Get, CanCall
  <2>2. db'.imm = db.imm /\ SameRest(db, db')
    BY <1>0, <2>1, RefIs
  <2>3. \A u \in Threads : thread'[u].asleep = "bg" => thread[u].asleep = "bg"
    BY <1>2, GetIs
  <2>4. NeedsCompaction(db) <=> NeedsCompaction(db')
    BY <2>2 DEF NeedsCompaction, SameRest
  <2> QED
    BY <2>1, <2>2, <2>3, <2>4, WorkKept
<1>3. ASSUME NEW t \in Threads, NEW wasted \in BOOLEAN, GetReturns(t, wasted) PROVE WorkInv'
  <2> DEFINE e == Unref(db, thread[t].held.mems)
  <2>1. /\ SameTables(e, db') /\ db'.level0 = e.level0 /\ db'.seek = (db.seek \/ wasted)
        /\ bg' = IF wasted THEN MaybeScheduleCompaction(bg, db') ELSE bg
    BY <1>3, GetReturnsStore
  <2>2. e.level0 = db.level0 /\ e.imm = db.imm
    BY <1>0, UnrefIs DEF SameRest
  <2> HIDE DEF e
  <2>3. thread[t].pc = "reading"
    BY <1>3, GetReturnsIs
  <2>4. ~bg.shutdown
    BY <2>3, InUse
  <2>5. \A u \in Threads : thread'[u].asleep = thread[u].asleep
    BY <1>3, GetReturnsIs
  <2>6. CASE wasted
    <3>1. bg' = MaybeScheduleCompaction(bg, db')
      BY <2>1, <2>6
    <3>2. BgSame /\ bg'.manual = bg.manual
      BY <3>1, ScheduleSame
    <3>3. Work' /\ ~bg.error => bg'.pc # "idle"
      BY <1>0, <2>4, <3>1, <3>2, ScheduleIs DEF Work
    <3>4. \A u \in Threads : thread'[u].asleep = "bg" => bg'.pc # "idle"
      BY <2>5, <3>2 DEF WorkInv, BgSame
    <3>5. bg'.error = bg.error /\ ~bg'.shutdown
      BY <2>4, <3>2 DEF BgSame
    <3> QED
      BY <3>3, <3>4, <3>5 DEF WorkInv
  <2>7. CASE ~wasted
    <3>1. bg' = bg /\ db'.imm = db.imm /\ db'.level0 = db.level0 /\ (db'.seek <=> db.seek)
      BY <2>1, <2>2, <2>7 DEF SameTables
    <3>2. NeedsCompaction(db) <=> NeedsCompaction(db')
      BY <3>1 DEF NeedsCompaction
    <3> QED
      BY <2>4, <2>5, <3>1, <3>2, WorkKept
  <2> QED
    BY <2>6, <2>7
<1>4. ASSUME NEW t \in Threads, LeavesAlone(t) PROVE WorkInv'
  <2>1. thread[t].pc # "idle" /\ bg' = bg /\ db' = db
    BY <1>4 DEF LeavesAlone
  <2>2. \A u \in Threads : thread'[u].asleep = "bg" => thread[u].asleep = "bg"
    BY <1>4 DEF LeavesAlone, LeaveOf
  <2> QED
    BY <2>1, <2>2, WorkGoes DEF SameRest
<1>5. ASSUME NEW t \in Threads, RoomSwitch(t) PROVE WorkInv'
  <2>1. /\ db'.imm = db.mem /\ bg' = MaybeScheduleCompaction(bg, db') /\ db.mem \in DOMAIN db.contents
    BY <1>5, RoomSwitchStore DEF TypeInv
  <2>2. ~bg.error /\ thread[t].pc = "queued"
    BY <1>5 DEF RoomSwitch, Turn, AtFront, YieldsError
  <2>3. ~bg.shutdown
    BY <2>2, InUse
  <2>4. BgSame
    BY <2>1, ScheduleSame
  <2>5. db'.imm # None
    <3>1. db.contents \in Seq(SUBSET Nat)
      BY <1>0 DEF DbState
    <3>2. db.mem \in Nat
      BY <2>1, <3>1, LengthIs
    <3> QED
      BY <2>1, <3>2 DEF Parameters
  <2>6. bg'.pc # "idle"
    BY <1>0, <2>1, <2>2, <2>3, <2>5, ScheduleIs
  <2>7. ~bg'.shutdown
    BY <2>3, <2>4 DEF BgSame
  <2> QED
    BY <2>6, <2>7 DEF WorkInv
<1>6. ASSUME NEW t \in Threads, NEW p, StepOf(t, p, thread[t].asleep), thread[t].pc # "idle", bg' = bg,
             db'.imm = db.imm, SameRest(db, db')
      PROVE  WorkInv'
  <2>1. \A u \in Threads : thread'[u].asleep = "bg" => thread[u].asleep = "bg"
    BY <1>6 DEF StepOf
  <2> QED
    BY <1>6, <2>1, WorkGoes
<1>7. ASSUME NEW t \in Threads, StartGroup(t) PROVE WorkInv'
  <2>1. bg' = bg /\ db' = db /\ thread[t].pc = "queued"
    BY <1>7 DEF StartGroup, Turn, AtFront
  <2> QED
    BY <1>6, <1>7, <2>1, StartGroupIs DEF SameRest
<1>8. ASSUME NEW t \in Threads, Insert(t) PROVE WorkInv'
  <2>1. bg' = bg /\ thread[t].pc = "inserting"
    BY <1>8 DEF Insert
  <2>2. group.todo # <<>>
    BY <2>1 DEF GroupInv, GroupOf, Busy
  <2>3. db'.imm = db.imm /\ SameRest(db, db')
    BY <1>8, <2>2, InsertStore
  <2> QED
    BY <1>6, <1>8, <2>1, <2>3, InsertIs
<1>9. ASSUME NEW t \in Threads, NEW ok \in BOOLEAN, AddRecord(t, ok) PROVE WorkInv'
  <2>1. bg' = bg /\ thread[t].pc = "logging"
    BY <1>9 DEF AddRecord
  <2>2. db'.imm = db.imm /\ SameRest(db, db')
    BY <1>9, AddRecordStore DEF SameTables
  <2> QED
    BY <1>6, <1>9, <2>1, <2>2, AddRecordIs
<1>10. ASSUME NEW t \in Threads, NEW ok \in BOOLEAN, Sync(t, ok) PROVE WorkInv'
  <2>1. bg' = bg /\ thread[t].pc = "syncing"
    BY <1>10 DEF Sync
  <2>2. db'.imm = db.imm /\ SameRest(db, db')
    BY <1>10, SyncStore DEF SameTables
  <2> QED
    BY <1>6, <1>10, <2>1, <2>2, SyncIs
<1>11. ASSUME NEW t \in Threads, Commit(t) PROVE WorkInv'
  <2>1. LeaveOf(Len(group.members)) /\ thread[t].pc \in {"committing", "sync failed"}
    BY <1>11, CommitIs
  <2>2. ~bg.shutdown
    BY <2>1, InUse
  <2>3. /\ db'.imm = db.imm /\ SameRest(db, db') /\ bg'.pc = bg.pc /\ bg'.manual = bg.manual
        /\ bg'.shutdown = bg.shutdown /\ (bg.error => bg'.error)
    BY <1>11, CommitStore DEF SameTables
  <2>4. NeedsCompaction(db) <=> NeedsCompaction(db')
    BY <2>3 DEF NeedsCompaction, SameRest
  <2>5. \A u \in Threads : thread'[u].asleep = "bg" => thread[u].asleep = "bg"
    BY <2>1 DEF LeaveOf
  <2> QED
    BY <2>2, <2>3, <2>4, <2>5, WorkKept
<1>12. ASSUME NEW t \in Threads,
              RoomDelay(t) \/ DelayOver(t) \/ RoomWait(t) \/ AwaitMemTable(t) \/ AwaitManual(t) \/ ManualReturns(t)
       PROVE  WorkInv'
  BY <1>12, WorkMinor
<1>13. CASE BackgroundIs
  <2>1. /\ thread' \in {thread, SignalAll(thread)} /\ bg'.shutdown = bg.shutdown
        /\ bg'.pc = "idle" => thread' = SignalAll(thread)
        /\ bg'.pc = "idle" /\ ~bg'.error /\ ~bg'.shutdown => ~Work'
    BY <1>13 DEF BackgroundIs
  <2>2. \A u \in Threads : thread'[u].pc = thread[u].pc
    BY <1>0, <2>1, SignalAllIs
  <2>3. \A u \in Threads : thread'[u].asleep = "bg" => bg'.pc # "idle"
    BY <1>0, <2>1, SignalAllIs
  <2> QED
    BY <2>1, <2>2, <2>3 DEF WorkInv
<1>14. CASE Rests
  <2>1. /\ thread' = thread /\ db' = db /\ bg'.error = bg.error /\ bg'.pc = bg.pc /\ bg'.manual = bg.manual
        /\ bg.shutdown => bg'.shutdown
        /\ bg'.shutdown # bg.shutdown => \A t \in Threads : thread[t].pc = "idle"
        /\ bg.shutdown \in BOOLEAN /\ bg'.shutdown \in BOOLEAN
    BY <1>0, <1>14 DEF Rests, BgState
  <2>2. Work' <=> Work
    BY <2>1 DEF Work, NeedsCompaction
  <2>3. bg'.shutdown => \A t \in Threads : thread[t].pc = "idle"
    BY <2>1 DEF WorkInv
  <2>4. Work' /\ ~bg'.error /\ ~bg'.shutdown => bg'.pc # "idle"
    BY <2>1, <2>2 DEF WorkInv
  <2>5. \A t \in Threads : thread'[t].asleep = "bg" => bg'.pc # "idle"
    BY <2>1 DEF WorkInv
  <2> QED
    BY <2>1, <2>3, <2>4, <2>5 DEF WorkInv
<1> QED
  BY <1>1, <1>2, <1>3, <1>4, <1>5, <1>7, <1>8, <1>9, <1>10, <1>11, <1>12, <1>13, <1>14 DEF WorkSteps

-----------------------------------------------------------------------------
(* The steps as the store sees them.                                       *)

ReadersSame ==
    \A u \in Threads : /\ thread'[u].pc = "reading" <=> thread[u].pc = "reading"
                       /\ thread[u].pc = "reading" => thread'[u].held = thread[u].held

\* A step that changes nothing of what readers find.
KeepsStore ==
    /\ ReadersSame
    /\ SameTables(db, db') /\ db'.tables = db.tables /\ db'.lastSequence = db.lastSequence
    /\ \A s \in db'.unsynced : s \in db.unsynced \/ s > db.lastSequence
    /\ \A s \in Nat : s > db.lastSequence => (Arrived(s)' <=> Arrived(s))
    /\ acked' = acked

StoreSteps ==
    \/ \E t \in Threads : \E o \in Calls[t] : Get(t, o)
    \/ \E t \in Threads, wasted \in BOOLEAN : GetReturns(t, wasted)
    \/ \E t \in Threads : RoomSwitch(t) \/ Insert(t) \/ Commit(t)
    \/ BackgroundIs /\ Installs
    \/ KeepsStore

\* Nobody begins or ends to insert.
LEMMA ArrivedSame ==
    ASSUME group' = group,
           \A u \in Threads : thread'[u].pc = thread[u].pc \/ {thread'[u].pc, thread[u].pc} \cap {"inserting", "committing"} = {}
    PROVE  \A s : Arrived(s)' <=> Arrived(s)
<1>1. \A u \in Threads : Inserts(u)' <=> Inserts(u)
  BY DEF Inserts
<1> QED
  BY <1>1 DEF Arrived

\* The step of a thread that reads neither before nor after it.
LEMMA StepReaders ==
    ASSUME NEW t \in Threads, NEW p, NEW a, StepOf(t, p, a), p # "reading", thread[t].pc # "reading"
    PROVE  ReadersSame
<1>1. \A u \in Threads \ {t} : thread'[u] = thread[u]
  BY DEF StepOf
<1>2. thread'[t].pc # "reading"
  BY DEF StepOf
<1> QED
  BY <1>1, <1>2 DEF ReadersSame

\* Who leaves the queue does not read.
LEMMA LeaveReaders ==
    ASSUME TypeInv, QueueInv, NEW n \in 1..Len(queue), LeaveOf(n) PROVE ReadersSame
<1> SUFFICES ASSUME NEW u \in Threads
             PROVE  /\ thread'[u].pc = "reading" <=> thread[u].pc = "reading"
                    /\ thread[u].pc = "reading" => thread'[u].held = thread[u].held
  BY DEF ReadersSame
<1>1. thread'[u].held = thread[u].held
  BY DEF LeaveOf, Kept
<1>2. CASE \E i \in 1..n : queue[i] = u
  <2>1. thread'[u].pc \in {"idle", "flushing", "manual"}
    BY <1>2 DEF LeaveOf
  <2>2. \E i \in DOMAIN queue : queue[i] = u
    <3>1. queue \in Seq(Threads)
      BY DEF TypeInv
    <3>2. \A i \in 1..n : i \in DOMAIN queue
      BY <3>1
    <3> QED
      BY <1>2, <3>2
  <2>3. thread[u].pc \in InQueue
    BY <2>2 DEF QueueInv
  <2> QED
    BY <2>1, <2>3 DEF InQueue, Writing, Busy
<1>3. CASE ~ \E i \in 1..n : queue[i] = u
  BY <1>1, <1>3 DEF LeaveOf
<1> QED
  BY <1>2, <1>3

\* A step that does not touch the store.
LEMMA Untouched ==
    ASSUME ReadersSame, SameTables(db, db'), SameFiles(db, db'), acked' = acked, \A s : Arrived(s)' <=> Arrived(s)
    PROVE  KeepsStore
BY DEF KeepsStore, SameFiles

\* To enter the queue keeps what is stored,
LEMMA WriteKeeps ==
    ASSUME Parameters, TypeInv, NEW t \in Threads, NEW o \in Calls[t], Write(t, o) PROVE KeepsStore
<1>1. thread \in [Threads -> ThreadState] /\ thread[t] \in ThreadState
  BY DEF TypeInv
<1>2. /\ thread[t].pc = "idle" /\ thread'[t].pc = "queued" /\ \A u \in Threads \ {t} : thread'[u] = thread[u]
      /\ UNCHANGED <<group, db, acked>>
  BY <1>1 DEF Write, CanCall, ThreadState
<1>3. ReadersSame
  BY <1>2 DEF ReadersSame
<1>4. \A s : Arrived(s)' <=> Arrived(s)
  BY <1>2, ArrivedSame
<1> QED
  BY <1>2, <1>3, <1>4, Untouched DEF SameTables, SameFiles

\* and so does a minor step,
LEMMA MinorKeeps ==
    ASSUME TypeInv, NEW t \in Threads, MinorStep(t) PROVE KeepsStore
<1>1. /\ UNCHANGED <<group, db, acked>> /\ StepOf(t, thread'[t].pc, thread'[t].asleep)
      /\ thread[t].pc \in {"queued", "delayed", "flushing", "manual"}
      /\ thread'[t].pc \in {"queued", "delayed", "flushing", "manual", "idle"}
  BY DEF MinorStep
<1>2. ReadersSame
  BY <1>1, StepReaders
<1>3. \A u \in Threads \ {t} : thread'[u].pc = thread[u].pc
  BY <1>1 DEF StepOf
<1>4. \A s : Arrived(s)' <=> Arrived(s)
  BY <1>1, <1>3, ArrivedSame
<1> QED
  BY <1>1, <1>2, <1>4, Untouched DEF SameTables, SameFiles

\* a write that ends before its group,
LEMMA LeavesKeeps ==
    ASSUME TypeInv, QueueInv, NEW t \in Threads, LeavesAlone(t) PROVE KeepsStore
<1>1. UNCHANGED <<group, db, acked>> /\ LeaveOf(1) /\ IsFront(queue, t) /\ thread[t].pc = "queued"
  BY DEF LeavesAlone
<1>2. 1 \in 1..Len(queue) /\ queue[1] = t
  BY <1>1 DEF TypeInv, IsFront
<1>3. ReadersSame
  BY <1>1, <1>2, LeaveReaders
<1>4. \A u \in Threads \ {t} : thread'[u].pc = thread[u].pc
  BY <1>1, <1>2 DEF LeaveOf
<1>5. thread'[t].pc \in {"idle", "flushing", "manual"}
  BY <1>1, <1>2 DEF LeaveOf
<1>6. \A s : Arrived(s)' <=> Arrived(s)
  BY <1>1, <1>4, <1>5, ArrivedSame
<1> QED
  BY <1>1, <1>3, <1>6, Untouched DEF SameTables, SameFiles

\* Who starts a group is the only one to write.
LEMMA StartKeeps ==
    ASSUME TypeInv, QueueInv, NEW t \in Threads, StartGroup(t) PROVE KeepsStore
<1>1. UNCHANGED <<db, acked>> /\ AtFront(t) /\ StepOf(t, "logging", thread[t].asleep)
  BY StartGroupIs DEF StartGroup, Turn
<1>2. ReadersSame
  BY <1>1, StepReaders DEF AtFront
<1>3. \A u \in Threads : ~Inserts(u) /\ ~Inserts(u)'
  <2> SUFFICES ASSUME NEW u \in Threads PROVE ~Inserts(u) /\ ~Inserts(u)'
    OBVIOUS
  <2>1. thread[u].pc \notin Writing
    BY <1>1, OneWrites DEF AtFront, InQueue, Writing, Busy
  <2>2. thread'[u].pc \in {thread[u].pc, "logging"}
    BY <1>1 DEF StepOf
  <2> QED
    BY <2>1, <2>2 DEF Inserts, Writing, Busy
<1>4. \A s : Arrived(s)' <=> Arrived(s)
  BY <1>3 DEF Arrived
<1> QED
  BY <1>1, <1>2, <1>4, Untouched DEF SameTables, SameFiles

\* Before it inserts, nothing of a group has arrived.
LEMMA NothingArrived ==
    ASSUME TypeInv, QueueInv, GroupInv, NEW t \in Threads, thread[t].pc \in {"logging", "syncing"}
    PROVE  \A s : ~Arrived(s)
<1> SUFFICES ASSUME NEW u \in Threads PROVE ~Inserts(u)
  BY DEF Arrived
<1>1. CASE thread[u].pc \in Writing
  <2>1. u = t
    BY <1>1, OneWriter DEF Writing, Busy
  <2> QED
    BY <2>1 DEF Inserts
<1>2. CASE thread[u].pc \notin Writing
  BY <1>2 DEF Inserts, Writing, Busy
<1> QED
  BY <1>1, <1>2

\* AddRecord and Sync,
LEMMA AddRecordKeeps ==
    ASSUME Parameters, TypeInv, QueueInv, GroupInv, NEW t \in Threads, NEW ok \in BOOLEAN,
           AddRecord(t, ok) \/ Sync(t, ok)
    PROVE  KeepsStore
<1>1. thread[t].pc \in {"logging", "syncing"} /\ acked' = acked
  BY DEF AddRecord, Sync
<1>2. GroupOf(t)
  BY <1>1 DEF GroupInv, Busy
<1>3. /\ db.lastSequence + Len(group.todo) = group.last
      /\ \A i \in DOMAIN group.todo : group.todo[i] = group.last - Len(group.todo) + i
  BY <1>1, <1>2 DEF GroupOf, Inserts
<1>4. db.lastSequence \in Nat /\ group.last \in Nat /\ group.todo \in Seq(Nat) /\ Len(group.todo) \in Nat
  BY DEF TypeInv, DbState, GroupState
<1>5. /\ SameTables(db, db') /\ db'.tables = db.tables /\ db'.lastSequence = db.lastSequence
      /\ db'.unsynced \subseteq db.unsynced \cup ToSet(group.todo)
      /\ group'.todo = group.todo /\ group'.last = group.last
  BY AddRecordStore, SyncStore
<1>6. \A s \in ToSet(group.todo) : s > db.lastSequence
  <2> SUFFICES ASSUME NEW i \in DOMAIN group.todo PROVE group.todo[i] > db.lastSequence
    BY DEF ToSet
  <2>1. group.todo[i] = group.last - Len(group.todo) + i
    BY <1>3
  <2>2. i \in 1..Len(group.todo)
    BY <1>4
  <2> QED
    BY <1>3, <1>4, <2>1, <2>2
<1>7. \A s \in Nat : s > db.lastSequence => ~Arrived(s)'
  <2>1. group'.last - Len(group'.todo) = db.lastSequence
    BY <1>3, <1>4, <1>5
  <2> QED
    BY <1>4, <2>1 DEF Arrived
<1>8. ReadersSame
  <2>1. CASE AddRecord(t, ok)
    <3>1. StepOf(t, (IF ~ok THEN "committing" ELSE IF thread[t].op.sync THEN "syncing" ELSE "inserting"), thread[t].asleep)
      BY <2>1, AddRecordIs
    <3> QED
      BY <1>1, <3>1, StepReaders
  <2>2. CASE Sync(t, ok)
    <3>1. StepOf(t, (IF ok THEN "inserting" ELSE "sync failed"), thread[t].asleep)
      BY <2>2, SyncIs
    <3> QED
      BY <1>1, <3>1, StepReaders
  <2> QED
    BY <2>1, <2>2
<1> QED
  BY <1>1, <1>5, <1>6, <1>7, <1>8, NothingArrived DEF KeepsStore

\* and the background thread, but for the installation of a memtable.
LEMMA BackgroundKeeps ==
    ASSUME TypeInv, BackgroundIs, ~Installs PROVE KeepsStore
<1>1. UNCHANGED <<group, acked>> /\ thread' \in {thread, SignalAll(thread)} /\ SameTables(db, db') /\ SameFiles(db, db')
  BY DEF BackgroundIs
<1>2. \A u \in Threads : thread'[u].pc = thread[u].pc /\ thread'[u].held = thread[u].held
  BY <1>1, SignalAllIs DEF TypeInv, Kept
<1>3. ReadersSame
  BY <1>2 DEF ReadersSame
<1>4. \A s : Arrived(s)' <=> Arrived(s)
  BY <1>1, <1>2, ArrivedSame
<1> QED
  BY <1>1, <1>3, <1>4, Untouched

\* Every step keeps what is stored, or is one of those that StoreSteps lists.
LEMMA StepsStore ==
    ASSUME Parameters, TypeInv, QueueInv, GroupInv, Steps PROVE StoreSteps
<1>1. ASSUME NEW t \in Threads, NEW o \in Calls[t], Write(t, o) \/ Get(t, o) PROVE StoreSteps
  BY <1>1, WriteKeeps DEF StoreSteps
<1>2. ASSUME NEW t \in Threads, NEW wasted \in BOOLEAN, GetReturns(t, wasted) PROVE StoreSteps
  BY <1>2 DEF StoreSteps
<1>3. ASSUME NEW t \in Threads,
             MinorStep(t) \/ LeavesAlone(t) \/ RoomSwitch(t) \/ StartGroup(t) \/ Insert(t) \/ Commit(t)
      PROVE  StoreSteps
  BY <1>3, MinorKeeps, LeavesKeeps, StartKeeps DEF StoreSteps
<1>4. ASSUME NEW t \in Threads, NEW ok \in BOOLEAN, AddRecord(t, ok) \/ Sync(t, ok) PROVE StoreSteps
  BY <1>4, AddRecordKeeps DEF StoreSteps
<1>5. CASE BackgroundIs
  BY <1>5, BackgroundKeeps DEF StoreSteps
<1>6. CASE Rests
  <2>1. UNCHANGED <<thread, group, db, acked>>
    BY <1>6 DEF Rests
  <2>2. ReadersSame
    BY <2>1 DEF ReadersSame
  <2>3. \A s : Arrived(s)' <=> Arrived(s)
    BY <2>1, ArrivedSame
  <2>4. KeepsStore
    BY <2>1, <2>2, <2>3, Untouched DEF SameTables, SameFiles
  <2> QED
    BY <2>4 DEF StoreSteps
<1> QED
  BY <1>1, <1>2, <1>3, <1>4, <1>5, <1>6 DEF Steps

-----------------------------------------------------------------------------
(* The references of the memtables.                                        *)

\* The readers of a memtable can be counted; one that leaves makes them one less.
LEMMA ReadersFinite ==
    ASSUME Parameters, NEW m
    PROVE  /\ IsFiniteSet(ReadersOf(m)) /\ Cardinality(ReadersOf(m)) \in Nat
           /\ \A t \in Threads : t \in ReadersOf(m) =>
                  /\ Cardinality(ReadersOf(m) \ {t}) = Cardinality(ReadersOf(m)) - 1
                  /\ Cardinality(ReadersOf(m)) # 0
           /\ \A t \in Threads : t \notin ReadersOf(m) => Cardinality(ReadersOf(m) \cup {t}) = Cardinality(ReadersOf(m)) + 1
<1>1. IsFiniteSet(Threads) /\ ReadersOf(m) \in SUBSET Threads
  BY DEF Parameters, ReadersOf
<1>2. IsFiniteSet(ReadersOf(m))
  BY <1>1, FS_Subset
<1>3. Cardinality(ReadersOf(m)) \in Nat
  BY <1>2, FS_CardinalityType
<1>4. ASSUME NEW t \in Threads, t \in ReadersOf(m)
      PROVE  Cardinality(ReadersOf(m) \ {t}) = Cardinality(ReadersOf(m)) - 1 /\ Cardinality(ReadersOf(m)) # 0
  <2>1. Cardinality(ReadersOf(m) \ {t}) = Cardinality(ReadersOf(m)) - 1
    BY <1>2, <1>4, FS_RemoveElement
  <2>2. Cardinality(ReadersOf(m)) # 0
    BY <1>2, <1>4, FS_EmptySet
  <2> QED
    BY <2>1, <2>2
<1>5. ASSUME NEW t \in Threads, t \notin ReadersOf(m)
      PROVE  Cardinality(ReadersOf(m) \cup {t}) = Cardinality(ReadersOf(m)) + 1
  BY <1>2, <1>5, FS_AddElement
<1> QED
  BY <1>2, <1>3, <1>4, <1>5

\* The readers of a memtable when the same threads read.
LEMMA ReadersKept ==
    ASSUME ReadersSame, NEW m PROVE ReadersOf(m)' = ReadersOf(m)
BY DEF ReadersSame, ReadersOf

\* A memtable of the store, or of a reader, has a reference.
LEMMA HasReference ==
    ASSUME Parameters, TypeInv, RefInv, NEW m \in DOMAIN db.contents, m \in {db.mem, db.imm} \/ ReadersOf(m) # {}
    PROVE  db.refs[m] # 0
<1>1. db.refs[m] = Cardinality(ReadersOf(m)) + Own(m)
  BY DEF RefInv
<1>2. Cardinality(ReadersOf(m)) \in Nat
  BY ReadersFinite
<1>3. Own(m) \in {0, 1} /\ (m \in {db.mem, db.imm} => Own(m) = 1)
  BY DEF Own
<1>4. ReadersOf(m) # {} => Cardinality(ReadersOf(m)) # 0
  BY ReadersFinite DEF ReadersOf
<1> QED
  BY <1>1, <1>2, <1>3, <1>4

\* The step keeps what readers and the store have of the memtables.
KeepsContents ==
    /\ DOMAIN db'.contents = DOMAIN db.contents
    /\ \A m \in DOMAIN db.contents : db'.contents[m] \in {db.contents[m], {}}
    /\ \A m \in DOMAIN db.contents : m \in {db'.mem, db'.imm} \/ ReadersOf(m)' # {} => db'.contents[m] = db.contents[m]

\* References are given back: what remains is counted right, and kept.
LEMMA UnrefKeeps ==
    ASSUME Parameters, TypeInv, RefInv, NEW mems, db'.contents = Unref(db, mems).contents, db'.refs = Unref(db, mems).refs,
           \A m \in DOMAIN db.contents :
               db.refs[m] - (IF m \in mems THEN 1 ELSE 0) = Cardinality(ReadersOf(m)') + Own(m)'
    PROVE  RefInv' /\ KeepsContents
<1>1. db \in DbState /\ DOMAIN db.refs = DOMAIN db.contents
  BY DEF TypeInv
<1>2. \A m \in DOMAIN db.refs : db.refs[m] \in Int
  BY <1>1 DEF DbState
<1>3. /\ DOMAIN db'.refs = DOMAIN db.refs /\ DOMAIN db'.contents = DOMAIN db.contents
      /\ \A m \in DOMAIN db.refs :
             /\ db'.refs[m] = IF m \in mems THEN db.refs[m] - 1 ELSE db.refs[m]
             /\ db'.contents[m] = IF db'.refs[m] = 0 THEN {} ELSE db.contents[m]
  BY <1>1, UnrefIs
<1>4. \A m \in DOMAIN db.contents : db'.refs[m] = Cardinality(ReadersOf(m)') + Own(m)'
  <2> SUFFICES ASSUME NEW m \in DOMAIN db.contents PROVE db'.refs[m] = Cardinality(ReadersOf(m)') + Own(m)'
    OBVIOUS
  <2>1. db'.refs[m] = IF m \in mems THEN db.refs[m] - 1 ELSE db.refs[m]
    BY <1>1, <1>3
  <2>2. db.refs[m] - (IF m \in mems THEN 1 ELSE 0) = Cardinality(ReadersOf(m)') + Own(m)'
    OBVIOUS
  <2>3. db.refs[m] \in Int
    BY <1>1, <1>2
  <2> HIDE DEF Own
  <2> QED
    BY <2>1, <2>2, <2>3
<1>5. RefInv'
  BY <1>1, <1>3, <1>4 DEF RefInv
<1>6. ASSUME NEW m \in DOMAIN db.contents, m \in {db'.mem, db'.imm} \/ ReadersOf(m)' # {}
      PROVE  db'.contents[m] = db.contents[m]
  <2>1. Cardinality(ReadersOf(m)') \in Nat /\ (ReadersOf(m)' # {} => Cardinality(ReadersOf(m)') # 0)
    <3>1. ReadersOf(m)' \in SUBSET Threads /\ IsFiniteSet(Threads)
      BY DEF ReadersOf, Parameters
    <3>2. IsFiniteSet(ReadersOf(m)')
      BY <3>1, FS_Subset
    <3> QED
      BY <3>2, FS_CardinalityType, FS_EmptySet
  <2>2. Own(m)' \in {0, 1} /\ (m \in {db'.mem, db'.imm} => Own(m)' = 1)
    BY DEF Own
  <2>3. db'.refs[m] # 0
    BY <1>4, <1>6, <2>1, <2>2
  <2> QED
    BY <1>1, <1>3, <2>3
<1>7. \A m \in DOMAIN db.contents : db'.contents[m] \in {db.contents[m], {}}
  BY <1>1, <1>3
<1> QED
  BY <1>3, <1>5, <1>6, <1>7 DEF KeepsContents

\* A Get that returns gives up its references; no memtable in use is emptied.
LEMMA GetReturnsKeeps ==
    ASSUME Parameters, TypeInv, RefInv, NEW t \in Threads, NEW wasted \in BOOLEAN, GetReturns(t, wasted)
    PROVE  /\ RefInv' /\ KeepsContents
           /\ db'.mem = db.mem /\ db'.imm = db.imm /\ SameFiles(db, db')
           /\ \A s : Arrived(s)' <=> Arrived(s)
           /\ UNCHANGED <<group, acked>>
<1>1. db \in DbState /\ DOMAIN db.refs = DOMAIN db.contents /\ \A m \in DOMAIN db.refs : db.refs[m] \in Int
  BY DEF TypeInv, DbState
<1> DEFINE mems == thread[t].held.mems
<1>2. /\ db'.contents = Unref(db, mems).contents /\ db'.refs = Unref(db, mems).refs
      /\ db'.mem = db.mem /\ db'.imm = db.imm /\ SameFiles(db, db')
  BY <1>1, GetReturnsStore, UnrefIs DEF SameTables, SameFiles
<1>3. /\ \A u \in Threads \ {t} : thread'[u] = thread[u]
      /\ thread[t].pc = "reading" /\ thread'[t].pc = "idle"
  BY GetReturnsIs
<1>4. UNCHANGED <<group, acked>>
  BY DEF GetReturns
<1>5. \A s : Arrived(s)' <=> Arrived(s)
  BY <1>3, <1>4, ArrivedSame
<1>6. ASSUME NEW m \in DOMAIN db.contents
      PROVE  db.refs[m] - (IF m \in mems THEN 1 ELSE 0) = Cardinality(ReadersOf(m)') + Own(m)'
  <2>1. ReadersOf(m)' = ReadersOf(m) \ {t} /\ (t \in ReadersOf(m) <=> m \in mems)
    BY <1>3 DEF ReadersOf
  <2>2. Own(m)' = Own(m) /\ Own(m) \in Int
    BY <1>2 DEF Own
  <2>3. db.refs[m] = Cardinality(ReadersOf(m)) + Own(m) /\ db.refs[m] \in Int
    BY <1>1 DEF RefInv
  <2>4. Cardinality(ReadersOf(m)) \in Nat
    BY ReadersFinite
  <2>5. CASE m \in mems
    <3>1. Cardinality(ReadersOf(m) \ {t}) = Cardinality(ReadersOf(m)) - 1
      BY <2>1, <2>5, ReadersFinite
    <3> HIDE DEF mems
    <3> QED
      BY <2>1, <2>2, <2>3, <2>4, <2>5, <3>1
  <2>6. CASE m \notin mems
    <3>1. Cardinality(ReadersOf(m)') = Cardinality(ReadersOf(m))
      <4>1. ReadersOf(m)' = ReadersOf(m)
        BY <2>1, <2>6
      <4> QED
        BY <4>1
    <3> HIDE DEF mems, Own
    <3> QED
      BY <2>2, <2>3, <2>4, <2>6, <3>1
  <2> QED
    BY <2>5, <2>6
<1> HIDE DEF mems
<1>7. RefInv' /\ KeepsContents
  BY <1>2, <1>6, UnrefKeeps
<1> QED
  BY <1>2, <1>4, <1>5, <1>7

\* A memtable that is installed: its reference goes when its entries are in a table.
LEMMA InstallsKeeps ==
    ASSUME Parameters, TypeInv, RefInv, StoreInv, BackgroundIs, Installs
    PROVE  RefInv' /\ KeepsContents /\ ReadersSame /\ (\A s : Arrived(s)' <=> Arrived(s)) /\ UNCHANGED <<group, acked>>
<1>1. db \in DbState /\ DOMAIN db.refs = DOMAIN db.contents /\ \A m \in DOMAIN db.refs : db.refs[m] \in Int
  BY DEF TypeInv, DbState
<1>2. UNCHANGED <<group, acked>> /\ thread' \in {thread, SignalAll(thread)}
  BY DEF BackgroundIs
<1>3. \A u \in Threads : thread'[u].pc = thread[u].pc /\ thread'[u].held = thread[u].held
  BY <1>2, SignalAllIs DEF TypeInv, Kept
<1>4. ReadersSame
  BY <1>3 DEF ReadersSame
<1>5. \A s : Arrived(s)' <=> Arrived(s)
  BY <1>2, <1>3, ArrivedSame
<1>6. /\ db'.contents = Unref(db, {db.imm}).contents /\ db'.refs = Unref(db, {db.imm}).refs
      /\ db'.mem = db.mem /\ db'.imm = None /\ db.imm # None
  BY DEF Installs
<1>7. ASSUME NEW m \in DOMAIN db.contents
      PROVE  db.refs[m] - (IF m \in {db.imm} THEN 1 ELSE 0) = Cardinality(ReadersOf(m)') + Own(m)'
  <2>1. ReadersOf(m)' = ReadersOf(m)
    BY <1>4, ReadersKept
  <2>2. m # None
    <3>1. db.contents \in Seq(SUBSET Nat)
      BY <1>1 DEF DbState
    <3>2. m \in Nat
      BY <3>1, LengthIs
    <3> QED
      BY <3>2 DEF Parameters
  <2>3. db.imm # db.mem
    BY DEF StoreInv
  <2>4. Own(m) = Own(m)' + (IF m \in {db.imm} THEN 1 ELSE 0) /\ Own(m)' \in Int
    BY <1>6, <2>2, <2>3 DEF Own
  <2>5. db.refs[m] = Cardinality(ReadersOf(m)) + Own(m)
    BY <1>1 DEF RefInv
  <2>6. Cardinality(ReadersOf(m)) \in Nat
    BY ReadersFinite
  <2> HIDE DEF Own
  <2> QED
    BY <2>1, <2>4, <2>5, <2>6
<1>8. RefInv' /\ KeepsContents
  BY <1>6, <1>7, UnrefKeeps
<1> QED
  BY <1>2, <1>4, <1>5, <1>8

\* A Get takes its references.
LEMMA GetKeeps ==
    ASSUME Parameters, TypeInv, RefInv, StoreInv, NEW t \in Threads, NEW o \in Calls[t], Get(t, o)
    PROVE  /\ RefInv'
           /\ db'.mem = db.mem /\ db'.imm = db.imm /\ db'.contents = db.contents /\ SameFiles(db, db')
           /\ \A s : Arrived(s)' <=> Arrived(s)
           /\ UNCHANGED <<group, acked>>
<1> DEFINE mems == {db.mem, db.imm} \ {None}
<1>1. db \in DbState /\ DOMAIN db.refs = DOMAIN db.contents /\ \A m \in DOMAIN db.refs : db.refs[m] \in Int
  BY DEF TypeInv, DbState
<1>2. db' = Ref(db, mems) /\ UNCHANGED <<group, acked>>
  BY DEF Get
<1>3. /\ \A u \in Threads \ {t} : thread'[u] = thread[u]
      /\ thread[t].pc = "idle" /\ thread'[t].pc = "reading" /\ thread'[t].held.mems = mems
  <2>1. /\ \A u \in Threads \ {t} : thread'[u] = thread[u]
        /\ thread[t].pc = "idle" /\ thread'[t].pc = "reading"
        /\ thread'[t].held = [snapshot |-> db.lastSequence, mems |-> mems, tables |-> db.tables,
                              due |-> {s \in Found(mems, db.tables) : s <= db.lastSequence}]
    BY GetIs
  <2> HIDE DEF mems
  <2> QED
    BY <2>1
<1>4. /\ db'.mem = db.mem /\ db'.imm = db.imm /\ db'.contents = db.contents /\ SameFiles(db, db')
      /\ DOMAIN db'.refs = DOMAIN db.refs
      /\ \A m \in DOMAIN db.refs : db'.refs[m] = IF m \in mems THEN db.refs[m] + 1 ELSE db.refs[m]
  BY <1>1, <1>2, RefIs
<1> HIDE DEF mems
<1>5. \A s : Arrived(s)' <=> Arrived(s)
  BY <1>2, <1>3, ArrivedSame
<1>6. ASSUME NEW m \in DOMAIN db.refs PROVE db'.refs[m] = Cardinality(ReadersOf(m)') + Own(m)'
  <2>1. ReadersOf(m)' = (IF m \in mems THEN ReadersOf(m) \cup {t} ELSE ReadersOf(m)) /\ t \notin ReadersOf(m)
    BY <1>3 DEF ReadersOf
  <2>2. Own(m)' = Own(m) /\ Own(m) \in Int
    BY <1>4 DEF Own
  <2>3. db.refs[m] = Cardinality(ReadersOf(m)) + Own(m) /\ db.refs[m] \in Int
    BY <1>1 DEF RefInv
  <2>4. Cardinality(ReadersOf(m)) \in Nat /\ Cardinality(ReadersOf(m) \cup {t}) = Cardinality(ReadersOf(m)) + 1
    BY <2>1, ReadersFinite
  <2>5. db'.refs[m] = IF m \in mems THEN db.refs[m] + 1 ELSE db.refs[m]
    BY <1>4
  <2> QED
    BY <2>1, <2>2, <2>3, <2>4, <2>5
<1>7. RefInv'
  BY <1>1, <1>4, <1>6 DEF RefInv
<1> QED
  BY <1>2, <1>4, <1>5, <1>7

\* Who switches the memtable is the only one to write, and does not.
LEMMA SwitchKeeps ==
    ASSUME TypeInv, QueueInv, NEW t \in Threads, RoomSwitch(t)
    PROVE  ReadersSame /\ (\A s : ~Arrived(s) /\ ~Arrived(s)') /\ UNCHANGED <<group, acked>>
<1>1. UNCHANGED <<group, acked>> /\ AtFront(t) /\ StepOf(t, thread[t].pc, thread[t].asleep)
  BY RoomSwitchIs DEF RoomSwitch, Turn
<1>2. ReadersSame
  BY <1>1, StepReaders DEF AtFront
<1>3. \A u \in Threads : ~Inserts(u) /\ ~Inserts(u)'
  <2> SUFFICES ASSUME NEW u \in Threads PROVE ~Inserts(u) /\ ~Inserts(u)'
    OBVIOUS
  <2>1. thread[u].pc \notin Writing
    BY <1>1, OneWrites DEF AtFront, InQueue, Writing, Busy
  <2>2. thread'[u].pc = thread[u].pc
    BY <1>1 DEF StepOf
  <2> QED
    BY <2>1, <2>2 DEF Inserts, Writing, Busy
<1> QED
  BY <1>1, <1>2, <1>3 DEF Arrived

\* What an insertion adds is the next entry of the group.
LEMMA InsertKeeps ==
    ASSUME TypeInv, QueueInv, GroupInv, NEW t \in Threads, Insert(t)
    PROVE  /\ ReadersSame /\ acked' = acked /\ SameFiles(db, db')
           /\ db'.mem = db.mem /\ db'.imm = db.imm /\ db'.refs = db.refs /\ DOMAIN db'.contents = DOMAIN db.contents
           /\ \A m \in DOMAIN db.contents \ {db.mem} : db'.contents[m] = db.contents[m]
           /\ \E s \in Nat : /\ s > db.lastSequence /\ s = group.last - Len(group.todo) + 1
                             /\ db'.contents[db.mem] = db.contents[db.mem] \cup {s}
           /\ \A s \in Nat : /\ Arrived(s) <=> s <= group.last - Len(group.todo)
                             /\ Arrived(s)' <=> s <= group.last - Len(group.todo) + 1
<1> DEFINE p == IF Len(group.todo) = 1 THEN "committing" ELSE "inserting"
<1>1. StepOf(t, p, thread[t].asleep) /\ acked' = acked /\ thread[t].pc = "inserting"
  BY InsertIs DEF Insert
<1>2. p \in {"committing", "inserting"}
  OBVIOUS
<1> HIDE DEF p
<1>3. GroupOf(t)
  BY <1>1 DEF GroupInv, Busy
<1>4. /\ group.todo # <<>> /\ group.ok /\ db.lastSequence + Len(group.todo) <= group.last
      /\ \A i \in DOMAIN group.todo : group.todo[i] = group.last - Len(group.todo) + i
  BY <1>1, <1>3 DEF GroupOf
<1>5. /\ SameFiles(db, db') /\ db'.mem = db.mem /\ db'.imm = db.imm /\ db'.refs = db.refs
      /\ DOMAIN db'.contents = DOMAIN db.contents
      /\ \A m \in DOMAIN db.contents \ {db.mem} : db'.contents[m] = db.contents[m]
      /\ db'.contents[db.mem] = db.contents[db.mem] \cup {group.todo[1]}
      /\ group'.last = group.last /\ group'.ok = group.ok /\ Len(group'.todo) = Len(group.todo) - 1
  BY <1>4, InsertStore
<1>6. db.lastSequence \in Nat /\ group.last \in Nat /\ group.todo \in Seq(Nat) /\ Len(group.todo) \in Nat
  BY DEF TypeInv, DbState, GroupState
<1>7. ReadersSame
  BY <1>1, <1>2, StepReaders
<1>8. \A u \in Threads : thread[u].pc \in Writing => u = t
  BY <1>1, OneWriter DEF Writing, Busy
<1>9. \A u \in Threads : (Inserts(u) <=> u = t) /\ (Inserts(u)' <=> u = t)
  <2> SUFFICES ASSUME NEW u \in Threads PROVE (Inserts(u) <=> u = t) /\ (Inserts(u)' <=> u = t)
    OBVIOUS
  <2>1. CASE u = t
    BY <1>1, <1>2, <1>4, <1>5, <2>1 DEF Inserts, StepOf
  <2>2. CASE u # t
    <3>1. thread'[u] = thread[u] /\ thread[u].pc \notin Writing
      BY <1>1, <1>8, <2>2 DEF StepOf
    <3> QED
      BY <2>2, <3>1 DEF Inserts, Writing, Busy
  <2> QED
    BY <2>1, <2>2
<1>10. \A s \in Nat : /\ (Arrived(s) <=> s <= group.last - Len(group.todo))
                       /\ (Arrived(s)' <=> s <= group.last - Len(group.todo) + 1)
  <2>1. group'.last - Len(group'.todo) = group.last - Len(group.todo) + 1
    BY <1>5, <1>6
  <2> QED
    BY <1>9, <2>1 DEF Arrived
<1>11. /\ group.todo[1] = group.last - Len(group.todo) + 1
       /\ group.todo[1] > db.lastSequence /\ group.todo[1] \in Nat
  <2>1. 1 \in DOMAIN group.todo
    BY <1>4, <1>6
  <2>2. group.todo[1] = group.last - Len(group.todo) + 1
    BY <1>4, <2>1
  <2> QED
    BY <1>4, <1>6, <2>2
<1> QED
  BY <1>1, <1>5, <1>7, <1>10, <1>11

\* A commit makes the group visible if it was inserted; otherwise nothing of it was.
LEMMA CommitKeeps ==
    ASSUME Parameters, TypeInv, QueueInv, GroupInv, NEW t \in Threads, Commit(t)
    PROVE  /\ ReadersSame /\ SameTables(db, db') /\ db'.tables = db.tables /\ db'.unsynced = db.unsynced
           /\ db'.lastSequence = group.last /\ group.last > db.lastSequence
           /\ \A s : ~Arrived(s)'
           /\ \A s \in Nat : Arrived(s) <=> group.ok /\ s <= group.last
           /\ group.ok => group.todo = <<>>
<1>1. LeaveOf(Len(group.members)) /\ GroupOf(t) /\ thread[t].pc \in {"committing", "sync failed"}
  BY CommitIs
<1>2. /\ SameTables(db, db') /\ db'.tables = db.tables /\ db'.unsynced = db.unsynced /\ db'.lastSequence = group.last
  BY CommitStore
<1>3. thread[t].pc \in Busy
  BY <1>1 DEF Busy
<1>4. group.last > db.lastSequence /\ Len(group.members) \in 1..Len(queue)
  BY <1>1, <1>3, GroupHasEntries, GroupIs
<1>5. ReadersSame
  BY <1>1, <1>4, LeaveReaders
<1>6. \A s : ~Arrived(s)'
  <2>1. \A u \in Threads : thread'[u].pc \notin Writing
    BY <1>1, <1>4, NobodyWrites
  <2> QED
    BY <2>1 DEF Arrived, Inserts, Writing, Busy
<1>7. (group.ok => group.todo = <<>>) /\ (Inserts(t) <=> group.ok)
  BY <1>1 DEF GroupOf, Inserts
<1>8. \A u \in Threads : Inserts(u) <=> u = t /\ group.ok
  <2>1. \A u \in Threads : thread[u].pc \in Writing => u = t
    BY <1>3, OneWriter DEF Writing
  <2> QED
    BY <1>7, <2>1 DEF Inserts, Writing, Busy
<1>9. \A s \in Nat : Arrived(s) <=> group.ok /\ s <= group.last
  <2>1. group.todo = <<>> => Len(group.todo) = 0
    OBVIOUS
  <2>2. group.last \in Nat
    BY DEF TypeInv, GroupState
  <2>3. group.ok => group.last - Len(group.todo) = group.last
    BY <1>7, <2>1, <2>2
  <2> QED
    BY <1>8, <2>3 DEF Arrived
<1> QED
  BY <1>2, <1>4, <1>5, <1>6, <1>7, <1>9

\* RefInv is kept: the references of a memtable are its readers and the database itself.
LEMMA RefStep ==
    ASSUME Parameters, TypeInv, QueueInv, GroupInv, StoreInv, RefInv, ReadInv, StoreSteps PROVE RefInv'
<1>0. DOMAIN db.refs = DOMAIN db.contents /\ \A m \in DOMAIN db.refs : db.refs[m] = Cardinality(ReadersOf(m)) + Own(m)
  BY DEF RefInv
<1>1. ASSUME ReadersSame, SameTables(db, db') PROVE RefInv'
  <2>1. \A m : ReadersOf(m)' = ReadersOf(m) /\ Own(m)' = Own(m)
    BY <1>1, ReadersKept DEF SameTables, Own
  <2> QED
    BY <1>0, <1>1, <2>1 DEF RefInv, SameTables
<1>2. ASSUME NEW t \in Threads, NEW o \in Calls[t], Get(t, o) PROVE RefInv'
  BY <1>2, GetKeeps
<1>3. ASSUME NEW t \in Threads, NEW wasted \in BOOLEAN, GetReturns(t, wasted) PROVE RefInv'
  BY <1>3, GetReturnsKeeps
<1>4. ASSUME NEW t \in Threads, RoomSwitch(t) PROVE RefInv'
  <2>0. PICK n : n = db'.mem
    OBVIOUS
  <2>1. /\ db.imm = None /\ db'.imm = db.mem /\ n \notin DOMAIN db.contents
        /\ DOMAIN db'.contents = DOMAIN db.contents \cup {n}
        /\ DOMAIN db'.refs = DOMAIN db.refs \cup {n}
        /\ db'.refs[n] = 1 /\ \A m \in DOMAIN db.refs : db'.refs[m] = db.refs[m]
    BY <1>4, <2>0, RoomSwitchStore
  <2>2. \A m : ReadersOf(m)' = ReadersOf(m)
    BY <1>4, SwitchKeeps, ReadersKept
  <2>3. ReadersOf(n)' = {}
    <3>1. \A u \in Threads : thread[u].pc = "reading" => n \notin thread[u].held.mems
      BY <2>1 DEF ReadInv, SeesSnapshot
    <3>2. ReadersOf(n) = {}
      BY <3>1 DEF ReadersOf
    <3>3. ReadersOf(n)' = ReadersOf(n)
      BY <2>2
    <3> QED
      BY <3>2, <3>3
  <2>4. db'.refs[n] = Cardinality(ReadersOf(n)') + Own(n)'
    <3>1. Own(n)' = 1
      BY <2>0 DEF Own
    <3>2. Cardinality(ReadersOf(n)') = 0
      BY <2>3, FS_EmptySet
    <3> QED
      BY <2>1, <3>1, <3>2
  <2>5. \A m \in DOMAIN db.refs : db'.refs[m] = Cardinality(ReadersOf(m)') + Own(m)'
    <3> SUFFICES ASSUME NEW m \in DOMAIN db.refs PROVE db'.refs[m] = Cardinality(ReadersOf(m)') + Own(m)'
      OBVIOUS
    <3>1. m # None
      <4>1. db.contents \in Seq(SUBSET Nat)
        BY DEF TypeInv, DbState
      <4>2. m \in Nat
        BY <1>0, <4>1, LengthIs
      <4> QED
        BY <4>2 DEF Parameters
    <3>2. Own(m)' = Own(m)
      BY <1>0, <2>0, <2>1, <3>1 DEF Own
    <3>3. Cardinality(ReadersOf(m)') = Cardinality(ReadersOf(m))
      <4>1. ReadersOf(m)' = ReadersOf(m)
        BY <2>2
      <4> QED
        BY <4>1
    <3>4. db'.refs[m] = db.refs[m] /\ db.refs[m] = Cardinality(ReadersOf(m)) + Own(m)
      BY <1>0, <2>1
    <3> QED
      BY <3>2, <3>3, <3>4
  <2> QED
    BY <1>0, <2>1, <2>4, <2>5 DEF RefInv
<1>5. ASSUME NEW t \in Threads, Insert(t) PROVE RefInv'
  <2>1. /\ ReadersSame /\ db'.mem = db.mem /\ db'.imm = db.imm /\ db'.refs = db.refs
        /\ DOMAIN db'.contents = DOMAIN db.contents
    BY <1>5, InsertKeeps
  <2>2. \A m : ReadersOf(m)' = ReadersOf(m) /\ Own(m)' = Own(m)
    BY <2>1, ReadersKept DEF Own
  <2> QED
    BY <1>0, <2>1, <2>2 DEF RefInv
<1>6. ASSUME NEW t \in Threads, Commit(t) PROVE RefInv'
  BY <1>1, <1>6, CommitKeeps
<1>7. CASE BackgroundIs /\ Installs
  BY <1>7, InstallsKeeps
<1>8. CASE KeepsStore
  BY <1>1, <1>8 DEF KeepsStore
<1> QED
  BY <1>2, <1>3, <1>4, <1>5, <1>6, <1>7, <1>8 DEF StoreSteps

-----------------------------------------------------------------------------
(* What is in the store.                                                   *)

\* A step that empties at most memtables that nobody has.
LEMMA StoreKept ==
    ASSUME Parameters, TypeInv, StoreInv, KeepsContents, db'.mem = db.mem, db'.imm \in {db.imm, None},
           db'.lastSequence = db.lastSequence,
           \A s \in db'.tables : s \in db.tables \/ s <= db.lastSequence,
           \A s \in Nat : s > db.lastSequence => (Arrived(s)' <=> Arrived(s))
    PROVE  StoreInv'
<1>1. /\ db.mem = Len(db.contents) /\ db.mem # 0 /\ db.imm \in (DOMAIN db.contents \cup {None}) \ {db.mem}
      /\ \A s \in db.tables : s <= db.lastSequence
      /\ \A m \in DOMAIN db.contents : m # db.mem => \A s \in db.contents[m] : s <= db.lastSequence
      /\ \A s \in Nat : s > db.lastSequence => (s \in db.contents[db.mem] <=> Arrived(s))
  BY DEF StoreInv
<1>2. /\ DOMAIN db'.contents = DOMAIN db.contents /\ db.mem \in DOMAIN db.contents
      /\ \A m \in DOMAIN db.contents : db'.contents[m] \in {db.contents[m], {}}
      /\ db'.contents[db.mem] = db.contents[db.mem]
  BY DEF KeepsContents, TypeInv
<1>3. None # db.mem
  BY DEF Parameters, TypeInv, DbState
<1> QED
  BY <1>1, <1>2, <1>3 DEF StoreInv

\* An interval that starts at 1 has one end.
LEMMA SameInterval ==
    ASSUME NEW a \in Nat, NEW b \in Nat, 1..a = 1..b PROVE a = b
<1>1. a # 0 => a <= b
  <2>1. a # 0 => a \in 1..a
    OBVIOUS
  <2>2. a # 0 => a \in 1..b
    BY <2>1
  <2> QED
    BY <2>2
<1>2. b # 0 => b <= a
  <2>1. b # 0 => b \in 1..b
    OBVIOUS
  <2>2. b # 0 => b \in 1..a
    BY <2>1
  <2> QED
    BY <2>2
<1> QED
  BY <1>1, <1>2

\* StoreInv is kept: what is committed is in a table or in a memtable of the database,
\* and nothing newer is but what a group inserts.
LEMMA StoreStep ==
    ASSUME Parameters, TypeInv, QueueInv, GroupInv, StoreInv, RefInv, StoreSteps, TypeInv' PROVE StoreInv'
<1>0. /\ db.mem = Len(db.contents) /\ db.mem # 0 /\ db.imm \in (DOMAIN db.contents \cup {None}) \ {db.mem}
      /\ \A s \in db.tables : s <= db.lastSequence
      /\ \A m \in DOMAIN db.contents : m # db.mem => \A s \in db.contents[m] : s <= db.lastSequence
      /\ \A s \in Nat : s > db.lastSequence => (s \in db.contents[db.mem] <=> Arrived(s))
  BY DEF StoreInv
<1>a. /\ db.contents \in Seq(SUBSET Nat) /\ db.tables \subseteq Nat /\ db.lastSequence \in Nat
      /\ db.mem \in DOMAIN db.contents /\ db.mem \in Nat
  BY DEF TypeInv, DbState
<1>b. None \notin Nat /\ DOMAIN db.contents \subseteq Nat
  BY <1>a, LengthIs DEF Parameters
<1>1. ASSUME NEW t \in Threads, NEW o \in Calls[t], Get(t, o) PROVE StoreInv'
  <2>1. /\ db'.mem = db.mem /\ db'.imm = db.imm /\ db'.contents = db.contents /\ SameFiles(db, db')
        /\ \A s : Arrived(s)' <=> Arrived(s)
    BY <1>1, GetKeeps
  <2> QED
    BY <1>0, <2>1 DEF StoreInv, SameFiles
<1>2. ASSUME NEW t \in Threads, NEW wasted \in BOOLEAN, GetReturns(t, wasted) PROVE StoreInv'
  <2>1. KeepsContents /\ db'.mem = db.mem /\ db'.imm = db.imm /\ SameFiles(db, db') /\ \A s : Arrived(s)' <=> Arrived(s)
    BY <1>2, GetReturnsKeeps
  <2> QED
    BY <2>1, StoreKept DEF SameFiles
<1>3. CASE BackgroundIs /\ Installs
  <2>1. KeepsContents /\ \A s : Arrived(s)' <=> Arrived(s)
    BY <1>3, InstallsKeeps
  <2>2. /\ db'.mem = db.mem /\ db'.imm = None /\ db'.tables = db.tables \cup db.contents[db.imm]
        /\ db'.lastSequence = db.lastSequence /\ db.imm # None
    BY <1>3 DEF Installs
  <2>3. \A s \in db'.tables : s \in db.tables \/ s <= db.lastSequence
    BY <1>0, <2>2
  <2> QED
    BY <2>1, <2>2, <2>3, StoreKept
<1>4. CASE KeepsStore
  <2>1. /\ db'.mem = db.mem /\ db'.imm = db.imm /\ db'.contents = db.contents
        /\ db'.tables = db.tables /\ db'.lastSequence = db.lastSequence
        /\ \A s \in Nat : s > db.lastSequence => (Arrived(s)' <=> Arrived(s))
    BY <1>4 DEF KeepsStore, SameTables
  <2> QED
    BY <1>0, <2>1 DEF StoreInv
<1>5. ASSUME NEW t \in Threads, RoomSwitch(t) PROVE StoreInv'
  <2>1. /\ db.imm = None /\ db'.imm = db.mem /\ db'.mem \notin DOMAIN db.contents
        /\ DOMAIN db'.contents = DOMAIN db.contents \cup {db'.mem} /\ Len(db'.contents) = db'.mem
        /\ db'.contents[db'.mem] = {} /\ \A m \in DOMAIN db.contents : db'.contents[m] = db.contents[m]
        /\ db'.mem = Len(db.contents) + 1 /\ db'.tables = db.tables /\ db'.lastSequence = db.lastSequence
    BY <1>5, RoomSwitchStore DEF SameFiles
  <2>2. \A s : ~Arrived(s) /\ ~Arrived(s)'
    BY <1>5, SwitchKeeps
  <2>3. \A s \in db.contents[db.mem] : s <= db.lastSequence
    <3>1. \A s \in db.contents[db.mem] : s \in Nat
      BY <1>a
    <3> QED
      BY <1>0, <1>a, <2>2, <3>1
  <2>4. \A m \in DOMAIN db'.contents : m # db'.mem => \A s \in db'.contents[m] : s <= db'.lastSequence
    BY <1>0, <2>1, <2>3
  <2>5. db'.mem # 0 /\ db'.imm \in (DOMAIN db'.contents \cup {None}) \ {db'.mem}
    BY <1>0, <1>a, <2>1
  <2> QED
    BY <1>0, <2>1, <2>2, <2>4, <2>5 DEF StoreInv
<1>6. ASSUME NEW t \in Threads, Insert(t) PROVE StoreInv'
  <2>1. /\ db'.mem = db.mem /\ db'.imm = db.imm /\ DOMAIN db'.contents = DOMAIN db.contents /\ SameFiles(db, db')
        /\ \A m \in DOMAIN db.contents \ {db.mem} : db'.contents[m] = db.contents[m]
        /\ \A s \in Nat : /\ Arrived(s) <=> s <= group.last - Len(group.todo)
                          /\ Arrived(s)' <=> s <= group.last - Len(group.todo) + 1
    BY <1>6, InsertKeeps
  <2>2. PICK n \in Nat : /\ n > db.lastSequence /\ n = group.last - Len(group.todo) + 1
                         /\ db'.contents[db.mem] = db.contents[db.mem] \cup {n}
    BY <1>6, InsertKeeps
  <2>3. \A s \in Nat : s > db.lastSequence => (s \in db'.contents[db.mem] <=> Arrived(s)')
    <3> SUFFICES ASSUME NEW s \in Nat, s > db.lastSequence PROVE s \in db'.contents[db.mem] <=> Arrived(s)'
      OBVIOUS
    <3>1. s \in db.contents[db.mem] <=> s <= n - 1
      <4>1. group.last - Len(group.todo) = n - 1
        <5>1. group.last \in Nat /\ group.todo \in Seq(Nat)
          BY DEF TypeInv, GroupState
        <5>2. Len(group.todo) \in Nat
          BY <5>1
        <5> QED
          BY <2>2, <5>1, <5>2
      <4> QED
        BY <1>0, <2>1, <4>1
    <3>2. Arrived(s)' <=> s <= n
      BY <2>1, <2>2
    <3> QED
      BY <2>2, <3>1, <3>2
  <2>4. Len(db'.contents) = Len(db.contents)
    <3>1. db'.contents \in Seq(SUBSET Nat)
      BY DEF TypeInv, DbState
    <3>2. DOMAIN db'.contents = 1..Len(db'.contents) /\ DOMAIN db.contents = 1..Len(db.contents)
      BY <1>a, <3>1, LengthIs
    <3>3. Len(db'.contents) \in Nat /\ Len(db.contents) \in Nat
      BY <1>a, <3>1, LengthIs
    <3> QED
      BY <2>1, <3>2, <3>3, SameInterval
  <2>5. \A m \in DOMAIN db'.contents : m # db'.mem => \A s \in db'.contents[m] : s <= db'.lastSequence
    BY <1>0, <2>1 DEF SameFiles
  <2> QED
    BY <1>0, <2>1, <2>3, <2>4, <2>5 DEF StoreInv, SameFiles
<1>7. ASSUME NEW t \in Threads, Commit(t) PROVE StoreInv'
  <2>1. /\ db'.mem = db.mem /\ db'.imm = db.imm /\ db'.contents = db.contents
        /\ db'.tables = db.tables /\ db'.lastSequence = group.last /\ group.last > db.lastSequence
        /\ \A s : ~Arrived(s)'
        /\ \A s \in Nat : Arrived(s) <=> group.ok /\ s <= group.last
    BY <1>7, CommitKeeps DEF SameTables
  <2>2. group.last \in Nat
    BY DEF TypeInv, GroupState
  <2>3. \A s \in db'.tables : s <= db'.lastSequence
    BY <1>0, <1>a, <2>1, <2>2
  <2>4. \A m \in DOMAIN db.contents : \A s \in db.contents[m] : s \in Nat
    BY <1>a
  <2>5. \A m \in DOMAIN db'.contents : m # db'.mem => \A s \in db'.contents[m] : s <= db'.lastSequence
    <3> SUFFICES ASSUME NEW m \in DOMAIN db.contents, m # db.mem, NEW s \in db.contents[m] PROVE s <= group.last
      BY <2>1
    <3>1. s \in Nat /\ s <= db.lastSequence
      BY <1>0, <2>4
    <3> QED
      BY <1>a, <2>1, <2>2, <3>1
  <2>6. \A s \in Nat : s > db'.lastSequence => (s \in db'.contents[db'.mem] <=> Arrived(s)')
    <3> SUFFICES ASSUME NEW s \in Nat, s > group.last PROVE s \notin db.contents[db.mem]
      BY <2>1
    <3>1. s > db.lastSequence /\ ~(s <= group.last)
      BY <1>a, <2>1, <2>2
    <3> QED
      BY <1>0, <2>1, <3>1
  <2> QED
    BY <1>0, <2>1, <2>3, <2>5, <2>6 DEF StoreInv
<1> QED
  BY <1>1, <1>2, <1>3, <1>4, <1>5, <1>6, <1>7 DEF StoreSteps

-----------------------------------------------------------------------------
(* What a reader finds.                                                    *)

\* The memtables of a reader keep what is not newer than its snapshot.
LEMMA ReadKept ==
    ASSUME TypeInv, NEW t \in Threads, SeesSnapshot(t), thread'[t].held = thread[t].held,
           db'.lastSequence \in Nat, db.lastSequence <= db'.lastSequence,
           DOMAIN db.contents \subseteq DOMAIN db'.contents,
           \A m \in thread[t].held.mems : \A s : s <= thread[t].held.snapshot =>
               (s \in db'.contents[m] <=> s \in db.contents[m])
    PROVE  SeesSnapshot(t)'
<1> DEFINE h == thread[t].held
<1>1. /\ h \in Holding /\ h.snapshot <= db.lastSequence /\ h.mems \subseteq DOMAIN db.contents
      /\ {s \in Found(h.mems, h.tables) : s <= h.snapshot} = h.due
  BY DEF SeesSnapshot
<1>2. h' = h
  OBVIOUS
<1>3. db.lastSequence \in Nat /\ h.snapshot \in Nat
  BY <1>1 DEF TypeInv, DbState, Holding
<1>4. h.snapshot <= db'.lastSequence
  BY <1>1, <1>3
<1>5. h.mems \subseteq DOMAIN db'.contents
  BY <1>1
<1>6. {s \in Found(h.mems, h.tables)' : s <= h.snapshot} = {s \in Found(h.mems, h.tables) : s <= h.snapshot}
  <2>1. \A s : s <= h.snapshot => (s \in Found(h.mems, h.tables)' <=> s \in Found(h.mems, h.tables))
    BY <1>2 DEF Found
  <2> QED
    BY <2>1
<1> QED
  BY <1>1, <1>2, <1>4, <1>5, <1>6 DEF SeesSnapshot

\* ReadInv is kept: what a reader saw stays in what it holds.
LEMMA ReadStep ==
    ASSUME Parameters, TypeInv, QueueInv, GroupInv, StoreInv, RefInv, ReadInv, StoreSteps, TypeInv' PROVE ReadInv'
<1> SUFFICES ASSUME NEW t \in Threads, thread'[t].pc = "reading" PROVE SeesSnapshot(t)'
  BY DEF ReadInv
<1>0. db.lastSequence \in Nat /\ db'.lastSequence \in Nat
  BY DEF TypeInv, DbState
<1>1. ASSUME thread[t].pc = "reading" PROVE /\ SeesSnapshot(t) /\ thread[t].held.mems \subseteq DOMAIN db.contents
                                            /\ thread[t].held.snapshot \in Nat
                                            /\ thread[t].held.snapshot <= db.lastSequence
  <2>1. SeesSnapshot(t)
    BY <1>1 DEF ReadInv
  <2> QED
    BY <2>1 DEF SeesSnapshot, Holding
<1>2. ASSUME ReadersSame PROVE thread[t].pc = "reading" /\ thread'[t].held = thread[t].held
  BY <1>2 DEF ReadersSame
<1>3. ASSUME thread[t].pc = "reading", thread'[t].held = thread[t].held, db'.lastSequence = db.lastSequence, KeepsContents
      PROVE  SeesSnapshot(t)'
  <2>1. \A m \in thread[t].held.mems : m \in DOMAIN db.contents /\ t \in ReadersOf(m)'
    BY <1>1, <1>3 DEF ReadersOf
  <2>2. \A m \in thread[t].held.mems : db'.contents[m] = db.contents[m]
    BY <1>3, <2>1 DEF KeepsContents
  <2>3. DOMAIN db'.contents = DOMAIN db.contents
    BY <1>3 DEF KeepsContents
  <2> QED
    BY <1>0, <1>1, <1>3, <2>2, <2>3, ReadKept
<1>4. ASSUME NEW u \in Threads, NEW o \in Calls[u], Get(u, o) PROVE SeesSnapshot(t)'
  <2> DEFINE mems == {db.mem, db.imm} \ {None}
  <2>1. db'.contents = db.contents /\ SameFiles(db, db')
    BY <1>4, GetKeeps
  <2>2. \A v \in Threads \ {u} : thread'[v] = thread[v]
    BY <1>4, GetIs
  <2>3. CASE t # u
    <3>1. thread'[t] = thread[t] /\ thread[t].pc = "reading"
      BY <2>2, <2>3
    <3> QED
      BY <1>0, <1>1, <2>1, <3>1, ReadKept DEF SameFiles
  <2>4. CASE t = u
    <3>1. /\ thread'[t].held \in Holding /\ mems \subseteq DOMAIN db.contents
          /\ thread'[t].held = [snapshot |-> db.lastSequence, mems |-> mems, tables |-> db.tables,
                                due |-> {s \in Found(mems, db.tables) : s <= db.lastSequence}]
      BY <1>4, <2>4, GetIs
    <3> HIDE DEF mems
    <3>2. /\ thread'[t].held.snapshot = db.lastSequence /\ thread'[t].held.mems = mems
          /\ thread'[t].held.tables = db.tables
          /\ thread'[t].held.due = {s \in Found(mems, db.tables) : s <= db.lastSequence}
      BY <3>1
    <3>3. Found(thread[t].held.mems, thread[t].held.tables)' = Found(mems, db.tables)
      BY <2>1, <3>2 DEF Found
    <3>4. thread'[t].held.snapshot <= db'.lastSequence
      BY <1>0, <2>1, <3>2 DEF SameFiles
    <3> QED
      BY <2>1, <3>1, <3>2, <3>3, <3>4 DEF SeesSnapshot
  <2> QED
    BY <2>3, <2>4
<1>5. ASSUME NEW u \in Threads, NEW wasted \in BOOLEAN, GetReturns(u, wasted) PROVE SeesSnapshot(t)'
  <2>1. KeepsContents /\ db'.lastSequence = db.lastSequence
    BY <1>5, GetReturnsKeeps DEF SameFiles
  <2>2. thread'[u].pc = "idle" /\ \A v \in Threads \ {u} : thread'[v] = thread[v]
    BY <1>5, GetReturnsIs
  <2>3. thread'[t] = thread[t]
    BY <2>2
  <2> QED
    BY <1>3, <2>1, <2>3
<1>6. CASE BackgroundIs /\ Installs
  <2>1. KeepsContents /\ ReadersSame /\ db'.lastSequence = db.lastSequence
    BY <1>6, InstallsKeeps DEF Installs
  <2> QED
    BY <1>2, <1>3, <2>1
<1>7. ASSUME NEW u \in Threads, RoomSwitch(u) PROVE SeesSnapshot(t)'
  <2>1. ReadersSame
    BY <1>7, SwitchKeeps
  <2>2. /\ DOMAIN db.contents \subseteq DOMAIN db'.contents /\ db'.lastSequence = db.lastSequence
        /\ \A m \in DOMAIN db.contents : db'.contents[m] = db.contents[m]
    BY <1>7, RoomSwitchStore DEF SameFiles
  <2>3. \A m \in thread[t].held.mems : db'.contents[m] = db.contents[m]
    BY <1>1, <1>2, <2>1, <2>2
  <2> QED
    BY <1>0, <1>1, <1>2, <2>1, <2>2, <2>3, ReadKept
<1>8. ASSUME NEW u \in Threads, Insert(u) PROVE SeesSnapshot(t)'
  <2>1. /\ ReadersSame /\ DOMAIN db'.contents = DOMAIN db.contents /\ db'.lastSequence = db.lastSequence
        /\ \A m \in DOMAIN db.contents \ {db.mem} : db'.contents[m] = db.contents[m]
    BY <1>8, InsertKeeps DEF SameFiles
  <2>2. PICK n \in Nat : n > db.lastSequence /\ db'.contents[db.mem] = db.contents[db.mem] \cup {n}
    BY <1>8, InsertKeeps
  <2>3. ~(n <= thread[t].held.snapshot)
    BY <1>0, <1>1, <1>2, <2>1, <2>2
  <2>4. \A m \in thread[t].held.mems : \A s : s <= thread[t].held.snapshot =>
               (s \in db'.contents[m] <=> s \in db.contents[m])
    BY <1>1, <1>2, <2>1, <2>2, <2>3
  <2> QED
    BY <1>0, <1>1, <1>2, <2>1, <2>4, ReadKept
<1>9. ASSUME NEW u \in Threads, Commit(u) PROVE SeesSnapshot(t)'
  <2>1. ReadersSame /\ db'.contents = db.contents /\ db'.lastSequence = group.last /\ group.last > db.lastSequence
    BY <1>9, CommitKeeps DEF SameTables
  <2> QED
    BY <1>0, <1>1, <1>2, <2>1, ReadKept
<1>10. CASE KeepsStore
  <2>1. ReadersSame /\ db'.contents = db.contents /\ db'.lastSequence = db.lastSequence
    BY <1>10 DEF KeepsStore, SameTables
  <2> QED
    BY <1>0, <1>1, <1>2, <2>1, ReadKept
<1> QED
  BY <1>4, <1>5, <1>6, <1>7, <1>8, <1>9, <1>10 DEF StoreSteps

-----------------------------------------------------------------------------
(* What everybody can see.                                                 *)

\* An entry in the memtables of the store or in its tables.
Stored(s) == s \in db.tables \/ s \in db.contents[db.mem] \/ (db.imm # None /\ s \in db.contents[db.imm])

\* What a reader can see, by where it is stored,
LEMMA VisibleIs ==
    ASSUME Parameters, TypeInv PROVE \A s : s \in Visible <=> Stored(s) /\ s <= db.lastSequence
<1>1. db.mem # None
  BY DEF Parameters, TypeInv, DbState
<1>2. \A s : s \in Found({db.mem, db.imm} \ {None}, db.tables) <=> Stored(s)
  BY <1>1 DEF Found, Stored
<1> QED
  BY <1>2 DEF Visible

\* and after the step.
LEMMA VisibleNextIs ==
    ASSUME Parameters, TypeInv' PROVE \A s : s \in Visible' <=> Stored(s)' /\ s <= db'.lastSequence
<1>1. db'.mem # None
  BY DEF Parameters, TypeInv, DbState
<1>2. \A s : s \in Found({db.mem, db.imm} \ {None}, db.tables)' <=> Stored(s)'
  BY <1>1 DEF Found, Stored
<1> QED
  BY <1>2 DEF Visible

\* The same entries up to the same number are the same to see.
LEMMA VisibleSame ==
    ASSUME Parameters, TypeInv, TypeInv', db'.lastSequence = db.lastSequence,
           \A s : s <= db.lastSequence => (Stored(s)' <=> Stored(s))
    PROVE  Visible' = Visible
<1>1. \A s : s \in Visible' <=> s \in Visible
  BY VisibleIs, VisibleNextIs
<1> QED
  BY <1>1

\* What a commit makes visible is the whole group, or nothing.
LEMMA VisibleCommit ==
    ASSUME Parameters, TypeInv, QueueInv, GroupInv, StoreInv, TypeInv', NEW t \in Threads, Commit(t)
    PROVE  IF group.ok THEN group.todo = <<>> /\ Visible' = Visible \cup ((db.lastSequence + 1) .. group.last)
           ELSE Visible' = Visible
<1>1. /\ SameTables(db, db') /\ db'.tables = db.tables /\ db'.lastSequence = group.last
      /\ group.last > db.lastSequence /\ (group.ok => group.todo = <<>>)
      /\ \A s \in Nat : Arrived(s) <=> group.ok /\ s <= group.last
  BY CommitKeeps
<1>2. \A s : Stored(s)' <=> Stored(s)
  BY <1>1 DEF Stored, SameTables
<1>3. db.lastSequence \in Nat /\ group.last \in Nat /\ db.contents \in Seq(SUBSET Nat) /\ db.tables \subseteq Nat
  BY DEF TypeInv, DbState, GroupState
<1>4. \A s : Stored(s) => s \in Nat
  BY <1>3 DEF Stored, TypeInv
<1>5. ASSUME NEW s \in Nat, s > db.lastSequence, s <= group.last PROVE Stored(s) <=> group.ok
  <2>1. s \in db.contents[db.mem] <=> group.ok
    BY <1>1, <1>5 DEF StoreInv
  <2>2. s \notin db.tables
    <3>1. s \in db.tables => s <= db.lastSequence
      BY DEF StoreInv
    <3> QED
      BY <1>3, <1>5, <3>1
  <2>3. db.imm # None => s \notin db.contents[db.imm]
    <3>1. db.imm # None => db.imm \in DOMAIN db.contents /\ db.imm # db.mem
      BY DEF StoreInv
    <3>2. db.imm # None /\ s \in db.contents[db.imm] => s <= db.lastSequence
      BY <3>1 DEF StoreInv
    <3> QED
      BY <1>3, <1>5, <3>2
  <2> QED
    BY <2>1, <2>2, <2>3 DEF Stored
<1>6. \A s : s \in Visible <=> Stored(s) /\ s <= db.lastSequence
  BY VisibleIs
<1>7. \A s : s \in Visible' <=> Stored(s) /\ s <= group.last
  BY <1>1, <1>2, VisibleNextIs
<1>8. \A s : s \in Visible' <=> s \in Visible \/ (group.ok /\ s \in (db.lastSequence + 1) .. group.last)
  <2> SUFFICES ASSUME NEW s
               PROVE  s \in Visible' <=> s \in Visible \/ (group.ok /\ s \in (db.lastSequence + 1) .. group.last)
    OBVIOUS
  <2>1. CASE s \in Nat
    <3>1. CASE s <= db.lastSequence
      BY <1>1, <1>3, <1>6, <1>7, <2>1, <3>1
    <3>2. CASE s > db.lastSequence
      BY <1>1, <1>3, <1>5, <1>6, <1>7, <2>1, <3>2
    <3> QED
      BY <1>3, <2>1, <3>1, <3>2
  <2>2. CASE s \notin Nat
    BY <1>3, <1>4, <1>6, <1>7, <2>2
  <2> QED
    BY <2>1, <2>2
<1>9. group.ok \in BOOLEAN
  BY DEF TypeInv, GroupState
<1>10. CASE group.ok
  BY <1>1, <1>8, <1>10
<1>11. CASE ~group.ok
  BY <1>8, <1>11
<1> QED
  BY <1>9, <1>10, <1>11

\* Only the end of a write changes what a reader can see.
LEMMA VisibleStep ==
    ASSUME Parameters, TypeInv, QueueInv, GroupInv, StoreInv, RefInv, StoreSteps, TypeInv'
    PROVE  Visible' = Visible \/ \E t \in Threads : Commit(t)
<1>0. /\ db.mem \in DOMAIN db.contents /\ db.imm \in DOMAIN db.contents \cup {None} /\ db.imm # db.mem
      /\ db.mem # None /\ db.lastSequence \in Nat /\ None \notin DOMAIN db.contents
  <2>1. db.contents \in Seq(SUBSET Nat) /\ db.mem \in Nat
    BY DEF TypeInv, DbState
  <2>2. None \notin DOMAIN db.contents /\ None # db.mem
    BY <2>1, LengthIs DEF Parameters
  <2> QED
    BY <2>2 DEF TypeInv, DbState, StoreInv
<1>1. ASSUME NEW t \in Threads, NEW o \in Calls[t], Get(t, o) PROVE Visible' = Visible
  <2>1. db'.mem = db.mem /\ db'.imm = db.imm /\ db'.contents = db.contents /\ SameFiles(db, db')
    BY <1>1, GetKeeps
  <2> QED
    BY <2>1, VisibleSame DEF Stored, SameFiles
<1>2. ASSUME NEW t \in Threads, NEW wasted \in BOOLEAN, GetReturns(t, wasted) PROVE Visible' = Visible
  <2>1. KeepsContents /\ db'.mem = db.mem /\ db'.imm = db.imm /\ SameFiles(db, db')
    BY <1>2, GetReturnsKeeps
  <2>2. db'.contents[db.mem] = db.contents[db.mem] /\ (db.imm # None => db'.contents[db.imm] = db.contents[db.imm])
    BY <1>0, <2>1 DEF KeepsContents
  <2>3. \A s : Stored(s)' <=> Stored(s)
    BY <2>1, <2>2 DEF Stored, SameFiles
  <2> QED
    BY <2>1, <2>3, VisibleSame DEF SameFiles
<1>3. CASE BackgroundIs /\ Installs
  <2>1. KeepsContents
    BY <1>3, InstallsKeeps
  <2>2. /\ db'.mem = db.mem /\ db'.imm = None /\ db'.tables = db.tables \cup db.contents[db.imm]
        /\ db'.lastSequence = db.lastSequence /\ db.imm # None
    BY <1>3 DEF Installs
  <2>3. db'.contents[db.mem] = db.contents[db.mem]
    BY <1>0, <2>1, <2>2 DEF KeepsContents
  <2>4. \A s : Stored(s)' <=> Stored(s)
    BY <2>2, <2>3 DEF Stored
  <2> QED
    BY <2>2, <2>4, VisibleSame
<1>4. ASSUME NEW t \in Threads, RoomSwitch(t) PROVE Visible' = Visible
  <2>1. /\ db.imm = None /\ db'.imm = db.mem /\ db'.contents[db'.mem] = {}
        /\ \A m \in DOMAIN db.contents : db'.contents[m] = db.contents[m]
        /\ db'.tables = db.tables /\ db'.lastSequence = db.lastSequence
    BY <1>4, RoomSwitchStore DEF SameFiles
  <2>2. \A s : Stored(s)' <=> Stored(s)
    BY <1>0, <2>1 DEF Stored
  <2> QED
    BY <2>1, <2>2, VisibleSame
<1>5. ASSUME NEW t \in Threads, Insert(t) PROVE Visible' = Visible
  <2>1. /\ db'.mem = db.mem /\ db'.imm = db.imm /\ db'.tables = db.tables /\ db'.lastSequence = db.lastSequence
        /\ \A m \in DOMAIN db.contents \ {db.mem} : db'.contents[m] = db.contents[m]
    BY <1>5, InsertKeeps DEF SameFiles
  <2>2. PICK n \in Nat : n > db.lastSequence /\ db'.contents[db.mem] = db.contents[db.mem] \cup {n}
    BY <1>5, InsertKeeps
  <2>3. ~(n <= db.lastSequence)
    BY <1>0, <2>2
  <2>4. db.imm # None => db'.contents[db.imm] = db.contents[db.imm]
    BY <1>0, <2>1
  <2>5. \A s : s <= db.lastSequence => (Stored(s)' <=> Stored(s))
    BY <2>1, <2>2, <2>3, <2>4 DEF Stored
  <2> QED
    BY <2>1, <2>5, VisibleSame
<1>6. CASE KeepsStore
  <2>1. /\ db'.mem = db.mem /\ db'.imm = db.imm /\ db'.contents = db.contents
        /\ db'.tables = db.tables /\ db'.lastSequence = db.lastSequence
    BY <1>6 DEF KeepsStore, SameTables
  <2> QED
    BY <2>1, VisibleSame DEF Stored
<1> QED
  BY <1>1, <1>2, <1>3, <1>4, <1>5, <1>6 DEF StoreSteps

-----------------------------------------------------------------------------
(* The writes that returned.                                               *)

\* The entries of a batch are among those of its group.
LEMMA EntriesInGroup ==
    ASSUME Parameters, TypeInv, NEW t \in Threads, GroupOf(t), NEW i \in Batches(group.members)
    PROVE  Entries(i) \subseteq (db.lastSequence + 1) .. group.last
<1> DEFINE batches == Batches(group.members)
           a == Cardinality(batches \cap 1..(i - 1))
           b == Cardinality(batches)
<1>1. group.members \in Seq(Threads) /\ db.lastSequence \in Nat /\ BatchSize \in Nat /\ group.last \in Nat
  BY DEF TypeInv, GroupState, DbState, Parameters
<1>2. IsFiniteSet(batches) /\ batches \subseteq Nat /\ a \in Nat /\ b \in Nat
  BY <1>1, BatchesFinite
<1>3. a < b
  <2>1. i \in Nat /\ i \notin 1..(i - 1)
    BY <1>2
  <2>2. batches \cap 1..(i - 1) \subseteq batches \ {i}
    BY <2>1
  <2>3. IsFiniteSet(batches \ {i}) /\ Cardinality(batches \ {i}) = b - 1
    BY <1>2, FS_RemoveElement
  <2>4. a <= Cardinality(batches \ {i})
    BY <2>2, <2>3, FS_Subset
  <2> HIDE DEF a, b, batches
  <2> QED
    BY <1>2, <2>3, <2>4
<1>4. Entries(i) = (db.lastSequence + BatchSize * a + 1) .. (db.lastSequence + BatchSize * a + BatchSize)
  BY DEF Entries
<1>5. group.last = db.lastSequence + BatchSize * b
  BY DEF GroupOf
<1> HIDE DEF a, b
<1>6. BatchSize * a \in Nat /\ BatchSize * b \in Nat /\ BatchSize * a + BatchSize <= BatchSize * b
  BY <1>2, <1>3, Times
<1> DEFINE x == BatchSize * a
           y == BatchSize * b
<1>7. x \in Nat /\ y \in Nat /\ x + BatchSize <= y /\ group.last = db.lastSequence + y
  BY <1>5, <1>6
<1>8. Entries(i) = (db.lastSequence + x + 1) .. (db.lastSequence + x + BatchSize)
  BY <1>4
<1> HIDE DEF x, y
<1> QED
  BY <1>1, <1>7, <1>8

\* AckInv is kept: what was acknowledged stays visible, and synced if it was a sync write.
LEMMA AckStep ==
    ASSUME Parameters, TypeInv, QueueInv, GroupInv, StoreInv, RefInv, AckInv, StoreSteps, TypeInv' PROVE AckInv'
<1>0. db.lastSequence \in Nat /\ group.last \in Nat
  BY DEF TypeInv, DbState, GroupState
<1>1. ASSUME NEW a \in acked
      PROVE  a.entries \subseteq Visible /\ (a.sync => a.entries \cap db.unsynced = {}) /\ ~a.late
  BY DEF AckInv
<1>2. \A s \in Visible : ~(s > db.lastSequence)
  BY <1>0, VisibleType DEF Visible
<1>3. ASSUME Visible' = Visible, acked' = acked, \A s \in db'.unsynced : s \in db.unsynced \/ s > db.lastSequence
      PROVE  AckInv'
  <2> SUFFICES ASSUME NEW a \in acked
               PROVE  a.entries \subseteq Visible /\ (a.sync => a.entries \cap db'.unsynced = {}) /\ ~a.late
    BY <1>3 DEF AckInv
  <2> QED
    BY <1>1, <1>2, <1>3
<1>4. ASSUME NEW t \in Threads, Commit(t) PROVE AckInv'
  <2>1. /\ db'.unsynced = db.unsynced /\ db'.lastSequence = group.last /\ group.last > db.lastSequence
    BY <1>4, CommitKeeps
  <2>2. IF group.ok THEN group.todo = <<>> /\ Visible' = Visible \cup ((db.lastSequence + 1) .. group.last)
        ELSE Visible' = Visible
    BY <1>4, VisibleCommit
  <2>3. acked' = IF ~group.ok THEN acked
                 ELSE acked \cup {[entries |-> Entries(i), sync |-> thread[group.members[i]].op.sync,
                                   late |-> thread[group.members[i]].late] : i \in Batches(group.members)}
    BY <1>4 DEF Commit
  <2>4. GroupOf(t) /\ thread[t].pc \in {"committing", "sync failed"}
    BY <1>4, CommitIs
  <2>5. ASSUME NEW a \in acked
        PROVE  a.entries \subseteq Visible' /\ (a.sync => a.entries \cap db'.unsynced = {}) /\ ~a.late
    BY <1>1, <2>1, <2>2
  <2>6. ASSUME group.ok, NEW i \in Batches(group.members)
        PROVE  /\ Entries(i) \subseteq Visible'
               /\ thread[group.members[i]].op.sync => Entries(i) \cap db'.unsynced = {}
               /\ ~thread[group.members[i]].late
    <3>1. Entries(i) \subseteq (db.lastSequence + 1) .. group.last
      BY <2>4, EntriesInGroup
    <3>2. i \in DOMAIN group.members
      BY DEF Batches
    <3>3. ~thread[group.members[i]].late /\ (thread[group.members[i]].op.sync => thread[t].op.sync)
      BY <2>4, <3>2 DEF GroupOf
    <3>4. thread[t].pc = "committing"
      BY <2>4, <2>6 DEF GroupOf
    <3>5. thread[t].op.sync => \A s \in db.unsynced : s <= db.lastSequence
      BY <2>4, <2>6, <3>4 DEF GroupOf, Inserts
    <3>6. thread[t].op.sync => Entries(i) \cap db.unsynced = {}
      BY <1>0, <3>1, <3>5
    <3> QED
      BY <2>1, <2>2, <2>6, <3>1, <3>3, <3>6
  <2>7. CASE ~group.ok
    BY <2>3, <2>5, <2>7 DEF AckInv
  <2>8. CASE group.ok
    <3> SUFFICES ASSUME NEW a \in acked'
                 PROVE  a.entries \subseteq Visible' /\ (a.sync => a.entries \cap db'.unsynced = {}) /\ ~a.late
      BY DEF AckInv
    <3>1. CASE a \in acked
      BY <2>5, <3>1
    <3>2. CASE a \notin acked
      <4>1. PICK i \in Batches(group.members) :
                a = [entries |-> Entries(i), sync |-> thread[group.members[i]].op.sync,
                     late |-> thread[group.members[i]].late]
        BY <2>3, <2>8, <3>2
      <4>2. /\ a.entries = Entries(i) /\ a.sync = thread[group.members[i]].op.sync
            /\ a.late = thread[group.members[i]].late
        BY <4>1
      <4> QED
        BY <2>6, <2>8, <4>2
    <3> QED
      BY <3>1, <3>2
  <2> QED
    BY <2>7, <2>8
<1>5. CASE ~ \E t \in Threads : Commit(t)
  <2>1. Visible' = Visible
    BY <1>5, VisibleStep
  <2>2. ASSUME SameFiles(db, db'), acked' = acked PROVE AckInv'
    BY <1>3, <2>1, <2>2 DEF SameFiles
  <2>3. ASSUME NEW t \in Threads, NEW o \in Calls[t], Get(t, o) PROVE AckInv'
    BY <2>2, <2>3, GetKeeps
  <2>4. ASSUME NEW t \in Threads, NEW wasted \in BOOLEAN, GetReturns(t, wasted) PROVE AckInv'
    BY <2>2, <2>4, GetReturnsKeeps
  <2>5. ASSUME NEW t \in Threads, RoomSwitch(t) PROVE AckInv'
    BY <2>2, <2>5, RoomSwitchStore, SwitchKeeps
  <2>6. ASSUME NEW t \in Threads, Insert(t) PROVE AckInv'
    BY <2>2, <2>6, InsertKeeps
  <2>7. CASE BackgroundIs /\ Installs
    BY <1>3, <2>1, <2>7, InstallsKeeps DEF Installs
  <2>8. CASE KeepsStore
    BY <1>3, <2>1, <2>8 DEF KeepsStore
  <2> QED
    BY <1>5, <2>3, <2>4, <2>5, <2>6, <2>7, <2>8 DEF StoreSteps
<1> QED
  BY <1>4, <1>5

-----------------------------------------------------------------------------
(* The invariant.                                                          *)

Inv ==
    /\ TypeInv /\ QueueInv /\ GroupInv /\ UnsyncedInv /\ StoreInv /\ RefInv /\ ReadInv
    /\ LateInv /\ AckInv /\ WorkInv /\ LevelInv /\ CountInv

\* The invariant holds of the database that was just opened,
LEMMA Initially ==
    ASSUME Parameters, Init PROVE Inv
<1>1. TypeInv
  BY TypeInit
<1>2. \A t \in Threads : thread[t].pc = "idle" /\ thread[t].asleep = "no" /\ ~thread[t].late /\ thread[t].calls = 0
  BY DEF Init
<1>3. /\ queue = <<>> /\ acked = {} /\ failures = 0
      /\ db.mem = 1 /\ db.imm = None /\ db.contents = <<{}>> /\ db.refs = <<1>> /\ db.tables = {}
      /\ db.lastSequence = 0 /\ db.unsynced = {} /\ db.level0 = 0 /\ db.seek = FALSE
      /\ bg.pc = "idle" /\ bg.error = FALSE /\ bg.manual = None /\ bg.picked = 0 /\ bg.shutdown = FALSE
  BY DEF Init
<1>4. QueueInv
  <2>1. \A t \in Threads : thread[t].pc \notin InQueue /\ thread[t].pc \notin Writing
    BY <1>2 DEF InQueue, Writing, Busy
  <2>2. \A t \in Threads : thread[t].asleep # "own" /\ thread[t].asleep # "bg"
    BY <1>2
  <2>3. DOMAIN queue = {}
    BY <1>3
  <2> QED
    BY <2>1, <2>2, <2>3 DEF QueueInv
<1>5. GroupInv /\ UnsyncedInv
  BY <1>2, <1>3 DEF GroupInv, UnsyncedInv, Busy
<1>6. DOMAIN db.contents = {1} /\ Len(db.contents) = 1 /\ db.contents[1] = {} /\ DOMAIN db.refs = {1} /\ db.refs[1] = 1
  BY <1>3
<1>7. None # 1
  BY DEF Parameters
<1>8. StoreInv
  <2>1. \A s : ~Arrived(s)
    BY <1>2 DEF Arrived, Inserts
  <2> QED
    BY <1>3, <1>6, <1>7, <2>1 DEF StoreInv
<1>9. RefInv
  <2>1. ReadersOf(1) = {} /\ Own(1) = 1
    BY <1>2, <1>3 DEF ReadersOf, Own
  <2>2. Cardinality(ReadersOf(1)) = 0
    BY <2>1, FS_EmptySet
  <2> QED
    BY <1>6, <2>1, <2>2 DEF RefInv
<1>10. ReadInv
  BY <1>2 DEF ReadInv
<1>11. LateInv /\ AckInv
  BY <1>2, <1>3 DEF LateInv, AckInv
<1>12. WorkInv
  <2>1. ~Work
    BY <1>3 DEF Work, NeedsCompaction, Parameters
  <2> QED
    BY <1>2, <1>3, <2>1 DEF WorkInv
<1>13. LevelInv
  BY <1>3 DEF LevelInv, Parameters
<1>14. CountInv
  BY <1>2, <1>3 DEF CountInv, Parameters
<1> QED
  BY <1>1, <1>4, <1>5, <1>8, <1>9, <1>10, <1>11, <1>12, <1>13, <1>14 DEF Inv

\* and every step keeps it.
LEMMA Stepwise ==
    ASSUME Parameters, Inv, [Next]_vars PROVE Inv'
<1>1. /\ TypeInv /\ QueueInv /\ GroupInv /\ UnsyncedInv /\ StoreInv /\ RefInv /\ ReadInv
      /\ LateInv /\ AckInv /\ WorkInv /\ LevelInv /\ CountInv
  BY DEF Inv
<1>2. Steps /\ WorkSteps
  BY <1>1, NextSteps, NextWorkSteps
<1>3. TypeInv'
  BY <1>1, <1>2, TypeStep
<1>4. QueueInv' /\ GroupInv' /\ UnsyncedInv' /\ LateInv' /\ WorkInv' /\ LevelInv' /\ CountInv'
  BY <1>1, <1>2, QueueStep, GroupStep, UnsyncedStep, LateStep, WorkStep, LevelStep, CountStep
<1>5. StoreSteps
  BY <1>1, <1>2, StepsStore
<1>6. StoreInv' /\ RefInv' /\ ReadInv' /\ AckInv'
  BY <1>1, <1>3, <1>5, StoreStep, RefStep, ReadStep, AckStep
<1> QED
  BY <1>3, <1>4, <1>6 DEF Inv

\* The invariant, of every state.
THEOREM Always ==
    ASSUME Parameters PROVE Spec => []Inv
<1>1. Init => Inv
  BY Initially
<1>2. Inv /\ [Next]_vars => Inv'
  BY Stepwise
<1> QED
  BY <1>1, <1>2, PTL DEF Spec

\* The variables have their types; in particular a memtable has at most one
\* reference of the store and one of each reader, and never a negative number
\* of them.
THEOREM TypeCorrect ==
    ASSUME Parameters PROVE Spec => []TypeOK
<1>1. Inv => TypeOK
  <2> SUFFICES ASSUME Inv PROVE TypeOK
    OBVIOUS
  <2>1. TypeInv /\ RefInv /\ LevelInv /\ CountInv
    BY DEF Inv
  <2>2. \A t \in Threads : thread[t] \in ThreadState
    BY <2>1 DEF TypeInv
  <2>3. \A t \in Threads : thread[t].pc \in PCs /\ thread[t].asleep \in {"no", "own", "bg"} /\ thread[t].calls \in Nat
    BY <2>2 DEF ThreadState
  <2>4. \A t \in Threads : thread[t].calls \in 0..MaxCalls[t]
    BY <2>1, <2>3 DEF CountInv, Parameters
  <2>5. ToSet(queue) \subseteq Threads
    <3>1. queue \in Seq(Threads)
      BY <2>1 DEF TypeInv
    <3> QED
      BY <3>1, LengthIs DEF ToSet
  <2>6. \A m \in DOMAIN db.refs : db.refs[m] \in 0..(1 + Cardinality({t \in Threads : thread[t].pc = "reading"}))
    <3> SUFFICES ASSUME NEW m \in DOMAIN db.refs
                 PROVE  db.refs[m] \in 0..(1 + Cardinality({t \in Threads : thread[t].pc = "reading"}))
      OBVIOUS
    <3> DEFINE reading == {t \in Threads : thread[t].pc = "reading"}
    <3>1. IsFiniteSet(Threads) /\ reading \in SUBSET Threads /\ ReadersOf(m) \in SUBSET reading
      BY DEF Parameters, ReadersOf
    <3>2. IsFiniteSet(reading)
      BY <3>1, FS_Subset
    <3>3. Cardinality(reading) \in Nat
      BY <3>2, FS_CardinalityType
    <3>4. Cardinality(ReadersOf(m)) <= Cardinality(reading)
      BY <3>1, <3>2, FS_Subset
    <3>5. Cardinality(ReadersOf(m)) \in Nat
      BY ReadersFinite
    <3>6. db.refs[m] = Cardinality(ReadersOf(m)) + Own(m) /\ Own(m) \in {0, 1}
      BY <2>1 DEF RefInv, Own
    <3> HIDE DEF reading
    <3>7. db.refs[m] \in 0..(1 + Cardinality(reading))
      BY <3>3, <3>4, <3>5, <3>6
    <3> QED
      BY <3>7 DEF reading
  <2>7. /\ mutex \in Threads \cup {None} /\ db.mem \in DOMAIN db.contents
        /\ db.imm \in DOMAIN db.contents \cup {None} /\ DOMAIN db.refs = DOMAIN db.contents
    BY <2>1 DEF TypeInv
  <2>8. db.level0 \in 0..L0Stop
    BY <2>1 DEF LevelInv
  <2>9. bg.manual \in Threads \cup {None}
    BY <2>1 DEF TypeInv, BgState
  <2>10. failures \in 0..MaxFailures
    BY <2>1 DEF TypeInv, CountInv, Parameters
  <2> QED
    BY <2>3, <2>4, <2>5, <2>6, <2>7, <2>8, <2>9, <2>10 DEF TypeOK, PCs
<1> QED
  BY <1>1, Always, PTL

\* A Get finds what was committed when it took its snapshot, although memtables
\* are switched, written to tables and given up under it.
THEOREM SnapshotIsRead ==
    ASSUME Parameters PROVE Spec => []ReadsItsSnapshot
<1>1. Inv => ReadsItsSnapshot
  BY DEF Inv, ReadInv, SeesSnapshot, ReadsItsSnapshot
<1> QED
  BY <1>1, Always, PTL

\* What returned OK is there for the next reader, and is synced if it was a sync
\* write, whoever of its group wrote it; one thread at a time writes, and no write
\* that began after a background error returns OK.
THEOREM AckedIsKept ==
    ASSUME Parameters PROVE Spec => []AckedWritesAreKept
<1>1. Inv => AcksAreKept /\ FutureWritesFail
  BY DEF Inv, AckInv, AcksAreKept, FutureWritesFail
<1>2. Inv => OneThreadWrites
  BY DEF Inv, QueueInv, OneThreadWrites, Writing, Busy
<1>3. Inv => AckedWritesAreKept
  BY <1>1, <1>2 DEF AckedWritesAreKept
<1> QED
  BY <1>3, Always, PTL

\* What readers can see changes in one kind of step only, the end of a group,
\* and grows there by all of its entries.
THEOREM GroupsAreWhole ==
    ASSUME Parameters PROVE Spec => StoreGrowsByGroups
<1>1. Inv /\ [Next]_vars =>
          [\/ Visible' = Visible
           \/ group.todo = <<>> /\ Visible' = Visible \cup ((db.lastSequence + 1) .. group.last)]_vars
  <2> SUFFICES ASSUME Inv, [Next]_vars
               PROVE  \/ Visible' = Visible
                      \/ group.todo = <<>> /\ Visible' = Visible \cup ((db.lastSequence + 1) .. group.last)
    OBVIOUS
  <2>1. TypeInv /\ QueueInv /\ GroupInv /\ StoreInv /\ RefInv /\ LevelInv
    BY DEF Inv
  <2>2. TypeInv'
    BY Stepwise DEF Inv
  <2>3. StoreSteps
    BY <2>1, NextSteps, StepsStore
  <2>4. Visible' = Visible \/ \E t \in Threads : Commit(t)
    BY <2>1, <2>2, <2>3, VisibleStep
  <2>5. ASSUME NEW t \in Threads, Commit(t)
        PROVE  IF group.ok THEN group.todo = <<>> /\ Visible' = Visible \cup ((db.lastSequence + 1) .. group.last)
               ELSE Visible' = Visible
    BY <2>1, <2>2, <2>5, VisibleCommit
  <2> QED
    BY <2>4, <2>5
<1> QED
  BY <1>1, Always, PTL DEF Spec, StoreGrowsByGroups

-----------------------------------------------------------------------------
(* The request of a manual compaction, when nothing fails.                 *)

\* What the background thread does to it: it is done with it, or it keeps it.
BgRequest ==
    /\ ~bg'.crashed /\ bg'.shutdown = bg.shutdown /\ (bg'.error => bg.shutdown)
    /\ \/ bg'.manual = None /\ ~bg'.isManual
       \/ bg'.manual = bg.manual /\ bg'.done = bg.done /\ (bg'.isManual => bg.manual # None)

\* The record of a background thread that has not lost a request.
Sound(b) == b \in BgState /\ ~b.crashed /\ b.shutdown = bg.shutdown /\ (b.error => bg.shutdown)

\* A call that ends is done with the request, or keeps it;
LEMMA RequestEnds ==
    ASSUME NEW b, Sound(b), b.manual = None \/ (b.manual = bg.manual /\ b.done = bg.done), NEW d, EndCall(b, d)
    PROVE  BgRequest
<1> DEFINE c == [b EXCEPT !.pc = "idle", !.isManual = FALSE, !.inCompaction = FALSE, !.picked = 0]
<1>1. c \in BgState
  <2>1. b \in BgState
    BY DEF Sound
  <2>2. c = [f \in DOMAIN b |-> c[f]]
    BY <2>1 DEF BgState
  <2>3. /\ c.pc = "idle" /\ c.isManual = FALSE /\ c.inCompaction = FALSE /\ c.picked = 0
        /\ c.error = b.error /\ c.manual = b.manual /\ c.done = b.done /\ c.left = b.left
        /\ c.shutdown = b.shutdown /\ c.crashed = b.crashed
    BY <2>1 DEF BgState
  <2>4. /\ b.error \in BOOLEAN /\ b.manual \in Threads \cup {None} /\ b.done \in SUBSET Threads
        /\ b.left \in [Threads -> Int] /\ b.shutdown \in BOOLEAN /\ b.crashed \in BOOLEAN
    BY <2>1 DEF BgState
  <2> HIDE DEF c
  <2>5. c.error \in BOOLEAN /\ c.shutdown \in BOOLEAN /\ c.crashed \in BOOLEAN
    BY <2>3, <2>4
  <2>6. c.manual \in Threads \cup {None} /\ c.done \in SUBSET Threads /\ c.left \in [Threads -> Int]
    BY <2>3, <2>4
  <2>7. c.isManual \in BOOLEAN /\ c.inCompaction \in BOOLEAN
    BY <2>3
  <2>8. c.pc \in BgPCs /\ c.picked \in Int
    BY <2>3 DEF BgPCs
  <2> QED
    BY <2>1, <2>2, <2>5, <2>6, <2>7, <2>8, BgStateFrom
<1>2. /\ c.manual = b.manual /\ c.done = b.done /\ c.error = b.error /\ c.shutdown = b.shutdown
      /\ c.crashed = b.crashed /\ c.isManual = FALSE
  BY DEF Sound, BgState
<1>3. bg' = MaybeScheduleCompaction(c, d)
  BY DEF EndCall
<1> HIDE DEF c
<1>4. /\ bg'.manual = b.manual /\ bg'.done = b.done /\ bg'.error = b.error /\ bg'.shutdown = b.shutdown
      /\ bg'.crashed = b.crashed /\ bg'.isManual = FALSE
  BY <1>1, <1>2, <1>3, ScheduleIs
<1> QED
  BY <1>4 DEF BgRequest, Sound

\* one that goes on keeps it;
LEMMA RequestGoes ==
    ASSUME NEW b, Sound(b), b.manual = bg.manual, b.done = bg.done, b.isManual => bg.manual # None,
           NEW d, BgGoes(b, d)
    PROVE  BgRequest
BY DEF BgGoes, BgRequest, Sound

\* and so of the end of a compaction.
LEMMA RequestCompacts ==
    ASSUME NEW b, Sound(b), b.manual = bg.manual, b.done = bg.done, b.isManual => bg.manual # None,
           NEW d, NEW ok, EndCompaction(b, d, ok)
    PROVE  BgRequest
<1>1. CASE ~b.isManual
  BY <1>1, RequestEnds DEF EndCompaction
<1>2. CASE b.isManual
  <2> DEFINE c == [b EXCEPT !.manual = None, !.done = IF ok THEN @ ELSE @ \cup {b.manual}]
  <2>1. b.manual # None
    BY <1>2
  <2>2. EndCall(c, d)
    BY <1>2, <2>1 DEF EndCompaction
  <2>3. Sound(c) /\ c.manual = None
    <3>1. b \in BgState /\ b.manual \in Threads
      BY <2>1 DEF Sound, BgState
    <3>2. c \in BgState /\ c.manual = None
      BY <3>1 DEF BgState
    <3>3. c.crashed = b.crashed /\ c.shutdown = b.shutdown /\ c.error = b.error
      BY <3>1 DEF BgState
    <3> HIDE DEF c
    <3> QED
      BY <3>2, <3>3 DEF Sound
  <2> HIDE DEF c
  <2> QED
    BY <2>2, <2>3, RequestEnds
<1> QED
  BY <1>1, <1>2

\* What may fail has succeeded, if nothing is counted.
LEMMA NothingFails ==
    ASSUME failures = 0, failures' = 0, NEW ok \in BOOLEAN, Outcome(ok) PROVE ok
BY DEF Outcome

\* No step of the background thread loses the request, if it does not fail.
LEMMA RequestBackground ==
    ASSUME Parameters, TypeInv, WorkInv, RequestInv, failures' = 0, Background PROVE BgRequest
<1>0. /\ bg \in BgState /\ failures = 0 /\ ~bg.crashed /\ (bg.error => bg.shutdown) /\ (bg.isManual => bg.manual # None)
      /\ Sound(bg)
  BY DEF TypeInv, RequestInv, Sound
<1>1. CASE BgIdle
  BY <1>0, <1>1, RequestEnds DEF BgIdle
<1>2. CASE BgMemTable
  <2> DEFINE b == [bg EXCEPT !.pc = "memtable", !.inCompaction = (bg.pc = "compacting")]
  <2>1. BgGoes(b, db) /\ failures' = failures
    BY <1>2 DEF BgMemTable
  <2>2. /\ b \in BgState /\ b.crashed = bg.crashed /\ b.shutdown = bg.shutdown /\ b.error = bg.error
        /\ b.manual = bg.manual /\ b.done = bg.done /\ b.isManual = bg.isManual
    BY <1>0 DEF BgState, BgPCs
  <2> HIDE DEF b
  <2>3. Sound(b)
    BY <1>0, <2>2 DEF Sound
  <2> QED
    BY <1>0, <2>1, <2>2, <2>3, RequestGoes
<1>3. CASE BgManualDone
  <2> DEFINE b == [bg EXCEPT !.done = @ \cup {bg.manual}, !.manual = None]
  <2>1. EndCall(b, db) /\ bg.manual # None /\ failures' = failures
    BY <1>3 DEF BgManualDone
  <2>2. bg.manual \in Threads
    BY <1>0, <2>1 DEF BgState
  <2>3. b \in BgState /\ b.crashed = bg.crashed /\ b.shutdown = bg.shutdown /\ b.error = bg.error /\ b.manual = None
    BY <1>0, <2>2 DEF BgState
  <2> HIDE DEF b
  <2>4. Sound(b)
    BY <1>0, <2>3 DEF Sound
  <2> QED
    BY <1>0, <2>1, <2>3, <2>4, RequestEnds
<1>4. ASSUME NEW n \in 0..db.level0, NEW trivial \in BOOLEAN, BgCompact(n, trivial) PROVE BgRequest
  <2> DEFINE left == [u \in Threads |-> IF u = bg.manual THEN bg.left[u] - 1 ELSE bg.left[u]]
             b == [bg EXCEPT !.pc = IF trivial THEN "manifest" ELSE "compacting",
                             !.isManual = (bg.manual # None), !.picked = n, !.left = left]
  <2>1. BgGoes(b, db) /\ failures' = failures
    BY <1>4 DEF BgCompact
  <2>2. left \in [Threads -> Int] /\ n \in Int
    BY <1>0 DEF BgState
  <2> HIDE DEF left
  <2>3. /\ b = [f \in DOMAIN bg |-> b[f]]
        /\ b.pc \in {"manifest", "compacting"} /\ b.isManual = (bg.manual # None) /\ b.picked = n /\ b.left = left
        /\ b.crashed = bg.crashed /\ b.shutdown = bg.shutdown /\ b.error = bg.error
        /\ b.manual = bg.manual /\ b.done = bg.done /\ b.inCompaction = bg.inCompaction
    BY <1>0 DEF BgState
  <2> HIDE DEF b
  <2>4. /\ bg.error \in BOOLEAN /\ bg.manual \in Threads \cup {None} /\ bg.done \in SUBSET Threads
        /\ bg.inCompaction \in BOOLEAN /\ bg.shutdown \in BOOLEAN /\ bg.crashed \in BOOLEAN
    BY <1>0 DEF BgState
  <2>5. /\ b.pc \in BgPCs /\ b.error \in BOOLEAN /\ b.manual \in Threads \cup {None} /\ b.done \in SUBSET Threads
        /\ b.left \in [Threads -> Int] /\ b.isManual \in BOOLEAN /\ b.inCompaction \in BOOLEAN /\ b.picked \in Int
        /\ b.shutdown \in BOOLEAN /\ b.crashed \in BOOLEAN
    BY <2>2, <2>3, <2>4 DEF BgPCs
  <2>6. b \in BgState
    BY <1>0, <2>3, <2>5, BgStateFrom
  <2>7. Sound(b) /\ (b.isManual => bg.manual # None)
    BY <1>0, <2>3, <2>6 DEF Sound
  <2> QED
    BY <1>0, <2>1, <2>3, <2>7, RequestGoes
<1>5. ASSUME NEW pc \in BgPCs
      PROVE  LET b == [bg EXCEPT !.pc = pc]
             IN  Sound(b) /\ b.manual = bg.manual /\ b.done = bg.done /\ b.isManual = bg.isManual
  BY <1>0 DEF BgState, Sound
<1>6. ASSUME bg.shutdown
      PROVE  LET b == [bg EXCEPT !.error = TRUE]
             IN  Sound(b) /\ b.manual = bg.manual /\ b.done = bg.done /\ b.isManual = bg.isManual
  BY <1>0, <1>6 DEF BgState, Sound
<1>7. ASSUME NEW b, Sound(b), b.manual = bg.manual, b.done = bg.done, b.isManual = bg.isManual,
             NEW d, MemTableEnds(b, d)
      PROVE  BgRequest
  <2>1. CASE bg.inCompaction
    <3> DEFINE c == [b EXCEPT !.pc = "compacting"]
    <3>1. BgGoes(c, d)
      BY <1>7, <2>1 DEF MemTableEnds
    <3>2. Sound(c) /\ c.manual = bg.manual /\ c.done = bg.done /\ (c.isManual => bg.manual # None)
      <4>1. b \in BgState
        BY <1>7 DEF Sound
      <4>2. /\ c \in BgState /\ c.manual = b.manual /\ c.done = b.done /\ c.isManual = b.isManual
            /\ c.crashed = b.crashed /\ c.shutdown = b.shutdown /\ c.error = b.error
        BY <4>1 DEF BgState, BgPCs
      <4> HIDE DEF c
      <4> QED
        BY <1>0, <1>7, <4>2 DEF Sound
    <3> HIDE DEF c
    <3> QED
      BY <3>1, <3>2, RequestGoes
  <2>2. CASE ~bg.inCompaction
    BY <1>7, <2>2, RequestEnds DEF MemTableEnds
  <2> QED
    BY <2>1, <2>2
<1>8. ASSUME NEW ok \in BOOLEAN, BgMemTableBuilt(ok) PROVE BgRequest
  <2>1. ok /\ failures' = 0
    BY <1>0, <1>8, NothingFails DEF BgMemTableBuilt
  <2>2. CASE ~bg.shutdown
    <3>1. BgGoes([bg EXCEPT !.pc = "memtable manifest"], db)
      BY <1>8, <2>1, <2>2 DEF BgMemTableBuilt
    <3> QED
      BY <1>0, <1>5, <2>1, <3>1, RequestGoes DEF BgPCs
  <2>3. CASE bg.shutdown
    <3>1. MemTableEnds([bg EXCEPT !.error = TRUE], db)
      BY <1>8, <2>3 DEF BgMemTableBuilt
    <3> QED
      BY <1>6, <1>7, <2>1, <2>3, <3>1
  <2> QED
    BY <2>2, <2>3
<1>9. ASSUME NEW ok \in BOOLEAN, BgCompacted(ok) PROVE BgRequest
  <2>1. ok /\ failures' = 0
    BY <1>0, <1>9, NothingFails DEF BgCompacted
  <2>2. CASE ~bg.shutdown
    <3>1. BgGoes([bg EXCEPT !.pc = "manifest"], db)
      BY <1>9, <2>1, <2>2 DEF BgCompacted
    <3> QED
      BY <1>0, <1>5, <2>1, <3>1, RequestGoes DEF BgPCs
  <2>3. CASE bg.shutdown
    <3>1. EndCompaction([bg EXCEPT !.error = TRUE], db, FALSE)
      BY <1>9, <2>3 DEF BgCompacted
    <3> QED
      BY <1>0, <1>6, <2>1, <2>3, <3>1, RequestCompacts
  <2> QED
    BY <2>2, <2>3
<1>10. ASSUME NEW ok \in BOOLEAN, NEW due \in BOOLEAN, BgInstalled(ok, due) PROVE BgRequest
  <2>1. ok /\ failures' = 0
    BY <1>0, <1>10, NothingFails DEF BgInstalled
  <2>2. EndCompaction(bg, [db EXCEPT !.level0 = @ - bg.picked, !.seek = due], TRUE)
    BY <1>10, <2>1 DEF BgInstalled
  <2> QED
    BY <1>0, <2>1, <2>2, RequestCompacts
<1>11. ASSUME NEW ok \in BOOLEAN, NEW due \in BOOLEAN, NEW files \in {0, 1}, BgMemTableInstalled(ok, files, due)
       PROVE  BgRequest
  <2>1. ok /\ failures' = 0
    BY <1>0, <1>11, NothingFails DEF BgMemTableInstalled
  <2>2. PICK d : MemTableEnds(bg, d)
    BY <1>11, <2>1 DEF BgMemTableInstalled
  <2> QED
    BY <1>0, <1>7, <2>1, <2>2
<1> QED
  BY <1>0, <1>1, <1>2, <1>3, <1>4, <1>8, <1>9, <1>10, <1>11 DEF Background

\* A step that leaves the request alone.
LEMMA RequestKept ==
    ASSUME TypeInv, RequestInv, failures' = 0, bg'.crashed = bg.crashed, bg'.error => bg.error,
           bg.shutdown => bg'.shutdown, bg'.manual = bg.manual, bg'.done \subseteq bg.done, bg'.isManual = bg.isManual,
           bg.manual # None => thread'[bg.manual].pc = "manual",
           \A u \in Threads : thread'[u].pc # "sync failed"
    PROVE  RequestInv'
BY DEF RequestInv

\* A step of a thread that does not touch the request.
BgKept ==
    /\ bg'.crashed = bg.crashed /\ bg'.error = bg.error /\ bg'.shutdown = bg.shutdown
    /\ bg'.manual = bg.manual /\ bg'.done = bg.done /\ bg'.isManual = bg.isManual

\* To schedule the background thread is such a step.
LEMMA RequestScheduled ==
    ASSUME TypeInv, NEW d, bg' = MaybeScheduleCompaction(bg, d) PROVE BgKept
<1>1. bg \in BgState
  BY DEF TypeInv
<1> QED
  BY <1>1, ScheduleIs DEF BgKept

\* A thread that is not in a manual compaction goes on.
LEMMA RequestStepOf ==
    ASSUME TypeInv, RequestInv, NEW t \in Threads, thread[t].pc # "manual", NEW p, NEW a, StepOf(t, p, a),
           p # "sync failed", failures' = 0, BgKept
    PROVE  RequestInv'
<1>1. /\ bg'.crashed = bg.crashed /\ bg'.error = bg.error /\ bg'.shutdown = bg.shutdown
      /\ bg'.manual = bg.manual /\ bg'.done = bg.done /\ bg'.isManual = bg.isManual
  BY DEF BgKept
<1>2. bg.manual \in Threads \cup {None}
  BY DEF TypeInv, BgState
<1>3. bg.manual # None => thread'[bg.manual].pc = "manual"
  BY <1>2 DEF StepOf, RequestInv
<1>4. \A u \in Threads : thread'[u].pc # "sync failed"
  BY DEF StepOf, RequestInv
<1> QED
  BY <1>1, <1>3, <1>4, RequestKept

\* Writers leave: they are not in a manual compaction.
LEMMA RequestLeave ==
    ASSUME TypeInv, QueueInv, RequestInv, NEW n \in 1..Len(queue), LeaveOf(n), failures' = 0,
           bg'.crashed = bg.crashed, bg'.error => bg.error, bg'.shutdown = bg.shutdown,
           bg'.manual = bg.manual, bg'.done = bg.done, bg'.isManual = bg.isManual
    PROVE  RequestInv'
<1>1. \A u \in Threads : thread'[u].pc # "sync failed"
  BY DEF LeaveOf, RequestInv
<1>2. bg.manual # None => thread'[bg.manual].pc = "manual"
  <2> SUFFICES ASSUME bg.manual # None PROVE thread'[bg.manual].pc = "manual"
    OBVIOUS
  <2>1. bg.manual \in Threads
    BY DEF TypeInv, BgState
  <2>2. thread[bg.manual].pc = "manual"
    BY DEF RequestInv
  <2>3. ~ \E i \in 1..n : queue[i] = bg.manual
    <3>1. ~ \E i \in DOMAIN queue : queue[i] = bg.manual
      BY <2>1, <2>2 DEF QueueInv, InQueue, Writing, Busy
    <3>2. queue \in Seq(Threads)
      BY DEF TypeInv
    <3>3. \A i \in 1..n : i \in DOMAIN queue
      BY <3>2
    <3> QED
      BY <3>1, <3>3
  <2> QED
    BY <2>1, <2>2, <2>3 DEF LeaveOf
<1> QED
  BY <1>1, <1>2, RequestKept

\* A request that is made stays; who returns has no request any more.
LEMMA RequestManual ==
    ASSUME Parameters, TypeInv, WorkInv, RequestInv, NEW t \in Threads, AwaitManual(t) \/ ManualReturns(t)
    PROVE  RequestInv'
<1>0. bg \in BgState /\ thread[t].pc = "manual" /\ t # None /\ ~bg.shutdown
  <2>1. thread[t].pc = "manual"
    BY DEF AwaitManual, ManualReturns
  <2> QED
    BY <2>1, InUse DEF TypeInv, Parameters
<1>1. CASE AwaitManual(t)
  <2>1. /\ failures' = failures /\ t \notin bg.done
        /\ bg' = IF bg.manual = None THEN MaybeScheduleCompaction([bg EXCEPT !.manual = t], db) ELSE bg
    BY <1>1 DEF AwaitManual
  <2>2. StepOf(t, "manual", "bg")
    BY <1>0, <1>1, AwaitManualIs
  <2>3. \A u \in Threads : thread'[u].pc = thread[u].pc
    BY <1>0, <2>2 DEF StepOf
  <2>4. CASE bg.manual # None
    <3>1. bg' = bg /\ bg.manual \in Threads
      BY <1>0, <2>1, <2>4 DEF BgState
    <3> QED
      BY <2>1, <2>3, <3>1 DEF RequestInv
  <2>5. CASE bg.manual = None
    <3> DEFINE b == [bg EXCEPT !.manual = t]
    <3>1. /\ b \in BgState /\ b.manual = t /\ b.error = bg.error /\ b.shutdown = bg.shutdown /\ b.done = bg.done
          /\ b.isManual = bg.isManual /\ b.crashed = bg.crashed
      BY <1>0 DEF BgState
    <3>2. bg' = MaybeScheduleCompaction(b, db)
      BY <2>1, <2>5
    <3> HIDE DEF b
    <3>3. /\ bg'.manual = t /\ bg'.error = bg.error /\ bg'.shutdown = bg.shutdown /\ bg'.done = bg.done
          /\ bg'.isManual = bg.isManual /\ bg'.crashed = bg.crashed
      BY <3>1, <3>2, ScheduleIs
    <3> QED
      BY <1>0, <2>1, <2>3, <3>3 DEF RequestInv
  <2> QED
    BY <2>4, <2>5
<1>2. CASE ManualReturns(t)
  <2>1. /\ failures' = failures /\ (t \in bg.done \/ bg.shutdown \/ bg.error)
        /\ bg' = [bg EXCEPT !.manual = Cancel(t), !.done = @ \ {t}, !.left[t] = Pieces]
    BY <1>2 DEF ManualReturns
  <2>2. bg.manual # t
    BY <1>0, <2>1 DEF RequestInv
  <2>3. /\ bg'.manual = bg.manual /\ bg'.done \subseteq bg.done /\ bg'.error = bg.error /\ bg'.shutdown = bg.shutdown
        /\ bg'.isManual = bg.isManual /\ bg'.crashed = bg.crashed
    BY <1>0, <2>1, <2>2 DEF BgState, Cancel
  <2>4. StepOf(t, "idle", thread[t].asleep)
    BY <1>2, ManualReturnsIs
  <2>5. bg.manual # None => thread'[bg.manual].pc = "manual"
    BY <1>0, <2>2, <2>4 DEF StepOf, RequestInv, BgState
  <2>6. \A u \in Threads : thread'[u].pc # "sync failed"
    BY <2>4 DEF StepOf, RequestInv
  <2>7. failures' = 0
    BY <2>1 DEF RequestInv
  <2> QED
    BY <2>3, <2>5, <2>6, <2>7, RequestKept
<1> QED
  BY <1>1, <1>2

\* No step of a thread loses the request: who made it waits until it is done.
LEMMA RequestThread ==
    ASSUME Parameters, Inv, RequestInv, failures' = 0, NEW t \in Threads, Thread(t) PROVE RequestInv'
<1>0. /\ TypeInv /\ QueueInv /\ GroupInv /\ WorkInv /\ failures = 0 /\ failures \in Nat
      /\ thread[t].pc # "sync failed"
  BY DEF Inv, TypeInv, RequestInv
<1>1. ASSUME NEW wasted \in BOOLEAN, GetReturns(t, wasted) PROVE RequestInv'
  <2>1. (bg' = bg \/ bg' = MaybeScheduleCompaction(bg, db')) /\ failures' = 0
    BY <1>0, <1>1 DEF GetReturns
  <2>2. BgKept
    <3>1. CASE bg' = bg
      BY <3>1 DEF BgKept
    <3>2. CASE bg' = MaybeScheduleCompaction(bg, db')
      <4>1. PICK d : d = db'
        OBVIOUS
      <4>2. bg' = MaybeScheduleCompaction(bg, d)
        BY <3>2, <4>1
      <4> QED
        BY <1>0, <4>2, RequestScheduled
    <3> QED
      BY <2>1, <3>1, <3>2
  <2>6. /\ bg'.crashed = bg.crashed /\ bg'.error = bg.error /\ bg'.shutdown = bg.shutdown
        /\ bg'.manual = bg.manual /\ bg'.done = bg.done /\ bg'.isManual = bg.isManual
    BY <2>2 DEF BgKept
  <2>3. thread[t].pc = "reading" /\ thread'[t].pc = "idle" /\ \A u \in Threads \ {t} : thread'[u] = thread[u]
    BY <1>0, <1>1, GetReturnsIs
  <2>4. bg.manual # None => thread'[bg.manual].pc = "manual"
    BY <1>0, <2>3 DEF TypeInv, BgState, RequestInv
  <2>5. \A u \in Threads : thread'[u].pc # "sync failed"
    BY <2>3 DEF RequestInv
  <2> QED
    BY <1>0, <2>1, <2>6, <2>4, <2>5, RequestKept
<1>2. CASE RoomError(t) \/ RoomForNone(t) \/ RoomSwitchFails(t)
  <2>1. LeavesAlone(t)
    BY <1>0, <1>2, LeavesAloneIs
  <2>2. 1 \in 1..Len(queue) /\ LeaveOf(1) /\ bg' = bg /\ failures' = 0
    BY <1>0, <2>1 DEF LeavesAlone, IsFront, TypeInv
  <2> QED
    BY <1>0, <2>2, RequestLeave
<1>3. CASE RoomDelay(t) \/ DelayOver(t) \/ RoomWait(t)
  <2>1. thread[t].pc \in {"queued", "delayed"} /\ bg' = bg /\ failures' = 0
    BY <1>0, <1>3 DEF RoomDelay, DelayOver, RoomWait, Turn, AtFront
  <2>2. PICK p, a : p \in {"queued", "delayed"} /\ StepOf(t, p, a)
    <3>1. CASE RoomDelay(t)
      <4>1. StepOf(t, "delayed", thread[t].asleep)
        BY <1>0, <3>1, RoomDelayIs
      <4> QED
        BY <4>1
    <3>2. CASE DelayOver(t)
      <4>1. StepOf(t, "queued", thread[t].asleep)
        BY <1>0, <3>2, DelayOverIs
      <4> QED
        BY <4>1
    <3>3. CASE RoomWait(t)
      <4>1. StepOf(t, thread[t].pc, "bg")
        BY <1>0, <3>3, RoomWaitIs
      <4> QED
        BY <2>1, <4>1
    <3> QED
      BY <1>3, <3>1, <3>2, <3>3
  <2> QED
    BY <1>0, <2>1, <2>2, RequestStepOf DEF BgKept
<1>4. CASE RoomSwitch(t)
  <2>1. thread[t].pc = "queued" /\ bg' = MaybeScheduleCompaction(bg, db') /\ failures' = 0
    BY <1>0, <1>4 DEF RoomSwitch, Turn, AtFront
  <2>3. BgKept
    <3>1. PICK d : d = db'
      OBVIOUS
    <3>2. bg' = MaybeScheduleCompaction(bg, d)
      BY <2>1, <3>1
    <3> QED
      BY <1>0, <3>2, RequestScheduled
  <2>2. StepOf(t, "queued", thread[t].asleep)
    BY <1>0, <1>4, <2>1, RoomSwitchIs
  <2> QED
    BY <1>0, <2>1, <2>2, <2>3, RequestStepOf
<1>5. CASE StartGroup(t)
  <2>1. thread[t].pc = "queued" /\ bg' = bg /\ failures' = 0
    BY <1>0, <1>5 DEF StartGroup, Turn, AtFront
  <2> QED
    BY <1>0, <1>5, <2>1, StartGroupIs, RequestStepOf DEF BgKept
<1>6. CASE Insert(t)
  <2>1. thread[t].pc = "inserting" /\ bg' = bg /\ failures' = 0
    BY <1>0, <1>6 DEF Insert
  <2>2. PICK p \in {"committing", "inserting"} : StepOf(t, p, thread[t].asleep)
    BY <1>0, <1>6, InsertIs
  <2> QED
    BY <1>0, <2>1, <2>2, RequestStepOf DEF BgKept
<1>7. ASSUME NEW ok \in BOOLEAN, AddRecord(t, ok) PROVE RequestInv'
  <2>1. thread[t].pc = "logging" /\ bg' = bg /\ failures' = 0
    BY <1>0, <1>7, NothingFails DEF AddRecord
  <2>2. PICK p \in {"committing", "syncing", "inserting"} : StepOf(t, p, thread[t].asleep)
    BY <1>0, <1>7, AddRecordIs
  <2> QED
    BY <1>0, <2>1, <2>2, RequestStepOf DEF BgKept
<1>8. ASSUME NEW ok \in BOOLEAN, Sync(t, ok) PROVE RequestInv'
  <2>1. thread[t].pc = "syncing" /\ bg' = bg /\ failures' = 0 /\ ok
    BY <1>0, <1>8, NothingFails DEF Sync
  <2>2. StepOf(t, "inserting", thread[t].asleep)
    BY <1>0, <1>8, <2>1, SyncIs
  <2> QED
    BY <1>0, <2>1, <2>2, RequestStepOf DEF BgKept
<1>9. CASE Commit(t)
  <2>1. LeaveOf(Len(group.members)) /\ GroupOf(t) /\ thread[t].pc \in {"committing", "sync failed"} /\ failures' = failures
    BY <1>0, <1>9, CommitIs
  <2>2. Len(group.members) \in 1..Len(queue)
    BY <1>0, <2>1, GroupIs DEF Busy
  <2>3. /\ bg'.crashed = bg.crashed /\ bg'.shutdown = bg.shutdown
        /\ bg'.manual = bg.manual /\ bg'.done = bg.done /\ bg'.isManual = bg.isManual
    BY <1>0, <1>9, CommitStore
  <2>4. bg'.error => bg.error
    BY <1>0, <1>9, CommitStore
  <2>5. failures' = 0
    BY <1>0, <2>1
  <2> QED
    BY <1>0, <2>1, <2>2, <2>3, <2>4, <2>5, RequestLeave
<1>10. CASE AwaitMemTable(t)
  <2>1. thread[t].pc = "flushing" /\ bg' = bg /\ failures' = 0
    BY <1>0, <1>10 DEF AwaitMemTable
  <2>2. PICK p, a : p \in {"flushing", "manual", "idle"} /\ StepOf(t, p, a)
    BY <1>0, <1>10, <2>1, AwaitMemTableIs
  <2> QED
    BY <1>0, <2>1, <2>2, RequestStepOf DEF BgKept
<1>11. CASE AwaitManual(t) \/ ManualReturns(t)
  BY <1>0, <1>11, RequestManual
<1> QED
  BY <1>1, <1>2, <1>3, <1>4, <1>5, <1>6, <1>7, <1>8, <1>9, <1>10, <1>11 DEF Thread, MakeRoomForWrite

\* RequestInv is kept.
LEMMA RequestStep ==
    ASSUME Parameters, Inv, RequestInv, failures' = 0, [Next]_vars PROVE RequestInv'
<1>0. TypeInv /\ QueueInv /\ LevelInv /\ WorkInv /\ failures = 0 /\ bg \in BgState /\ thread \in [Threads -> ThreadState]
  BY DEF Inv, TypeInv, RequestInv
<1>1. ASSUME NEW t \in Threads, Thread(t) PROVE RequestInv'
  BY <1>1, RequestThread
<1>2. ASSUME NEW t \in Threads, NEW o \in Calls[t], Write(t, o) \/ Get(t, o) PROVE RequestInv'
  <2>1. thread[t].pc = "idle" /\ bg' = bg /\ failures' = 0
    BY <1>0, <1>2 DEF Write, Get, CanCall
  <2>2. thread'[t].pc \in {"queued", "reading"} /\ \A u \in Threads \ {t} : thread'[u] = thread[u]
    <3>1. CASE Write(t, o)
      <4>1. thread[t] \in ThreadState
        BY <1>0
      <4> QED
        BY <1>0, <3>1, <4>1 DEF Write, ThreadState
    <3>2. CASE Get(t, o)
      BY <1>0, <3>2, GetIs
    <3> QED
      BY <1>2, <3>1, <3>2
  <2>3. bg.manual # None => thread'[bg.manual].pc = "manual"
    BY <1>0, <2>1, <2>2 DEF BgState, RequestInv
  <2>4. \A u \in Threads : thread'[u].pc # "sync failed"
    BY <2>2 DEF RequestInv
  <2> QED
    BY <1>0, <2>1, <2>3, <2>4, RequestKept
<1>3. CASE Background
  <2>1. BgRequest /\ failures' = 0
    BY <1>0, <1>3, RequestBackground
  <2>2. thread' \in {thread, SignalAll(thread)}
    BY <1>0, <1>3, BackgroundEffect DEF BackgroundIs
  <2>3. \A u \in Threads : thread'[u].pc = thread[u].pc
    BY <1>0, <2>2, SignalAllIs
  <2>4. bg.manual \in Threads \cup {None}
    BY <1>0 DEF BgState
  <2> QED
    BY <2>1, <2>3, <2>4 DEF BgRequest, RequestInv
<1>4. CASE Destruct
  <2>1. bg' = [bg EXCEPT !.shutdown = TRUE] /\ thread' = thread /\ failures' = failures
    BY <1>4 DEF Destruct
  <2>2. /\ bg'.crashed = bg.crashed /\ bg'.error = bg.error /\ bg'.shutdown
        /\ bg'.manual = bg.manual /\ bg'.done = bg.done /\ bg'.isManual = bg.isManual
    BY <1>0, <2>1 DEF BgState
  <2> QED
    BY <2>1, <2>2 DEF RequestInv
<1>5. CASE UNCHANGED vars
  BY <1>5 DEF vars, RequestInv
<1> QED
  BY <1>1, <1>2, <1>3, <1>4, <1>5 DEF Next

\* A failure is never forgotten.
LEMMA FailuresGrow ==
    ASSUME failures \in Nat, [Next]_vars PROVE failures' >= failures
<1>1. ASSUME NEW ok \in BOOLEAN, Outcome(ok) PROVE failures' >= failures
  BY <1>1 DEF Outcome
<1>2. ASSUME NEW t \in Threads, Thread(t) PROVE failures' >= failures
  <2>1. ASSUME NEW wasted \in BOOLEAN, GetReturns(t, wasted) PROVE failures' = failures
    BY <2>1 DEF GetReturns
  <2>2. ASSUME NEW ok \in BOOLEAN, AddRecord(t, ok) \/ Sync(t, ok) PROVE failures' >= failures
    <3>1. Outcome(ok)
      BY <2>2 DEF AddRecord, Sync
    <3> QED
      BY <1>1, <3>1
  <2>3. CASE MakeRoomForWrite(t)
    <3>1. CASE RoomSwitchFails(t)
      <4>1. Outcome(FALSE)
        BY <3>1 DEF RoomSwitchFails
      <4> QED
        BY <1>1, <4>1
    <3>2. RoomError(t) \/ RoomDelay(t) => failures' = failures
      BY DEF RoomError, RoomDelay
    <3>3. DelayOver(t) \/ RoomForNone(t) => failures' = failures
      BY DEF DelayOver, RoomForNone
    <3>4. RoomWait(t) \/ RoomSwitch(t) => failures' = failures
      BY DEF RoomWait, RoomSwitch
    <3> QED
      BY <2>3, <3>1, <3>2, <3>3, <3>4 DEF MakeRoomForWrite
  <2>4. CASE StartGroup(t) \/ Insert(t) \/ Commit(t)
    <3>1. StartGroup(t) => failures' = failures
      BY DEF StartGroup
    <3>2. Insert(t) => failures' = failures
      BY DEF Insert
    <3>3. Commit(t) => failures' = failures
      BY DEF Commit
    <3> QED
      BY <2>4, <3>1, <3>2, <3>3
  <2>5. CASE AwaitMemTable(t) \/ AwaitManual(t) \/ ManualReturns(t)
    BY <2>5 DEF AwaitMemTable, AwaitManual, ManualReturns
  <2> QED
    BY <1>2, <2>1, <2>2, <2>3, <2>4, <2>5 DEF Thread
<1>3. ASSUME NEW t \in Threads, NEW o \in Calls[t], Write(t, o) \/ Get(t, o) PROVE failures' = failures
  BY <1>3 DEF Write, Get
<1>4. CASE Background
  <2>1. CASE BgIdle \/ BgMemTable \/ BgManualDone
    BY <2>1 DEF BgIdle, BgMemTable, BgManualDone
  <2>2. ASSUME NEW n \in 0..db.level0, NEW trivial \in BOOLEAN, BgCompact(n, trivial) PROVE failures' = failures
    BY <2>2 DEF BgCompact
  <2>3. ASSUME NEW ok \in BOOLEAN, NEW due \in BOOLEAN, BgMemTableBuilt(ok) \/ BgCompacted(ok) \/ BgInstalled(ok, due)
        PROVE  failures' >= failures
    BY <1>1, <2>3 DEF BgMemTableBuilt, BgCompacted, BgInstalled
  <2>4. ASSUME NEW ok \in BOOLEAN, NEW due \in BOOLEAN, NEW files \in {0, 1}, BgMemTableInstalled(ok, files, due)
        PROVE  failures' >= failures
    BY <1>1, <2>4 DEF BgMemTableInstalled
  <2> QED
    BY <1>4, <2>1, <2>2, <2>3, <2>4 DEF Background
<1>5. CASE Destruct \/ UNCHANGED vars
  BY <1>5 DEF Destruct, vars
<1> QED
  BY <1>2, <1>3, <1>4, <1>5 DEF Next

\* Nobody sleeps without somebody who will wake them: a writer that is not at
\* the front of the queue, or a thread that waits for a call of the background
\* thread that is under way.  As long as nothing fails, the background thread also
\* finds the request it works for when it is done with it.
THEOREM NobodySleepsForEver ==
    ASSUME Parameters PROVE Spec => []SleepersAreWoken
<1>1. Inv => SleepersHaveWakers
  <2> SUFFICES ASSUME Inv, NEW t \in Threads
               PROVE  /\ thread[t].asleep = "own" => queue # <<>> /\ t \in ToSet(queue) /\ queue[1] # t
                      /\ thread[t].asleep = "bg" => bg.pc # "idle"
    BY DEF SleepersHaveWakers
  <2>1. QueueInv /\ WorkInv /\ queue \in Seq(Threads)
    BY DEF Inv, TypeInv
  <2>2. thread[t].asleep = "bg" => bg.pc # "idle"
    BY <2>1 DEF WorkInv
  <2>3. ASSUME thread[t].asleep = "own" PROVE queue # <<>> /\ t \in ToSet(queue) /\ queue[1] # t
    <3>1. thread[t].pc = "queued" /\ queue[1] # t
      BY <2>1, <2>3 DEF QueueInv
    <3>2. \E i \in DOMAIN queue : queue[i] = t
      BY <2>1, <3>1 DEF QueueInv, InQueue
    <3> QED
      BY <2>1, <3>1, <3>2 DEF ToSet
  <2> QED
    BY <2>2, <2>3
<1>2. Init => RequestInv
  <2> SUFFICES ASSUME Init PROVE RequestInv
    OBVIOUS
  <2>1. /\ failures = 0 /\ bg.crashed = FALSE /\ bg.error = FALSE /\ bg.manual = None /\ bg.isManual = FALSE
        /\ \A t \in Threads : thread[t].pc = "idle"
    BY DEF Init
  <2> QED
    BY <2>1 DEF RequestInv
<1>3. Inv /\ (failures = 0 => RequestInv) /\ [Next]_vars => (failures = 0 => RequestInv)'
  <2> SUFFICES ASSUME Inv, failures = 0 => RequestInv, [Next]_vars, failures' = 0 PROVE RequestInv'
    OBVIOUS
  <2>1. failures \in Nat
    BY DEF Inv, TypeInv
  <2>2. failures = 0
    BY <2>1, FailuresGrow
  <2> QED
    BY <2>2, RequestStep
<1>4. (failures = 0 => RequestInv) => RequestIsThere
  BY DEF RequestInv, RequestIsThere
<1>5. SleepersHaveWakers /\ RequestIsThere => SleepersAreWoken
  BY DEF SleepersAreWoken
<1> QED
  BY <1>1, <1>2, <1>3, <1>4, <1>5, Always, PTL DEF Spec
=============================================================================
