----------------------------- MODULE DbThreads ------------------------------
(***************************************************************************)
(* The threads of leveldb's DBImpl: callers of Write, Get, CompactRange    *)
(* and the destructor, and the background thread that compacts.  An action *)
(* is what happens between two points where mutex_ is given up.            *)
(***************************************************************************)
EXTENDS Integers, SequencesExt, FiniteSetsExt

CONSTANTS
    Threads,
    Calls,        \* what each thread may call, as a set of records
    MaxCalls,     \* bound: how many calls each thread makes
    MaxFailures,  \* bound: failing reads, writes and syncs
    BatchSize,    \* entries of a batch
    BufferSize,   \* options_.write_buffer_size, in entries
    MaxGroup,     \* batches in a group
    L0Trigger,    \* kL0_CompactionTrigger, kL0_SlowdownWritesTrigger and
    L0Slowdown,   \* kL0_StopWritesTrigger
    L0Stop,
    Pieces,       \* compactions a manual compaction takes
    None

\* A write, a read, TEST_CompactMemTable and CompactRange.
Kinds == {"write", "get", "flush", "range"}

\* What the constants can be.
Parameters ==
    /\ IsFiniteSet(Threads) /\ None \notin Threads /\ None \notin Nat
    /\ Calls \in [Threads -> SUBSET [kind : Kinds, sync : BOOLEAN]]
    /\ MaxCalls \in [Threads -> Nat] /\ MaxFailures \in Nat
    /\ BatchSize \in Nat \ {0} /\ BufferSize \in Nat /\ MaxGroup \in Nat
    /\ L0Trigger \in Nat \ {0} /\ L0Slowdown \in Nat /\ L0Stop \in Nat /\ L0Trigger <= L0Stop
    /\ Pieces \in Nat

VARIABLES
    thread,   \* of each thread: where it is, its call, what it sleeps on
    mutex,    \* who keeps mutex_ from one action to the next
    queue,    \* writers_
    group,    \* the batch group being written
    db,       \* memtables, version, sequence number, files at level 0
    bg,       \* the background thread and what it shares
    failures,
    acked     \* the writes that returned OK

vars == <<thread, mutex, queue, group, db, bg, failures, acked>>

NoGroup == [members |-> <<>>, todo |-> <<>>, last |-> 0, ok |-> TRUE]

NoCall == [kind |-> "none", sync |-> FALSE]

Init ==
    /\ thread = [t \in Threads |-> [pc |-> "idle", op |-> NoCall, asleep |-> "no", calls |-> 0,
                                    allowDelay |-> FALSE, force |-> FALSE, held |-> None,
                                    owed |-> {}, late |-> FALSE]]
    \* held is what a Get has references of; owed are the entries that were in
    \* memtables when the call began, late says that it began after an error.
    /\ mutex = None /\ queue = <<>> /\ group = NoGroup
    \* contents and refs: of each memtable, its entries and its references.
    \* unsynced: the entries whose log record is not synced.  seek: whether a
    \* level below level 0 is to be compacted because of its size, or any file
    \* because reads did not find their keys in it.
    /\ db = [mem |-> 1, imm |-> None, contents |-> <<{}>>, refs |-> <<1>>, tables |-> {},
             lastSequence |-> 0, unsynced |-> {}, level0 |-> 0, seek |-> FALSE]
    \* pc: what the background thread does, "idle" if nothing is scheduled;
    \* isManual, inCompaction and picked are its locals.
    /\ bg = [pc |-> "idle", error |-> FALSE, manual |-> None, done |-> {}, left |-> [t \in Threads |-> Pieces],
             isManual |-> FALSE, inCompaction |-> FALSE, picked |-> 0,
             shutdown |-> FALSE, crashed |-> FALSE]
    /\ failures = 0 /\ acked = {}

-----------------------------------------------------------------------------
Free == mutex = None /\ ~bg.crashed

HasBatch(t) == thread[t].op.kind = "write"

\* Those of some writers that have a batch.
Batches(members) == {i \in DOMAIN members : HasBatch(members[i])}

\* Whether a read, a write or a sync succeeds.
Outcome(ok) ==
    /\ ok \/ failures < MaxFailures
    /\ failures' = IF ok THEN failures ELSE failures + 1

\* Mutant: nobody is woken.
SignalNone(threads) == threads

\* bg_cv_.SignalAll()
SignalAll(threads) ==
    [t \in Threads |-> IF threads[t].asleep = "bg" THEN [threads[t] EXCEPT !.asleep = "no"] ELSE threads[t]]

NeedsCompaction(d) == d.level0 >= L0Trigger \/ d.seek

\* Mutant: whether the store is being deleted is not asked.
ScheduleOnShutdown(b, d) ==
    LET work == d.imm # None \/ b.manual # None \/ NeedsCompaction(d)
    IN  IF b.pc = "idle" /\ ~b.error /\ work THEN [b EXCEPT !.pc = "scheduled"] ELSE b

\* MaybeScheduleCompaction, with the background thread as b and the store as d.
MaybeScheduleCompaction(b, d) ==
    LET work == d.imm # None \/ b.manual # None \/ NeedsCompaction(d)
    IN  IF b.pc = "idle" /\ ~b.shutdown /\ ~b.error /\ work THEN [b EXCEPT !.pc = "scheduled"] ELSE b

\* The store after references were given back: a memtable without any is deleted.
Unref(d, mems) ==
    LET refs == [m \in DOMAIN d.refs |-> IF m \in mems THEN d.refs[m] - 1 ELSE d.refs[m]]
    IN  [d EXCEPT !.refs = refs, !.contents = [m \in DOMAIN refs |-> IF refs[m] = 0 THEN {} ELSE d.contents[m]]]

\* Mutants: a reader takes no references, or two.
RefNone(d, mems) == d
Ref(d, mems) == [d EXCEPT !.refs = [m \in DOMAIN d.refs |-> IF m \in mems THEN d.refs[m] + 1 ELSE d.refs[m]]]

\* What a reader of these memtables and this version finds.
Found(mems, tables) == tables \cup UNION {db.contents[m] : m \in mems}

\* What a Get that starts now will find.
Visible == {s \in Found({db.mem, db.imm} \ {None}, db.tables) : s <= db.lastSequence}

-----------------------------------------------------------------------------
CanCall(t, o) ==
    Free /\ ~bg.shutdown /\ thread[t].pc = "idle" /\ thread[t].calls < MaxCalls[t] /\ o \in Calls[t]

IsFront(q, t) == q # <<>> /\ q[1] = t

\* Write, to where it waits for its turn.  TEST_CompactMemTable ("flush") and
\* CompactRange ("range") begin with a Write of no batch.
Write(t, o) ==
    /\ CanCall(t, o) /\ o.kind # "get"
    /\ queue' = Append(queue, t)
    /\ thread' = [thread EXCEPT ![t] = [@ EXCEPT !.pc = "queued", !.op = o, !.calls = thread[t].calls + 1,
                     !.asleep = IF IsFront(queue', t) THEN "no" ELSE "own",
                     !.allowDelay = (o.kind = "write"), !.force = (o.kind # "write"),
                     !.owed = IF o.kind = "flush" THEN Visible \ db.tables ELSE {}, !.late = bg.error]]
    /\ UNCHANGED <<mutex, group, db, bg, failures, acked>>

\* Get, to where it gives up the mutex: it has taken its snapshot, and a
\* reference of each memtable and of the version.
Get(t, o) ==
    LET mems == {db.mem, db.imm} \ {None}
    IN  /\ CanCall(t, o) /\ o.kind = "get"
        /\ thread' = [thread EXCEPT ![t] = [@ EXCEPT !.pc = "reading", !.op = o, !.calls = thread[t].calls + 1,
                         !.held = [snapshot |-> db.lastSequence, mems |-> mems, tables |-> db.tables,
                                   due |-> {s \in Found(mems, db.tables) : s <= db.lastSequence}]]]
        /\ db' = Ref(db, mems)
        /\ UNCHANGED <<mutex, queue, group, bg, failures, acked>>

\* The end of Get, after its reads, which may be the last that a file is allowed
\* to waste.
GetReturns(t, wasted) ==
    /\ Free /\ thread[t].pc = "reading"
    /\ db' = [Unref(db, thread[t].held.mems) EXCEPT !.seek = @ \/ wasted]
    /\ bg' = IF wasted THEN MaybeScheduleCompaction(bg, db') ELSE bg
    /\ thread' = [thread EXCEPT ![t].pc = "idle", ![t].held = None]
    /\ UNCHANGED <<mutex, queue, group, failures, acked>>

-----------------------------------------------------------------------------
\* Where a call goes when its Write has returned.
After(u, ok) ==
    CASE thread[u].op.kind = "write" -> "idle"
      [] thread[u].op.kind = "flush" -> IF ok THEN "flushing" ELSE "idle"
      [] thread[u].op.kind = "range" -> IF ok THEN "flushing" ELSE "manual"

\* Mutant: the next writer is not woken.
WakesNobody(rest) == {}

\* Whom a leaving group wakes: the new front of the queue.
Wakes(rest) == {rest[i] : i \in DOMAIN rest \cap {1}}

\* The end of Write: the first n writers leave with the same status, and the
\* next one is woken.
Leave(n, ok, threads) ==
    LET members == {queue[i] : i \in 1..n}
        rest == SubSeq(queue, n + 1, Len(queue))
    IN  /\ queue' = rest
        /\ thread' = [u \in Threads |->
              IF u \in members THEN [threads[u] EXCEPT !.pc = After(u, ok), !.asleep = "no"]
              ELSE IF u \in Wakes(rest) /\ threads[u].asleep = "own" THEN [threads[u] EXCEPT !.asleep = "no"]
              ELSE threads[u]]
        /\ mutex' = None

\* Mutant: a sync write may join any group.
GroupOfAll(members) == Len(members)

\* How many of the queue BuildBatchGroup takes.
GroupLength(members) ==
    LET Fits(i) ==
            /\ thread[members[i]].op.sync => thread[members[1]].op.sync
            /\ HasBatch(members[i]) => Cardinality(Batches(members) \cap 1..i) <= MaxGroup
    IN  Max({n \in 1..Len(members) : \A i \in 2..n : Fits(i)})

\* MakeRoomForWrite runs when the front of the queue has the mutex; its cases
\* follow in its order.
AtFront(t) == IsFront(queue, t) /\ thread[t].pc = "queued" /\ thread[t].asleep = "no"
Turn(t) == AtFront(t) /\ ~bg.crashed /\ mutex \in {None, t}
Delays(t) == thread[t].allowDelay /\ db.level0 >= L0Slowdown
HasRoom(t) == ~thread[t].force /\ Cardinality(db.contents[db.mem]) <= BufferSize
MustWait == db.imm # None \/ db.level0 >= L0Stop

\* bg_error_
YieldsError == bg.error

RoomError(t) ==
    /\ Turn(t) /\ YieldsError
    /\ Leave(1, FALSE, thread)
    /\ UNCHANGED <<group, db, bg, failures, acked>>

RoomDelay(t) ==
    /\ Turn(t) /\ ~YieldsError /\ Delays(t)
    /\ thread' = [thread EXCEPT ![t].pc = "delayed", ![t].allowDelay = FALSE]
    /\ mutex' = None
    /\ UNCHANGED <<queue, group, db, bg, failures, acked>>

DelayOver(t) ==
    /\ Free /\ thread[t].pc = "delayed"
    /\ thread' = [thread EXCEPT ![t].pc = "queued"]
    /\ UNCHANGED <<mutex, queue, group, db, bg, failures, acked>>

\* There is room: a batch and those it takes with it get their sequence numbers.
StartGroup(t) ==
    LET members == SubSeq(queue, 1, GroupLength(queue))
        count == BatchSize * Cardinality(Batches(members))
    IN  /\ Turn(t) /\ ~YieldsError /\ ~Delays(t) /\ HasRoom(t) /\ HasBatch(t)
        /\ thread' = [thread EXCEPT ![t].pc = "logging"]
        /\ group' = [members |-> members, todo |-> [i \in 1..count |-> db.lastSequence + i],
                     last |-> db.lastSequence + count, ok |-> TRUE]
        /\ mutex' = None
        /\ UNCHANGED <<queue, db, bg, failures, acked>>

\* There is room: a Write of no batch is done.
RoomForNone(t) ==
    /\ Turn(t) /\ ~YieldsError /\ ~Delays(t) /\ HasRoom(t) /\ ~HasBatch(t)
    /\ Leave(1, TRUE, thread)
    /\ UNCHANGED <<group, db, bg, failures, acked>>

RoomWait(t) ==
    /\ Turn(t) /\ ~YieldsError /\ ~Delays(t) /\ ~HasRoom(t) /\ MustWait
    /\ thread' = [thread EXCEPT ![t].asleep = "bg"]
    /\ mutex' = None
    /\ UNCHANGED <<queue, group, db, bg, failures, acked>>

\* A new log and a new memtable.
RoomSwitch(t) ==
    /\ Turn(t) /\ ~YieldsError /\ ~Delays(t) /\ ~HasRoom(t) /\ ~MustWait
    /\ db' = [db EXCEPT !.imm = db.mem, !.mem = Len(db.contents) + 1,
                        !.contents = Append(@, {}), !.refs = Append(@, 1)]
    /\ thread' = [thread EXCEPT ![t].force = FALSE]
    /\ bg' = MaybeScheduleCompaction(bg, db')
    /\ mutex' = t
    /\ UNCHANGED <<queue, group, failures, acked>>

\* The new log cannot be created.
RoomSwitchFails(t) ==
    /\ Turn(t) /\ ~YieldsError /\ ~Delays(t) /\ ~HasRoom(t) /\ ~MustWait
    /\ Outcome(FALSE)
    /\ Leave(1, FALSE, thread)
    /\ UNCHANGED <<group, db, bg, acked>>

MakeRoomForWrite(t) ==
    RoomError(t) \/ RoomDelay(t) \/ DelayOver(t) \/ RoomForNone(t) \/ RoomWait(t) \/ RoomSwitch(t) \/ RoomSwitchFails(t)

-----------------------------------------------------------------------------
\* log_->AddRecord, without the mutex.
AddRecord(t, ok) ==
    /\ ~bg.crashed /\ thread[t].pc = "logging"
    /\ Outcome(ok)
    /\ db' = IF ok THEN [db EXCEPT !.unsynced = @ \cup ToSet(group.todo)] ELSE db
    /\ group' = [group EXCEPT !.ok = ok]
    /\ thread' = [thread EXCEPT ![t].pc = IF ~ok THEN "committing" ELSE IF thread[t].op.sync THEN "syncing" ELSE "inserting"]
    /\ UNCHANGED <<mutex, queue, bg, acked>>

\* What of the log being written is not synced: the records of the memtable and
\* that of the group.
InLog == db.contents[db.mem] \cup ToSet(group.todo)

\* logfile_->Sync()
Sync(t, ok) ==
    /\ ~bg.crashed /\ thread[t].pc = "syncing"
    /\ Outcome(ok)
    /\ db' = IF ok THEN [db EXCEPT !.unsynced = @ \ InLog] ELSE db
    /\ group' = [group EXCEPT !.ok = ok]
    /\ thread' = [thread EXCEPT ![t].pc = IF ok THEN "inserting" ELSE "sync failed"]
    /\ UNCHANGED <<mutex, queue, bg, acked>>

\* WriteBatchInternal::InsertInto, an entry at a time.
Insert(t) ==
    /\ ~bg.crashed /\ thread[t].pc = "inserting"
    /\ db' = [db EXCEPT !.contents[db.mem] = @ \cup {Head(group.todo)}]
    /\ group' = [group EXCEPT !.todo = Tail(@)]
    /\ thread' = [thread EXCEPT ![t].pc = IF Len(group.todo) = 1 THEN "committing" ELSE "inserting"]
    /\ UNCHANGED <<mutex, queue, bg, failures, acked>>

\* The entries of a batch of the group: it follows those before it.
Entries(i) ==
    LET before == db.lastSequence + BatchSize * Cardinality(Batches(group.members) \cap 1..(i - 1))
    IN  (before + 1) .. (before + BatchSize)

\* With the mutex again: the group becomes visible and leaves the queue.
Commit(t) ==
    LET syncFailed == thread[t].pc = "sync failed"
    IN  /\ Free /\ thread[t].pc \in {"committing", "sync failed"}
        /\ db' = [db EXCEPT !.lastSequence = group.last]
        /\ bg' = [bg EXCEPT !.error = @ \/ syncFailed]
        /\ Leave(Len(group.members), group.ok, IF syncFailed /\ ~bg.error THEN SignalAll(thread) ELSE thread)
        /\ acked' = IF ~group.ok THEN acked
                    ELSE acked \cup {[entries |-> Entries(i), sync |-> thread[group.members[i]].op.sync,
                                      late |-> thread[group.members[i]].late] : i \in Batches(group.members)}
        /\ group' = NoGroup
        /\ UNCHANGED failures

-----------------------------------------------------------------------------
\* TEST_CompactMemTable, after its Write.
AwaitMemTable(t) ==
    /\ Free /\ thread[t].pc = "flushing" /\ thread[t].asleep = "no"
    /\ IF db.imm # None /\ ~bg.error
       THEN thread' = [thread EXCEPT ![t].asleep = "bg"]
       ELSE thread' = [thread EXCEPT ![t].pc = IF thread[t].op.kind = "range" THEN "manual" ELSE "idle"]
    /\ UNCHANGED <<mutex, queue, group, db, bg, failures, acked>>

\* TEST_CompactRange: it hands its request over, or waits.
AwaitManual(t) ==
    /\ Free /\ thread[t].pc = "manual" /\ thread[t].asleep = "no"
    /\ t \notin bg.done /\ ~bg.shutdown /\ ~bg.error
    /\ thread' = [thread EXCEPT ![t].asleep = "bg"]
    /\ bg' = IF bg.manual = None THEN MaybeScheduleCompaction([bg EXCEPT !.manual = t], db) ELSE bg
    /\ UNCHANGED <<mutex, queue, group, db, failures, acked>>

\* manual_compaction_, when t returns.
Cancel(t) == IF bg.manual = t THEN None ELSE bg.manual

\* It returns; a request that is not done is cancelled.
ManualReturns(t) ==
    /\ Free /\ thread[t].pc = "manual" /\ thread[t].asleep = "no"
    /\ t \in bg.done \/ bg.shutdown \/ bg.error
    /\ thread' = [thread EXCEPT ![t].pc = "idle"]
    /\ bg' = [bg EXCEPT !.manual = Cancel(t), !.done = @ \ {t}, !.left[t] = Pieces]
    /\ UNCHANGED <<mutex, queue, group, db, failures, acked>>

-----------------------------------------------------------------------------
\* The end of BackgroundCall, with b and d as they are then.
EndCall(b, d) ==
    /\ bg' = MaybeScheduleCompaction([b EXCEPT !.pc = "idle", !.isManual = FALSE, !.inCompaction = FALSE, !.picked = 0], d)
    /\ db' = d
    /\ thread' = SignalAll(thread)

BgStep(pc) == Free /\ bg.pc = pc /\ UNCHANGED <<mutex, queue, group, acked>>

\* A step of the background thread that does not end its call.
BgGoes(b, d) == bg' = b /\ db' = d

\* BackgroundCall with nothing to do, or nothing that may be done.
BgIdle ==
    /\ BgStep("scheduled")
    /\ bg.shutdown \/ bg.error \/ (db.imm = None /\ bg.manual = None /\ ~NeedsCompaction(db))
    /\ EndCall(bg, db)
    /\ UNCHANGED failures

\* CompactMemTable, to where BuildTable is called without the mutex; at once or
\* in the middle of a compaction.
BgMemTable ==
    /\ \/ BgStep("scheduled") /\ ~bg.shutdown /\ ~bg.error
       \/ BgStep("compacting") /\ ~bg.shutdown
    /\ db.imm # None
    /\ BgGoes([bg EXCEPT !.pc = "memtable", !.inCompaction = (bg.pc = "compacting")], db)
    /\ UNCHANGED <<thread, failures>>

\* BuildTable is done, and the manifest is written next, without the mutex;
\* CompactMemTable fails if it failed, or if the store is being deleted.
MemTableEnds(b, d) ==
    IF bg.inCompaction THEN BgGoes([b EXCEPT !.pc = "compacting"], d) /\ thread' = SignalAll(thread)
    ELSE EndCall(b, d)

BgMemTableBuilt(ok) ==
    /\ BgStep("memtable") /\ Outcome(ok)
    /\ IF ok /\ ~bg.shutdown THEN BgGoes([bg EXCEPT !.pc = "memtable manifest"], db) /\ UNCHANGED thread
       ELSE MemTableEnds([bg EXCEPT !.error = TRUE], db)

\* Mutant: the memtable is dropped whatever came of its table.
ImmAfterFailure == None

\* imm_ when CompactMemTable has failed.
ImmKept == db.imm

\* LogAndApply has written the manifest, or not; a new file is at level 0 or
\* deeper, where it may be one too many.
BgMemTableInstalled(ok, files, due) ==
    /\ BgStep("memtable manifest") /\ Outcome(ok) /\ (due => files = 0)
    /\ IF ok
       THEN MemTableEnds(bg, [Unref(db, {db.imm}) EXCEPT !.tables = @ \cup db.contents[db.imm], !.imm = None,
                                !.unsynced = @ \ db.contents[db.imm], !.level0 = @ + files, !.seek = @ \/ due])
       ELSE MemTableEnds([bg EXCEPT !.error = TRUE], [db EXCEPT !.imm = ImmKept])

\* The end of BackgroundCompaction, that reads manual_compaction_ again.
EndCompaction(b, d, ok) ==
    IF ~b.isManual THEN EndCall(b, d)
    ELSE IF b.manual = None THEN BgGoes([b EXCEPT !.crashed = TRUE], d) /\ UNCHANGED thread
    ELSE EndCall([b EXCEPT !.manual = None, !.done = IF ok THEN @ ELSE @ \cup {b.manual}], d)

\* CompactRange finds nothing left of the request.
BgManualDone ==
    /\ BgStep("scheduled") /\ ~bg.shutdown /\ ~bg.error
    /\ db.imm = None /\ bg.manual # None /\ bg.left[bg.manual] = 0
    /\ EndCall([bg EXCEPT !.done = @ \cup {bg.manual}, !.manual = None], db)
    /\ UNCHANGED failures

\* A compaction begins, on request or because one is needed, and of the files at
\* level 0 it takes n, those that overlap: none if another level is due.  A move
\* of one file only writes the manifest.
BgCompact(n, trivial) ==
    /\ BgStep("scheduled") /\ ~bg.shutdown /\ ~bg.error
    /\ db.imm = None
    /\ IF bg.manual # None THEN bg.left[bg.manual] > 0 /\ ~trivial ELSE NeedsCompaction(db)
    /\ bg.manual = None /\ n = 0 => db.seek
    /\ trivial => n <= 1
    /\ BgGoes([bg EXCEPT !.pc = IF trivial THEN "manifest" ELSE "compacting",
                         !.isManual = (bg.manual # None), !.picked = n,
                         !.left = [u \in Threads |-> IF u = bg.manual THEN bg.left[u] - 1 ELSE bg.left[u]]], db)
    /\ UNCHANGED <<thread, failures>>

\* DoCompactionWork is through with its input, or stops.
BgCompacted(ok) ==
    /\ BgStep("compacting") /\ Outcome(ok)
    /\ IF ok /\ ~bg.shutdown THEN BgGoes([bg EXCEPT !.pc = "manifest"], db) /\ UNCHANGED thread
       ELSE EndCompaction([bg EXCEPT !.error = TRUE], db, FALSE)

\* The results are installed, or the manifest could not be written.  Files that
\* came down from level 0 may leave a deeper level due; the compactions that
\* follow from one below level 0, at most one a level, are not told apart from it.
BgInstalled(ok, due) ==
    /\ BgStep("manifest") /\ Outcome(ok) /\ (due => bg.picked > 0)
    /\ IF ok THEN EndCompaction(bg, [db EXCEPT !.level0 = @ - bg.picked, !.seek = due], TRUE)
       ELSE EndCompaction([bg EXCEPT !.error = TRUE], db, FALSE)

-----------------------------------------------------------------------------
\* ~DBImpl, called when nobody uses the store.
Destruct ==
    /\ Free /\ ~bg.shutdown /\ \A t \in Threads : thread[t].pc = "idle"
    /\ bg' = [bg EXCEPT !.shutdown = TRUE]
    /\ UNCHANGED <<thread, mutex, queue, group, db, failures, acked>>

Thread(t) ==
    \/ \E wasted \in BOOLEAN : GetReturns(t, wasted)
    \/ MakeRoomForWrite(t) \/ StartGroup(t) \/ Insert(t) \/ Commit(t)
    \/ \E ok \in BOOLEAN : AddRecord(t, ok) \/ Sync(t, ok)
    \/ AwaitMemTable(t) \/ AwaitManual(t) \/ ManualReturns(t)

Background ==
    \/ BgIdle \/ BgMemTable \/ BgManualDone \/ \E n \in 0..db.level0, trivial \in BOOLEAN : BgCompact(n, trivial)
    \/ \E ok \in BOOLEAN :
          \/ BgMemTableBuilt(ok) \/ BgCompacted(ok)
          \/ \E due \in BOOLEAN : BgInstalled(ok, due) \/ \E files \in {0, 1} : BgMemTableInstalled(ok, files, due)

Next ==
    \/ \E t \in Threads : Thread(t) \/ \E o \in Calls[t] : Write(t, o) \/ Get(t, o)
    \/ Background
    \/ Destruct

Spec == Init /\ [][Next]_vars

\* A thread that can run runs, and so does the background thread.  Nobody is
\* bound to call, and nothing is bound to fail.
FairSpec == Spec /\ \A t \in Threads : WF_vars(Thread(t)) /\ WF_vars(Background)

-----------------------------------------------------------------------------
TypeOK ==
    /\ \A t \in Threads :
          /\ thread[t].pc \in {"idle", "queued", "delayed", "logging", "syncing", "sync failed", "inserting",
                              "committing", "reading", "flushing", "manual"}
          /\ thread[t].asleep \in {"no", "own", "bg"} /\ thread[t].calls \in 0..MaxCalls[t]
    /\ mutex \in Threads \cup {None} /\ ToSet(queue) \subseteq Threads
    /\ db.mem \in DOMAIN db.contents /\ db.imm \in DOMAIN db.contents \cup {None}
    /\ DOMAIN db.refs = DOMAIN db.contents /\ \A m \in DOMAIN db.refs : db.refs[m] \in 0..(1 + Cardinality({t \in Threads : thread[t].pc = "reading"}))
    /\ db.level0 \in 0..L0Stop /\ bg.manual \in Threads \cup {None} /\ failures \in 0..MaxFailures

\* A Get between its locks finds exactly what was committed when it took its
\* snapshot, while others fill and switch memtables, build tables of them and
\* give their references back: nothing is missing, and nothing appears under an
\* old sequence number.
ReadsItsSnapshot ==
    \A t \in Threads : thread[t].pc = "reading" =>
        LET h == thread[t].held
        IN  {s \in Found(h.mems, h.tables) : s <= h.snapshot} = h.due

\* A write that returned OK is found by whoever reads next, and if it was a sync
\* write its record is synced, whichever thread wrote it for the caller.
AcksAreKept ==
    \A a \in acked :
        /\ a.entries \subseteq Visible
        /\ a.sync => a.entries \cap db.unsynced = {}

\* One thread at a time, the one at the front, is between its MakeRoomForWrite
\* and its end: the log, the memtable and tmp_batch_ have one user.
OneThreadWrites ==
    \A t \in Threads :
        thread[t].pc \in {"delayed", "logging", "syncing", "sync failed", "inserting", "committing"} =>
            queue # <<>> /\ queue[1] = t

\* After a background error (of a sync, for one, whose record may or may not be
\* in the log) all future writes fail.
FutureWritesFail == \A a \in acked : ~a.late

\* What a write was told is in the store stays there: one thread at a time writes
\* the log and the memtable, and nothing succeeds after a failed sync.
AckedWritesAreKept == AcksAreKept /\ OneThreadWrites /\ FutureWritesFail

\* Whoever sleeps on a condition variable has somebody to wake them: a writer in
\* the queue one in front of it, a waiter for the background thread a call under
\* way.
SleepersHaveWakers ==
    \A t \in Threads :
        /\ thread[t].asleep = "own" => queue # <<>> /\ t \in ToSet(queue) /\ queue[1] # t
        /\ thread[t].asleep = "bg" => bg.pc # "idle"

\* As long as nothing has failed, manual_compaction_ is there when the background
\* thread that took it as its request is done with it.
RequestIsThere == failures = 0 => ~bg.crashed

\* Nobody sleeps on a condition that holds already or that nobody will signal,
\* and the request somebody sleeps for is not lost.
SleepersAreWoken == SleepersHaveWakers /\ RequestIsThere

\* What every reader can see only grows, and by all of a group in one step.
StoreGrowsByGroups ==
    [][\/ Visible' = Visible
       \/ group.todo = <<>> /\ Visible' = Visible \cup ((db.lastSequence + 1) .. group.last)]_vars

\* Every call returns.
CallsReturn == \A t \in Threads : thread[t].pc # "idle" ~> thread[t].pc = "idle"

\* The destructor gets the background thread to stop.
ShutdownCompletes == bg.shutdown ~> bg.pc = "idle"
=============================================================================
