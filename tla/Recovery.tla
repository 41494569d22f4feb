------------------------------ MODULE Recovery ------------------------------
(***************************************************************************)
(* The files of the local store and what is left of them: a process opens  *)
(* the store, writes its log, turns memtables into tables and versions     *)
(* into manifest records, deletes what it no longer needs, and at any      *)
(* moment it, or the machine, may crash.  A process crash keeps what was   *)
(* written to a file, a crash of the machine what was synced and any       *)
(* prefix of the rest; creating, renaming and deleting files happen in     *)
(* order.  A write is known by its sequence number.                        *)
(***************************************************************************)
EXTENDS Integers, SequencesExt, FiniteSetsExt

CONSTANTS
    Fresh,                      \* is there no store at first
    ReuseLogs,                  \* options.reuse_logs
    MachineCrashes,             \* bound: crashes of the machine
    ProcessCrashes,             \* bound: crashes of the process
    Faults,                     \* bound: failing syncs
    MaxWrites,                  \* bound: sequence numbers
    MaxFile,                    \* bound: file numbers
    MaxUnsynced                 \* bound: records of a manifest that are not synced

VARIABLES
    disk,                       \* the files, by kind and number
    db,                         \* the memory of the process
    acked,                      \* the writes whose caller was told they succeeded
    durable,                    \* those of them that a crash of the machine may not lose
    budget                      \* crashes and faults that are left

vars == <<disk, db, acked, durable, budget>>

\* A log or manifest: its records and how many of them are surely on the disk.
Empty == [recs |-> <<>>, synced |-> 0]
Put(files, number, content) == [n \in DOMAIN files \cup {number} |-> IF n = number THEN content ELSE files[n]]
Without(files, numbers) == [n \in DOMAIN files \ numbers |-> files[n]]
AddRecord(f, rec) == [f EXCEPT !.recs = Append(@, rec)]
Sync(f) == [f EXCEPT !.synced = Len(f.recs)]

\* A VersionEdit: has tells if it has log number, next file and last sequence.
NoEdit == [add |-> {}, del |-> {}, has |-> FALSE, log |-> 0, next |-> 0, last |-> 0]
FirstEdit == [NoEdit EXCEPT !.has = TRUE, !.next = 2]

Down == [pc |-> "down", open |-> FALSE, mem |-> {}, imm |-> {}, hasImm |-> FALSE, live |-> {}, held |-> {},
         logNumber |-> 0, logfile |-> 0, nextFile |-> 2, manifest |-> 0, descriptor |-> FALSE, newManifest |-> FALSE,
         lastSeq |-> 0, pending |-> {}, edit |-> NoEdit, logs |-> <<>>, save |-> FALSE, error |-> FALSE]

NoFiles == [n \in {} |-> Empty]
Init ==
    /\ disk = [logs |-> IF Fresh THEN NoFiles ELSE Put(NoFiles, 3, Empty),
               tables |-> NoFiles,
               manifests |-> IF Fresh THEN NoFiles
                             ELSE Put(NoFiles, 2, [recs |-> <<NoEdit, [FirstEdit EXCEPT !.log = 3, !.next = 4]>>, synced |-> 2]),
               current |-> IF Fresh THEN 0 ELSE 2]
    /\ db = Down /\ acked = {} /\ durable = {}
    /\ budget = [machine |-> MachineCrashes, process |-> ProcessCrashes, fault |-> Faults]

NewFileNumber == db.nextFile

MarkFileNumberUsed(next, n) == IF next <= n THEN n + 1 ELSE next

-----------------------------------------------------------------------------
(* DB::Open.                                                               *)

\* NewDB: a first manifest, closed but not synced, then CURRENT.
NewDB ==
    /\ db.pc = "down" /\ disk.current = 0
    /\ disk' = [disk EXCEPT !.manifests = Put(@, 1, AddRecord(Empty, FirstEdit))]
    /\ db' = [db EXCEPT !.pc = "new"]
    /\ UNCHANGED <<acked, durable, budget>>

NewDBInstalls ==
    /\ db.pc = "new"
    /\ disk' = [disk EXCEPT !.current = 1]
    /\ db' = [db EXCEPT !.pc = "recover"]
    /\ UNCHANGED <<acked, durable, budget>>

OpenExisting ==
    /\ db.pc = "down" /\ disk.current # 0
    /\ db' = [db EXCEPT !.pc = "recover"]
    /\ UNCHANGED <<disk, acked, durable, budget>>

\* Builder::Apply over all records of a manifest.
LiveOf(recs) == FoldLeft(LAMBDA live, e : (live \ e.del) \cup e.add, {}, recs)
LastWith(recs) == LET S == {i \in DOMAIN recs : recs[i].has} IN IF S = {} THEN NoEdit ELSE recs[Max(S)]

ReplayOrder(logs) == SetToSortSeq(logs, <)

\* VersionSet::Recover and the first half of DBImpl::Recover; fails on a manifest
\* without its numbers and on a table that is not there.
Recover ==
    LET recs == IF disk.current \in DOMAIN disk.manifests THEN disk.manifests[disk.current].recs ELSE <<>>
        numbers == LastWith(recs)
        live == LiveOf(recs)
        reuse == ReuseLogs
        missing == live \ (DOMAIN disk.tables \cup DOMAIN disk.logs \cup DOMAIN disk.manifests)
    IN  /\ db.pc = "recover"
        /\ db' = IF ~numbers.has \/ missing # {} THEN [db EXCEPT !.pc = "failed"]
                 ELSE [db EXCEPT !.pc = "replay", !.live = live, !.logNumber = numbers.log, !.lastSeq = numbers.last,
                                 !.nextFile = numbers.next + 1,
                                 !.manifest = IF reuse THEN disk.current ELSE numbers.next,
                                 !.descriptor = reuse, !.save = ~reuse,
                                 !.logs = ReplayOrder({n \in DOMAIN disk.logs : n >= numbers.log})]
        /\ UNCHANGED <<disk, acked, durable, budget>>

MaxSeq(seqs) == IF seqs = {} THEN 0 ELSE Max(seqs)

MaxSequence(last, recs) == Max({last} \cup ToSet(recs))

\* RecoverLogFile: a memtable that gets full becomes a table, cut at any record,
\* what is left one more, unless this is the last log and it can be written on.
RecoverLogFile ==
    LET n == db.logs[1]
        recs == disk.logs[n].recs
        first(cut) == ToSet(SubSeq(recs, 1, cut))
        rest(cut) == ToSet(SubSeq(recs, cut + 1, Len(recs)))
        reuse(cut) == ReuseLogs /\ Len(db.logs) = 1 /\ cut = 0
        made(cut) == {s \in IF reuse(cut) THEN {} ELSE {first(cut), rest(cut)} : s # {}}
    IN  /\ db.pc = "replay" /\ db.logs # <<>>
        /\ \E cut \in 0..Len(recs) :
             LET contents == SetToSortSeq(made(cut), LAMBDA a, b : Min(a) < Min(b))
                 number(i) == db.nextFile + i - 1
                 numbers == {number(i) : i \in DOMAIN contents}
             IN  /\ disk' = [disk EXCEPT !.tables = [t \in DOMAIN @ \cup numbers |->
                                                        IF t \in numbers THEN contents[t - db.nextFile + 1] ELSE @[t]]]
                 /\ db' = [db EXCEPT !.logs = Tail(@), !.edit.add = @ \cup numbers,
                                     !.save = @ \/ numbers # {},
                                     !.lastSeq = MaxSequence(@, recs),
                                     !.nextFile = MarkFileNumberUsed(@ + Len(contents), n),
                                     !.logfile = IF reuse(cut) THEN n ELSE @,
                                     !.mem = IF reuse(cut) THEN ToSet(recs) ELSE @]
        /\ UNCHANGED <<acked, durable, budget>>

\* A new log, if none is reused.
NewLog ==
    /\ db.pc = "replay" /\ db.logs = <<>>
    /\ IF db.logfile # 0 THEN db' = [db EXCEPT !.pc = "opened"] /\ UNCHANGED disk
       ELSE /\ NewFileNumber <= MaxFile
            /\ disk' = [disk EXCEPT !.logs = Put(@, NewFileNumber, Empty)]
            /\ db' = [db EXCEPT !.pc = "opened", !.logfile = NewFileNumber, !.nextFile = @ + 1]
    /\ UNCHANGED <<acked, durable, budget>>

-----------------------------------------------------------------------------
(* LogAndApply, when the store is opened and after each background job.    *)

\* The record is written; the first time a new manifest begins with a snapshot.
LogAndApply(edit) ==
    LET e == [edit EXCEPT !.has = TRUE, !.next = db.nextFile, !.last = db.lastSeq]
        old == IF db.descriptor THEN disk.manifests[db.manifest] ELSE AddRecord(Empty, [NoEdit EXCEPT !.add = db.live])
    IN  /\ disk' = [disk EXCEPT !.manifests = Put(@, db.manifest, AddRecord(old, e))]
        /\ db' = [db EXCEPT !.pc = "sync", !.edit = e, !.newManifest = ~db.descriptor, !.descriptor = TRUE]
        /\ UNCHANGED <<acked, durable, budget>>

SaveManifest ==
    /\ db.pc = "opened"
    /\ IF db.save THEN LogAndApply([db.edit EXCEPT !.log = db.logfile])
       ELSE db' = [db EXCEPT !.pc = "clean", !.open = TRUE] /\ UNCHANGED <<disk, acked, durable, budget>>

\* Mutant: the manifest is only flushed.
SyncForgotten(f) == f

SyncManifest(f) == Sync(f)

ManifestSynced ==
    /\ db.pc = "sync"
    /\ disk' = [disk EXCEPT !.manifests[db.manifest] = SyncManifest(@)]
    /\ db' = [db EXCEPT !.pc = IF db.newManifest THEN "current" ELSE "install"]
    /\ UNCHANGED <<acked, durable, budget>>

Discarded == IF db.newManifest THEN {db.manifest} ELSE {}

\* The new version is not installed; a new manifest goes, Open fails.
ManifestFails ==
    /\ db.pc = "sync" /\ budget.fault > 0
    /\ budget' = [budget EXCEPT !.fault = @ - 1]
    /\ IF db.open THEN /\ db' = [db EXCEPT !.pc = "running", !.error = TRUE, !.pending = {}]
                       /\ UNCHANGED disk
       ELSE /\ db' = Down
            /\ disk' = [disk EXCEPT !.manifests = Without(@, Discarded)]
    /\ UNCHANGED <<acked, durable>>

SetCurrentFile ==
    /\ db.pc = "current"
    /\ disk' = [disk EXCEPT !.current = db.manifest]
    /\ db' = [db EXCEPT !.pc = "install"]
    /\ UNCHANGED <<acked, durable, budget>>

\* The new version; a memtable's table takes the place of imm_.
Install ==
    /\ db.pc = "install"
    /\ db' = [db EXCEPT !.pc = "clean", !.open = TRUE, !.live = (@ \ db.edit.del) \cup db.edit.add,
                        !.logNumber = db.edit.log, !.pending = {}, !.edit = NoEdit,
                        !.imm = IF db.open /\ db.edit.del = {} THEN {} ELSE @,
                        !.hasImm = IF db.open /\ db.edit.del = {} THEN FALSE ELSE @]
    /\ durable' = durable \cup (acked \cap UNION {disk.tables[n] : n \in db.edit.add})
    /\ UNCHANGED <<disk, acked, budget>>

-----------------------------------------------------------------------------
\* Versions that readers hold are still in the list.
AddLiveFiles == db.live \cup db.held \cup db.pending

ObsoleteLogs == {n \in DOMAIN disk.logs : n < db.logNumber}

\* DeleteObsoleteFiles, one file at a time.
DeleteObsoleteFile ==
    /\ db.pc = "clean"
    /\ \/ \E n \in ObsoleteLogs : disk' = [disk EXCEPT !.logs = Without(@, {n})]
       \/ \E n \in DOMAIN disk.tables \ AddLiveFiles : disk' = [disk EXCEPT !.tables = Without(@, {n})]
       \/ \E n \in DOMAIN disk.manifests : n < db.manifest /\ disk' = [disk EXCEPT !.manifests = Without(@, {n})]
    /\ UNCHANGED <<db, acked, durable, budget>>

DeleteObsoleteFilesDone ==
    /\ db.pc = "clean"
    /\ ObsoleteLogs = {} /\ DOMAIN disk.tables \subseteq AddLiveFiles
    /\ \A n \in DOMAIN disk.manifests : n >= db.manifest
    /\ db' = [db EXCEPT !.pc = "running"]
    /\ UNCHANGED <<disk, acked, durable, budget>>

-----------------------------------------------------------------------------
(* The open store.                                                         *)
NextSeq == db.lastSeq + 1

\* Open, and the background thread does not hold the mutex.
Accessible == db.open /\ db.pc # "clean"

\* Write: the record is in the file, synced if the caller wants it, then in the
\* memtable.
Write(sync) ==
    /\ Accessible /\ ~db.error /\ NextSeq <= MaxWrites
    /\ LET log == AddRecord(disk.logs[db.logfile], NextSeq)
       IN  disk' = [disk EXCEPT !.logs[db.logfile] = IF sync THEN Sync(log) ELSE log]
    /\ db' = [db EXCEPT !.mem = @ \cup {NextSeq}, !.lastSeq = NextSeq]
    /\ acked' = acked \cup {NextSeq}
    /\ durable' = IF sync THEN durable \cup {NextSeq} ELSE durable
    /\ UNCHANGED budget

\* MakeRoomForWrite: the old log is closed as it is.
SwitchMemTable ==
    /\ Accessible /\ ~db.error /\ db.mem # {} /\ ~db.hasImm /\ NewFileNumber <= MaxFile
    /\ disk' = [disk EXCEPT !.logs = Put(@, NewFileNumber, Empty)]
    /\ db' = [db EXCEPT !.logfile = NewFileNumber, !.nextFile = @ + 1, !.imm = db.mem, !.mem = {}, !.hasImm = TRUE]
    /\ UNCHANGED <<acked, durable, budget>>

\* BuildTable, with its sync, before the manifest hears of it.
BuildTable ==
    /\ db.open /\ db.pc = "running" /\ ~db.error /\ db.hasImm /\ NewFileNumber <= MaxFile
    /\ disk' = [disk EXCEPT !.tables = Put(@, NewFileNumber, db.imm)]
    /\ db' = [db EXCEPT !.pc = "built", !.nextFile = @ + 1, !.pending = {NewFileNumber},
                        !.edit = [NoEdit EXCEPT !.add = {NewFileNumber}, !.log = db.logfile]]
    /\ UNCHANGED <<acked, durable, budget>>

\* A compaction: its output takes the place of its inputs.
Compact ==
    /\ db.open /\ db.pc = "running" /\ ~db.error /\ ~db.hasImm /\ NewFileNumber <= MaxFile
    /\ Cardinality(db.live) > 1
    /\ disk' = [disk EXCEPT !.tables = Put(@, NewFileNumber, UNION {@[n] : n \in db.live})]
    /\ db' = [db EXCEPT !.pc = "built", !.nextFile = @ + 1, !.pending = {NewFileNumber},
                        !.edit = [NoEdit EXCEPT !.add = {NewFileNumber}, !.del = db.live, !.log = db.logNumber]]
    /\ UNCHANGED <<acked, durable, budget>>

BackgroundApplies == db.pc = "built" /\ LogAndApply(db.edit)

\* An iterator holds the version it was made from.
Hold ==
    /\ Accessible /\ db.live # {} /\ db.held = {}
    /\ db' = [db EXCEPT !.held = db.live]
    /\ UNCHANGED <<disk, acked, durable, budget>>

Release ==
    /\ Accessible /\ db.held # {}
    /\ db' = [db EXCEPT !.held = {}]
    /\ UNCHANGED <<disk, acked, durable, budget>>

-----------------------------------------------------------------------------
\* The process is killed.
ProcessCrash ==
    /\ budget.process > 0 /\ db.pc \notin {"down", "failed"}
    /\ budget' = [budget EXCEPT !.process = @ - 1]
    /\ db' = Down
    /\ UNCHANGED <<disk, acked, durable>>

\* Every file loses any part of what was not synced, and the callers' news of the
\* writes that were not durable are void.
MachineCrash ==
    /\ budget.machine > 0 /\ db.pc # "failed"
    /\ budget' = [budget EXCEPT !.machine = @ - 1]
    /\ \E logs \in [DOMAIN disk.logs -> 0..MaxWrites], manifests \in [DOMAIN disk.manifests -> 0..MaxUnsynced] :
           LET Kept(files, more, n) == files[n].synced + more[n]
               Cut(files, more) == [n \in DOMAIN files |->
                   [recs |-> SubSeq(files[n].recs, 1, Kept(files, more, n)), synced |-> Kept(files, more, n)]]
               Possible(files, more) == \A n \in DOMAIN files : Kept(files, more, n) <= Len(files[n].recs)
           IN  /\ Possible(disk.logs, logs) /\ Possible(disk.manifests, manifests)
               /\ disk' = [disk EXCEPT !.logs = Cut(@, logs), !.manifests = Cut(@, manifests)]
    /\ db' = Down
    /\ acked' = durable
    /\ UNCHANGED durable

Next ==
    \/ NewDB \/ NewDBInstalls \/ OpenExisting \/ Recover \/ RecoverLogFile \/ NewLog \/ SaveManifest
    \/ ManifestSynced \/ ManifestFails \/ SetCurrentFile \/ Install
    \/ DeleteObsoleteFile \/ DeleteObsoleteFilesDone
    \/ Write(TRUE) \/ Write(FALSE) \/ SwitchMemTable
    \/ BuildTable \/ Compact \/ BackgroundApplies \/ Hold \/ Release
    \/ ProcessCrash \/ MachineCrash

Spec == Init /\ [][Next]_vars

-----------------------------------------------------------------------------
TypeOK ==
    /\ disk.current \in 0..MaxFile /\ acked \subseteq 1..MaxWrites /\ durable \subseteq acked
    /\ \A n \in DOMAIN disk.logs : disk.logs[n].synced \in 0..Len(disk.logs[n].recs)
    /\ \A n \in DOMAIN disk.manifests : disk.manifests[n].synced \in 0..Len(disk.manifests[n].recs)
    /\ db.live \subseteq DOMAIN disk.tables /\ db.logfile < db.nextFile

\* What a read of the open store can find.
Visible == db.mem \cup db.imm \cup UNION {disk.tables[n] : n \in db.live}

(* The open store has every write that its callers count on: all of them   *)
(* after crashes of the process only, those that were synced or are in a   *)
(* table of the manifest after a crash of the machine (options.h 188-204). *)
AckedWritesSurvive == db.open => acked \subseteq Visible

(* The tables that the current version or a reader needs are there, and so *)
(* are the logs of what is in no table yet (db_impl.cc:226-291).           *)
LiveFilesExist ==
    db.open => /\ db.live \cup db.held \subseteq DOMAIN disk.tables
               /\ db.mem \cup db.imm \subseteq UNION {ToSet(disk.logs[n].recs) : n \in DOMAIN disk.logs}

(* A sequence number is given once: no entry that can come back from any   *)
(* file has a number the open store has yet to give (db_impl.cc:361-363).  *)
SequenceIsFresh == db.open => \A s \in Visible : s <= db.lastSeq

(* A crash at any moment, of opening the store too, leaves files from      *)
(* which it can be opened ("the creation of the DB is committed only when  *)
(* the descriptor is created", db_impl.cc:278).                            *)
StoreCanBeOpened == db.pc # "failed"
=============================================================================
