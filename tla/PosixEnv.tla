------------------------------ MODULE PosixEnv ------------------------------
(***************************************************************************)
(* What the store asks of the system: the lock that keeps a second process *)
(* away, the limits on files that are mapped or kept open, the thread that *)
(* runs scheduled work, and the way CURRENT is replaced.  Of the system,   *)
(* fcntl, mmap, fsync and rename are as POSIX has them: a process loses    *)
(* its locks on a file when it closes any descriptor of that file.         *)
(***************************************************************************)
EXTENDS Integers, Sequences, FiniteSets

CONSTANTS
    Processes, Threads,
    Process(_),                 \* the process of a thread
    mmap_limit, fd_limit,
    MaxItems,                   \* scheduled altogether
    Crashes                     \* how many processes or machines may stop

VARIABLES
    fds, locked_files, owner, dropped, deaths,
    allowed, files,
    queue, bgthread, signalled, scheduled, ran,
    writing, tmp, current, crashes

lockVars == <<fds, locked_files, owner, dropped, deaths>>
limitVars == <<allowed, files>>
queueVars == <<queue, bgthread, signalled, scheduled, ran>>
currentVars == <<writing, tmp, current, crashes>>
envVars == <<lockVars, limitVars, queueVars, currentVars>>

-----------------------------------------------------------------------------
(* LockFile and UnlockFile.  fds[t] is where thread t is; owner is the     *)
(* process that has the lock of fcntl.                                     *)

LockInit ==
    /\ fds = [t \in Threads |-> "none"]
    /\ locked_files = [p \in Processes |-> FALSE]
    /\ owner = "nobody"
    /\ dropped = {}
    /\ deaths = 0

Goes(t, to) == fds' = [fds EXCEPT ![t] = to]

\* What closing a descriptor of thread t does to the lock.
CloseFd(t) ==
    LET losers == {u \in Threads \ {t} : Process(u) = Process(t) /\ fds[u] = "holds"}
    IN  /\ owner' = IF owner = Process(t) THEN "nobody" ELSE owner
        /\ dropped' = IF owner = Process(t) THEN dropped \cup losers ELSE dropped

OpenLockFile(t) ==
    /\ fds[t] = "none"
    /\ Goes(t, "opened")
    /\ UNCHANGED <<locked_files, owner, dropped, deaths>>

Insert(t) ==
    /\ fds[t] = "opened"
    /\ UNCHANGED deaths
    /\ IF locked_files[Process(t)]
       THEN Goes(t, "none") /\ CloseFd(t) /\ UNCHANGED locked_files
       ELSE /\ Goes(t, "inserted")
            /\ locked_files' = [locked_files EXCEPT ![Process(t)] = TRUE]
            /\ UNCHANGED <<owner, dropped>>

SetLock(t) ==
    /\ fds[t] = "inserted"
    /\ UNCHANGED <<locked_files, deaths>>
    /\ IF owner \in {"nobody", Process(t)}
       THEN Goes(t, "holds") /\ owner' = Process(t) /\ UNCHANGED dropped
       ELSE Goes(t, "refused") /\ CloseFd(t)

Remove(t) ==
    /\ fds[t] \in {"refused", "unlocked"}
    /\ locked_files' = [locked_files EXCEPT ![Process(t)] = FALSE]
    /\ Goes(t, IF fds[t] = "refused" THEN "none" ELSE "removed")
    /\ UNCHANGED <<owner, dropped, deaths>>

Unlock(t) ==
    /\ fds[t] = "holds"
    /\ Goes(t, "unlocked")
    /\ owner' = IF owner = Process(t) THEN "nobody" ELSE owner
    /\ dropped' = dropped \ {t}
    /\ UNCHANGED <<locked_files, deaths>>

CloseUnlocked(t) ==
    /\ fds[t] = "removed"
    /\ Goes(t, "none")
    /\ CloseFd(t)
    /\ UNCHANGED <<locked_files, deaths>>

\* A process ends anywhere, and begins again without its table.
Die(p) ==
    /\ deaths < Crashes
    /\ deaths' = deaths + 1
    /\ fds' = [t \in Threads |-> IF Process(t) = p THEN "none" ELSE fds[t]]
    /\ locked_files' = [locked_files EXCEPT ![p] = FALSE]
    /\ owner' = IF owner = p THEN "nobody" ELSE owner
    /\ dropped' = {t \in dropped : Process(t) # p}

LockNext ==
    \/ \E t \in Threads :
        OpenLockFile(t) \/ Insert(t) \/ SetLock(t) \/ Remove(t) \/ Unlock(t) \/ CloseUnlocked(t)
    \/ \E p \in Processes : Die(p)

-----------------------------------------------------------------------------
(* Limiter and NewRandomAccessFile.  files[t] is what thread t has of a    *)
(* file; Acquire looks once without the mutex and once with it.            *)

LimitInit ==
    /\ allowed = [mmap |-> mmap_limit, fd |-> fd_limit]
    /\ files = [t \in Threads |-> "none"]

Becomes(t, to) == files' = [files EXCEPT ![t] = to]
Take(kind) == allowed' = [allowed EXCEPT ![kind] = @ - 1]
Release(kind) == allowed' = [allowed EXCEPT ![kind] = @ + 1]

\* NewRandomAccessFile after open, and the first look of Acquire.
OpenFile(t) ==
    /\ files[t] = "none"
    /\ Becomes(t, IF allowed.mmap > 0 THEN "mmap?" ELSE "constructed")
    /\ UNCHANGED allowed

AcquireMmap(t) ==
    /\ files[t] = "mmap?"
    /\ IF allowed.mmap > 0 THEN Becomes(t, "mapping") /\ Take("mmap")
       ELSE Becomes(t, "constructed") /\ UNCHANGED allowed

\* GetFileSize and mmap.
Map(t) == files[t] = "mapping" /\ Becomes(t, "mapped") /\ UNCHANGED allowed
MapFails(t) == files[t] = "mapping" /\ Becomes(t, "none") /\ Release("mmap")

\* The constructor of PosixRandomAccessFile: a file over the limit is opened at every read.
ConstructFile(t) ==
    /\ files[t] = "constructed"
    /\ Becomes(t, IF allowed.fd > 0 THEN "fd?" ELSE "temporary")
    /\ UNCHANGED allowed

AcquireFd(t) ==
    /\ files[t] = "fd?"
    /\ IF allowed.fd > 0 THEN Becomes(t, "open") /\ Take("fd") ELSE Becomes(t, "temporary") /\ UNCHANGED allowed

CloseFile(t) ==
    /\ Becomes(t, "none")
    /\ \/ files[t] = "mapped" /\ Release("mmap")
       \/ files[t] = "open" /\ Release("fd")
       \/ files[t] = "temporary" /\ UNCHANGED allowed

LimitNext ==
    \E t \in Threads :
        OpenFile(t) \/ AcquireMmap(t) \/ Map(t) \/ MapFails(t) \/ ConstructFile(t) \/ AcquireFd(t) \/ CloseFile(t)

-----------------------------------------------------------------------------
(* Schedule and BGThread.                                                  *)

QueueInit ==
    /\ queue = <<>>
    /\ bgthread = "none"
    /\ signalled = FALSE
    /\ scheduled = 0
    /\ ran = <<>>

\* The thread is started by the first item, and signalled when it may wait.
Schedule ==
    /\ scheduled < MaxItems
    /\ scheduled' = scheduled + 1
    /\ queue' = Append(queue, scheduled')
    /\ bgthread' = IF bgthread = "none" THEN "ready" ELSE bgthread
    /\ signalled' = (signalled \/ (bgthread = "waiting" /\ queue = <<>>))
    /\ UNCHANGED ran

WaitForItem ==
    /\ bgthread = "ready" /\ queue = <<>>
    /\ bgthread' = "waiting"
    /\ signalled' = FALSE
    /\ UNCHANGED <<queue, scheduled, ran>>

\* A wait may also end by itself.
Wake == bgthread = "waiting" /\ bgthread' = "ready" /\ UNCHANGED <<queue, signalled, scheduled, ran>>

PopItem ==
    /\ bgthread = "ready" /\ queue # <<>>
    /\ bgthread' = "running"
    /\ ran' = Append(ran, Head(queue))
    /\ queue' = Tail(queue)
    /\ UNCHANGED <<signalled, scheduled>>

FunctionReturns ==
    bgthread = "running" /\ bgthread' = "ready" /\ UNCHANGED <<queue, signalled, scheduled, ran>>

QueueNext == Schedule \/ WaitForItem \/ Wake \/ PopItem \/ FunctionReturns

-----------------------------------------------------------------------------
(* SetCurrentFile through DoWriteStringToFile and PosixWritableFile.  Of a *)
(* file, os characters are with the system and disk of them on the disk;   *)
(* a name in CURRENT is Whole characters long.                             *)

Whole == 2
Old == [os |-> Whole, disk |-> Whole, renamed |-> FALSE]
NoFile == [os |-> -1, disk |-> -1]

CurrentInit ==
    /\ writing = "none"
    /\ tmp = NoFile
    /\ current = Old
    /\ crashes = 0

Steps(from, to) == writing = from /\ writing' = to

NewWritableFile ==
    /\ Steps("none", "opened")
    /\ tmp' = [os |-> 0, disk |-> 0]
    /\ UNCHANGED <<current, crashes>>

\* What has no room in the buffer goes to the system at once.
AppendData ==
    /\ Steps("opened", "appended")
    /\ \E n \in 0..Whole : tmp' = [tmp EXCEPT !.os = n]
    /\ UNCHANGED <<current, crashes>>

\* Mutant: the file is not synced before it is renamed.
FlushOnly ==
    Steps("appended", "synced") /\ tmp' = [tmp EXCEPT !.os = Whole] /\ UNCHANGED <<current, crashes>>

Sync ==
    /\ Steps("appended", "synced")
    /\ tmp' = [os |-> Whole, disk |-> Whole]
    /\ UNCHANGED <<current, crashes>>

\* Closed, then renamed.
CloseWritten == Steps("synced", "closed") /\ UNCHANGED <<tmp, current, crashes>>

RenameFile ==
    /\ Steps("closed", "done")
    /\ current' = [os |-> tmp.os, disk |-> tmp.disk, renamed |-> TRUE]
    /\ tmp' = NoFile
    /\ UNCHANGED crashes

\* Any call fails: what there is of the file is deleted.
Fails ==
    /\ writing \notin {"none", "done"}
    /\ writing' = "done"
    /\ tmp' = NoFile
    /\ UNCHANGED <<current, crashes>>

\* The process ends, and what is in its buffers is lost.
ProcessCrash ==
    /\ crashes < Crashes
    /\ crashes' = crashes + 1
    /\ writing' = "none"
    /\ UNCHANGED <<tmp, current>>

\* The machine stops: of a file, any part between what is on the disk and what
\* the system has is left, and a rename is perhaps undone.
MachineCrash ==
    /\ crashes < Crashes
    /\ crashes' = crashes + 1
    /\ writing' = "none"
    /\ \E n \in (IF tmp = NoFile THEN {-1} ELSE tmp.disk..tmp.os) : tmp' = [os |-> n, disk |-> n]
    /\ \E n \in current.disk..current.os :
            \/ current' = [current EXCEPT !.os = n, !.disk = n]
            \/ current.renamed /\ current' = Old

CurrentNext ==
    \/ NewWritableFile \/ AppendData \/ Sync \/ CloseWritten \/ RenameFile
    \/ Fails \/ ProcessCrash \/ MachineCrash

-----------------------------------------------------------------------------
Init == LockInit /\ LimitInit /\ QueueInit /\ CurrentInit

Next ==
    \/ LockNext /\ UNCHANGED <<limitVars, queueVars, currentVars>>
    \/ LimitNext /\ UNCHANGED <<lockVars, queueVars, currentVars>>
    \/ QueueNext /\ UNCHANGED <<lockVars, limitVars, currentVars>>
    \/ CurrentNext /\ UNCHANGED <<lockVars, limitVars, queueVars>>

Spec == Init /\ [][Next]_envVars

-----------------------------------------------------------------------------
\* Two threads never have the lock of a database: not of one process, and of
\* two processes only if one of them closed another descriptor of the lock file,
\* which takes the lock from whoever has it there.
LocksExclude ==
    \A t, u \in Threads :
        fds[t] = "holds" /\ fds[u] = "holds" /\ t # u =>
            Process(t) # Process(u) /\ dropped \cap {t, u} # {}

\* As many files are mapped or kept open as the limits allow, and what a file
\* had of them is given back, also when it could not be mapped.
LimitsHold ==
    /\ allowed.mmap >= 0 /\ allowed.fd >= 0
    /\ allowed.mmap + Cardinality({t \in Threads : files[t] \in {"mapping", "mapped"}}) = mmap_limit
    /\ allowed.fd + Cardinality({t \in Threads : files[t] = "open"}) = fd_limit

\* What is scheduled runs once, in order, and the thread never sleeps on it.
WorkIsRun ==
    /\ ran \o queue = [n \in 1..scheduled |-> n]
    /\ bgthread = "waiting" /\ queue # <<>> => signalled
    /\ queue # <<>> => bgthread # "none"

\* Whatever fails or crashes, CURRENT holds a whole name, the old or the new.
CurrentIsWhole == current.os = Whole /\ current.disk = Whole
=============================================================================
