----------------------------- MODULE TableCache -----------------------------
(***************************************************************************)
(* The open tables of the store: threads find a table in the cache by its  *)
(* file number or open it, without any lock in between, use it and give    *)
(* it back, while files are deleted and evicted.  The value of a cache     *)
(* entry is the table of the file of its key; it is closed by the deleter. *)
(***************************************************************************)
EXTENDS LruCache

CONSTANTS
    Threads,
    MayFail                     \* may opening a file fail for once

VARIABLES
    thread,                     \* thread[t]: where it is, its file and its handle
    obsolete                    \* the files that were deleted

tableVars == <<vars, thread, obsolete>>

Rest == [pc |-> "idle", file |-> 0, handle |-> 0]

TableInit ==
    /\ Init
    /\ thread = [t \in Threads |-> Rest]
    /\ obsolete = {}

\* FindTable: a file that a version needs is looked up.
FindTable(t, file) ==
    /\ thread[t].pc = "idle" /\ file \notin obsolete
    /\ IF TableLookup(cache, file) = {}
       THEN /\ thread' = [thread EXCEPT ![t] = [Rest EXCEPT !.pc = "open", !.file = file]]
            /\ UNCHANGED vars
       ELSE /\ Lookup(file)
            /\ thread' = [thread EXCEPT ![t] = [pc |-> "use", file |-> file, handle |-> CHOOSE e \in TableLookup(cache, file) : TRUE]]
    /\ UNCHANGED obsolete

\* Its file is opened and its table inserted, though another thread may have done so.
Open(t) ==
    /\ thread[t].pc = "open"
    /\ Insert(thread[t].file, 1)
    /\ thread' = [thread EXCEPT ![t].pc = "use", ![t].handle = cache'.used]
    /\ UNCHANGED obsolete

\* Errors are not cached.
OpenFails(t) ==
    /\ thread[t].pc = "open" /\ MayFail
    /\ thread' = [thread EXCEPT ![t] = Rest]
    /\ UNCHANGED <<vars, obsolete>>

\* Get is over, or the iterator is deleted (UnrefEntry).
Finish(t) ==
    /\ thread[t].pc = "use"
    /\ Release(thread[t].handle)
    /\ thread' = [thread EXCEPT ![t] = Rest]
    /\ UNCHANGED obsolete

\* Mutant: files are deleted that are being opened.
UsedOpen(file) == \E t \in Threads : thread[t].file = file /\ thread[t].pc = "use"

\* A version that a thread holds has the file.
Used(file) == \E t \in Threads : thread[t].file = file

\* DeleteObsoleteFiles: a file that no version has is evicted and deleted.
EvictFile(file) ==
    /\ file \notin obsolete /\ ~Used(file)
    /\ Erase(file)
    /\ obsolete' = obsolete \cup {file}
    /\ UNCHANGED thread

TableNext ==
    \/ \E t \in Threads : (\E file \in Keys : FindTable(t, file)) \/ Open(t) \/ OpenFails(t) \/ Finish(t)
    \/ \E file \in Keys : EvictFile(file)

TableSpec == TableInit /\ [][TableNext]_tableVars

-----------------------------------------------------------------------------
OpenTables == {e \in 1..cache.used : deleted[e] = 0}

(* A thread that uses a table has an open one of the right file, although  *)
(* others evict, replace and delete (table_cache.cc:102-117).              *)
TablesInUseAreOpen ==
    \A t \in Threads : thread[t].pc = "use" =>
        deleted[thread[t].handle] = 0 /\ cache.entry[thread[t].handle].key = thread[t].file

(* No table of a file that was deleted stays open: neither the cache nor   *)
(* a table that was replaced in it leaks one (db_impl.cc:262-264).         *)
DeletedFilesAreClosed == \A e \in OpenTables : cache.entry[e].key \notin obsolete

(* No more tables are open than the cache may hold and all threads but one *)
(* use beside it, replaced there by a table of the same file or too many   *)
(* to be kept (max_open_files, db_impl.cc:139-141).                        *)
OpenFilesAreBounded == Cardinality(OpenTables) <= Capacity + Cardinality(Threads) - 1
=============================================================================
