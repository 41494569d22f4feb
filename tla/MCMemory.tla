------------------------------ MODULE MCMemory ------------------------------
(***************************************************************************)
(* The structures a store keeps in memory, side by side: all are in their  *)
(* initial states and part tells which one is used.                        *)
(*   - a skip list into which three of its keys are inserted, one reader;   *)
(*   - a memtable over such a list: two user keys, sequence numbers up to  *)
(*     two, batches of up to two entries;                                  *)
(*   - an arena of blocks of 16 bytes, pointers of four, pieces around a   *)
(*     quarter block;                                                      *)
(*   - a cache for two entries, three keys, of which two share a bucket;   *)
(*   - a cache of tables with two threads, three files, room for two.      *)
(***************************************************************************)
EXTENDS MemTable, Arena

CONSTANT LastKey                \* bound: the keys of the list alone

VARIABLES
    part,
    cache, handles, deleted,
    tables, tableHandles, closed, thread, obsolete

\* What the proofs about them suppose.
ASSUME StructuresAreSound == MemParameters /\ ArenaParameters

Cache ==
    INSTANCE LruCache WITH
        Keys <- 0..2, Charges <- {1}, Capacity <- 2, MinLength <- 1, MaxEntries <- 4, MaxHandles <- 2
Tables ==
    INSTANCE TableCache WITH
        Keys <- 0..2, Charges <- {1}, Capacity <- 2, MinLength <- 1, MaxEntries <- 6, MaxHandles <- 2,
        Threads <- {"t1", "t2"}, MayFail <- TRUE,
        cache <- tables, handles <- tableHandles, deleted <- closed

cacheVars == <<cache, handles, deleted>>
tableVars == <<tables, tableHandles, closed, thread, obsolete>>
memoryVars == <<part, vars, memVars, arenaVars, cacheVars, tableVars>>

MemoryInit ==
    /\ part \in {"list", "mem", "arena", "cache", "tables"}
    /\ MemInit /\ ArenaInit /\ Cache!Init /\ Tables!TableInit

\* The list alone has the first of the keys only.
ListNext ==
    /\ Next
    /\ {writer'.key} \cup {reader'[r].target : r \in Readers} \subseteq 0..LastKey \cup {Null}

MemoryNext ==
    /\ \/ part = "list" /\ ListNext /\ UNCHANGED <<memVars, arenaVars, cacheVars, tableVars>>
       \/ part = "mem" /\ MemNext /\ UNCHANGED <<arenaVars, cacheVars, tableVars>>
       \/ part = "arena" /\ ArenaNext /\ UNCHANGED <<vars, memVars, cacheVars, tableVars>>
       \/ part = "cache" /\ Cache!Next /\ UNCHANGED <<vars, memVars, arenaVars, tableVars>>
       \/ part = "tables" /\ Tables!TableNext /\ UNCHANGED <<vars, memVars, arenaVars, cacheVars>>
    /\ UNCHANGED part

MemorySpec == MemoryInit /\ [][MemoryNext]_memoryVars

-----------------------------------------------------------------------------
(* The properties of LruCache and TableCache; those of SkipList, MemTable  *)
(* and Arena are stated there.                                             *)

\* The counts of a cache are those of its lists and clients, entries live as
\* long as they are used, and the oldest of the unused ones goes first.
CacheIsSound ==
    [][part = "cache" =>
         /\ Cache!CountsAgree
         /\ Cache!DeletedOnceUnused
         /\ Cache!LookupFindsTheLast
         /\ Cache!KeepsCapacity
         /\ Cache!EvictsOldest]_memoryVars

\* Tables that are read are open, files that are gone are closed, and no more
\* are open than the cache and its clients hold.
TablesAreSound ==
    [][part = "tables" =>
         /\ Tables!CountsAgree
         /\ Tables!TablesInUseAreOpen
         /\ Tables!DeletedFilesAreClosed
         /\ Tables!OpenFilesAreBounded]_memoryVars

=============================================================================
