----------------------------- MODULE MCStorage ------------------------------
(***************************************************************************)
(* The files of a store, side by side: all parts are in an initial state   *)
(* and part tells which one runs.                                          *)
(*   - log, failing, intact: a log with a block of five bytes and a header of two:  *)
(*     a record of four bytes always crosses a block, one of two leaves a  *)
(*     trailer of one byte.  Once with a machine crash, a flipped byte and *)
(*     a writer that goes on, once with an append that fails, once with    *)
(*     readers that begin anywhere;                                        *)
(*   - synced: a log with all that loses a synced record;                  *)
(*   - tree, snapshots, manual, split: three levels of tables of two       *)
(*     entries, compacted by themselves, under snapshots, by hand, and     *)
(*     with a bound on expanded compactions as tight as its ratio to a     *)
(*     table is in the code;                                               *)
(*   - recovery, fresh: a store that is opened after crashes, or made.     *)
(***************************************************************************)
EXTENDS Integers

VARIABLES
    part,
    phase, file, frags, written, blockOffset, left, begin, current, synced, happened, damaged,
    initialOffset, at, endOfBuffer, eof, resyncing, inFragmented, scratch, returned, reported,
    writes, mem, version, pointers, snapshots, compaction, nextFile, flushes,
    disk, db, acked, durable, budget

Log ==
    INSTANCE LogFile WITH
        BlockSize <- 5, HeaderSize <- 2, Lengths <- {2, 4}, MaxRecords <- 2, Offsets <- {0},
        Faults <- {"crash", "flip", "reuse"}
Failing ==
    INSTANCE LogFile WITH
        BlockSize <- 5, HeaderSize <- 2, Lengths <- {2, 4}, MaxRecords <- 2, Offsets <- {0},
        Faults <- {"crash", "fail"}
Synced ==
    INSTANCE LogFile WITH
        BlockSize <- 5, HeaderSize <- 2, Lengths <- {2, 4}, MaxRecords <- 2, Offsets <- {0},
        Faults <- {"crash", "reuse", "fail"}
Intact ==
    INSTANCE LogFile WITH
        BlockSize <- 5, HeaderSize <- 2, Lengths <- {0, 1, 2, 3, 5}, MaxRecords <- 3,
        Offsets <- 0..30,  \* as many as a file of three records has bytes
        Faults <- {}

NumLevels == 3
MaxMemCompactLevel == 1
L0CompactionTrigger == 2
MaxBytesForLevel == 2
MaxGrandParentOverlap == 2
ManualUnderWrites == FALSE
EveryType == {"value", "deletion"}

Tree ==
    INSTANCE LsmTree WITH
        LastKey <- 2, MaxFileSize <- 2, ExpandedCompactionSize <- 6,
        MaxWrites <- 5, MaxSnapshots <- 0, MaxTables <- 3, Types <- EveryType, ManualRanges <- {}
Snapshots ==
    INSTANCE LsmTree WITH
        LastKey <- 2, MaxFileSize <- 9, MaxGrandParentOverlap <- 3, ExpandedCompactionSize <- 6,
        MaxWrites <- 4, MaxSnapshots <- 1, MaxTables <- 3, Types <- EveryType, ManualRanges <- {}
Manual ==
    INSTANCE LsmTree WITH
        LastKey <- 3, MaxFileSize <- 2, ExpandedCompactionSize <- 6,
        MaxWrites <- 4, MaxSnapshots <- 0, MaxTables <- 3, Types <- {"value"},
        ManualRanges <- {r \in {0, 1} \X {1, 2} \X {2, 3} : r[2] <= r[3]}
Split ==
    INSTANCE LsmTree WITH
        LastKey <- 2, MaxFileSize <- 2, ExpandedCompactionSize <- 3,
        MaxWrites <- 5, MaxSnapshots <- 1, MaxTables <- 5, Types <- EveryType, ManualRanges <- {}

Store ==
    INSTANCE Recovery WITH
        Fresh <- FALSE, ReuseLogs <- FALSE, MachineCrashes <- 1, ProcessCrashes <- 1, Faults <- 1,
        MaxWrites <- 3, MaxFile <- 10, MaxUnsynced <- 3
FreshStore ==
    INSTANCE Recovery WITH
        Fresh <- TRUE, ReuseLogs <- TRUE, MachineCrashes <- 0, ProcessCrashes <- 2, Faults <- 1,
        MaxWrites <- 3, MaxFile <- 10, MaxUnsynced <- 3

logVars ==
    <<phase, file, frags, written, blockOffset, left, begin, current, synced, happened, damaged,
      initialOffset, at, endOfBuffer, eof, resyncing, inFragmented, scratch, returned, reported>>
treeVars == <<writes, mem, version, pointers, snapshots, compaction, nextFile, flushes>>
storeVars == <<disk, db, acked, durable, budget>>
vars == <<part, logVars, treeVars, storeVars>>

Parts == {"log", "failing", "intact", "tree", "snapshots", "manual", "recovery", "fresh"}
InitOf(parts) ==
    /\ part \in parts
    /\ Log!Init
    /\ Tree!Init
    /\ IF part = "fresh" THEN FreshStore!Init ELSE Store!Init

LogStep(p, A) == part = p /\ A /\ UNCHANGED <<part, treeVars, storeVars>>
TreeStep(p, A) == part = p /\ A /\ UNCHANGED <<part, logVars, storeVars>>
StoreStep(p, A) == part = p /\ A /\ UNCHANGED <<part, logVars, treeVars>>

Step ==
    \/ LogStep("log", Log!Next)
    \/ LogStep("failing", Failing!Next)
    \/ LogStep("intact", Intact!Next)
    \/ TreeStep("tree", Tree!Next)
    \/ TreeStep("snapshots", Snapshots!Next)
    \/ TreeStep("manual", Manual!Next)
    \/ StoreStep("recovery", Store!Next)
    \/ StoreStep("fresh", FreshStore!Next)

\* The end of a part, which may come at any time: the properties say what a
\* reader of the files or of the store would see then.
End ==
    /\ part # "over"
    /\ part' = "over"
    /\ phase' = 0 /\ file' = 0 /\ frags' = 0 /\ written' = 0 /\ blockOffset' = 0 /\ left' = 0 /\ begin' = 0
    /\ current' = 0 /\ synced' = 0 /\ happened' = 0 /\ damaged' = 0 /\ initialOffset' = 0 /\ at' = 0
    /\ endOfBuffer' = 0 /\ eof' = 0 /\ resyncing' = 0 /\ inFragmented' = 0 /\ scratch' = 0
    /\ returned' = 0 /\ reported' = 0
    /\ writes' = 0 /\ mem' = 0 /\ version' = 0 /\ pointers' = 0 /\ snapshots' = 0 /\ compaction' = 0
    /\ nextFile' = 0 /\ flushes' = 0
    /\ disk' = 0 /\ db' = 0 /\ acked' = 0 /\ durable' = 0 /\ budget' = 0

Next == Step \/ End

Spec == InitOf(Parts) /\ [][Next]_vars

SyncedSpec == InitOf({"synced"}) /\ [][LogStep("synced", Synced!Next)]_vars
SplitSpec == InitOf({"split"}) /\ [][TreeStep("split", Split!Next)]_vars

-----------------------------------------------------------------------------
(* The properties of LogFile, LsmTree and Recovery.                        *)

Logs == {"log", "failing", "intact"}
Trees == {"tree", "snapshots", "manual"}
Stores == {"recovery", "fresh"}

\* A reader gets back the records that are whole, in order, and nothing that
\* never was a record; a damaged block costs the records in it and no others.
ReadsBack ==
    [][part' = "over" =>
        /\ part = "log" => Log!ReadsBack /\ Log!LossIsLocal
        /\ part = "failing" => Failing!ReadsBack /\ Failing!LossIsLocal
        /\ part = "intact" => Intact!ReadsBack
        /\ part \in Logs => Log!NeverInvents]_vars

\* A synced record is read back, whatever crashes and appends fail.
SyncedIsRead == Synced!SyncedIsRead

\* Of two entries of a key the newer one is never in a deeper level.
EntriesNeverHop == part \in Trees \cup {"split"} => Tree!EntriesNeverHop

\* Every read, at every snapshot, returns the newest write it may see; tables
\* of a level below 0 do not overlap, and newer entries lie above older ones.
ReadsAreRight ==
    [][part' = "over" =>
        /\ part = "tree" => Tree!ReadsAreRight
        /\ part = "snapshots" => Snapshots!ReadsAreRight
        /\ part = "manual" => Manual!ReadsAreRight
        /\ part \in {"tree", "manual"} => Tree!LevelsAreDisjoint
        /\ EntriesNeverHop]_vars

\* After every crash the store can be opened, and then the writes that the
\* crash may not lose are there; the files that a version in use names exist,
\* and no sequence number is given twice.
AckedWritesSurvive ==
    [][(part \in Stores /\ part' = "over") =>
        Store!StoreCanBeOpened /\ Store!AckedWritesSurvive /\ Store!LiveFilesExist /\ Store!SequenceIsFresh]_vars

=============================================================================
