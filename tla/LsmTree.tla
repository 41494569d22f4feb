------------------------------ MODULE LsmTree ------------------------------
(***************************************************************************)
(* What becomes of written data: it goes from the memtable into a table,   *)
(* and tables go down the levels by compactions, while snapshots still     *)
(* want to see what they saw.  The background thread takes one compaction  *)
(* at a time; the loop over its inputs runs without the mutex, so that     *)
(* writes, snapshots and, in the loop itself, the table of a memtable come *)
(* between its start and its end.                                          *)
(***************************************************************************)
EXTENDS Levels

CONSTANTS
    MaxWrites,                  \* bound: calls of Put and Delete
    MaxSnapshots,               \* bound: snapshots alive at a time
    MaxTables,                  \* bound: memtables made into tables
    Types,                      \* what a write may be: a "value", a "deletion"
    ManualRanges,               \* the calls of CompactRange: <<level, begin, end>>
    ManualUnderWrites           \* does the loop of its compactions meet a full memtable

VARIABLES
    writes,                     \* writes[seq]: the write with that number
    mem,                        \* the entries of the memtable
    version,                    \* the current version
    pointers,                   \* compact_pointer_, at most one entry a level
    snapshots,                  \* snapshots_, their sequence numbers
    compaction,                 \* the running compaction, at most one
    nextFile,                   \* next_file_number_
    flushes                     \* counts the tables made of memtables

vars == <<writes, mem, version, pointers, snapshots, compaction, nextFile, flushes>>

Keys == 1..LastKey
LastSequence == Len(writes)

Init ==
    /\ writes = <<>> /\ mem = {}
    /\ version = [level \in LevelNumbers |-> <<>>]
    /\ pointers = [level \in LevelNumbers |-> {}]
    /\ snapshots = {} /\ compaction = {}
    /\ nextFile = 1 /\ flushes = 0

-----------------------------------------------------------------------------
\* Put and Delete.
Write(key, type) ==
    /\ LastSequence < MaxWrites
    /\ writes' = Append(writes, [key |-> key, type |-> type])
    /\ mem' = mem \cup {[key |-> key, seq |-> LastSequence + 1, type |-> type]}
    /\ UNCHANGED <<version, pointers, snapshots, compaction, nextFile, flushes>>


GetSnapshot ==
    /\ Cardinality(snapshots) < MaxSnapshots
    /\ LastSequence \notin snapshots
    /\ snapshots' = snapshots \cup {LastSequence}
    /\ UNCHANGED <<writes, mem, version, pointers, compaction, nextFile, flushes>>

ReleaseSnapshot(s) ==
    /\ s \in snapshots
    /\ snapshots' = snapshots \ {s}
    /\ UNCHANGED <<writes, mem, version, pointers, compaction, nextFile, flushes>>

-----------------------------------------------------------------------------
\* next_file_number_ after n calls of NewFileNumber.
NumbersUsed(n) == nextFile + n

PickLevel(v, lo, hi) == PickLevelForMemTableOutput(v, lo, hi)

\* CompactMemTable, of its own or in the loop of a compaction.
CompactMemTable ==
    LET entries == InOrder(mem, Before)
        level == PickLevel(version, entries[1].key, Last(entries).key)
    IN  /\ mem # {} /\ flushes < MaxTables
        /\ \A c \in compaction : c.manual => ManualUnderWrites
        /\ version' = SaveTo(version, {}, {<<level, [number |-> nextFile, entries |-> entries]>>})
        /\ mem' = {}
        /\ nextFile' = NumbersUsed(1) /\ flushes' = flushes + 1
        /\ UNCHANGED <<writes, pointers, snapshots, compaction>>

SmallestSnapshot == IF snapshots = {} THEN LastSequence ELSE Min(snapshots)

\* The inputs are chosen, the pointer of the level is moved past them at once.
Start(c, manual) ==
    /\ compaction = {}
    /\ pointers' = [pointers EXCEPT ![c.level] = {LargestOf(c.inputs[1])}]
    /\ IF ~manual /\ IsTrivialMove(c)
       THEN /\ version' = SaveTo(version, {<<c.level, c.inputs[1][1].number>>}, {<<c.level + 1, c.inputs[1][1]>>})
            /\ UNCHANGED compaction
       ELSE /\ compaction' = {[work |-> c, manual |-> manual, smallestSnapshot |-> SmallestSnapshot]}
            /\ UNCHANGED version
    /\ UNCHANGED <<writes, mem, snapshots, nextFile, flushes>>

CompactForSize ==
    NeedsSizeCompaction(version) /\ \E c \in {SizeCompaction(version, pointers)} : Start(c, FALSE)

\* Reads of a key have opened a table in vain as often as they may.
CompactForSeeks(key) ==
    /\ ~NeedsSizeCompaction(version)
    /\ \E f \in SeekFiles(version, key, LastSequence) :
           /\ LevelOf(version, f) < NumLevels - 1
           /\ \E c \in {SeekCompaction(version, f)} : Start(c, FALSE)

CompactRange(level, lo, hi) ==
    \E inputs \in {ManualInputs(version, level, lo, hi)} :
        inputs # <<>> /\ \E c \in {SetupOtherInputs(version, level, inputs)} : Start(c, TRUE)

\* The end of DoCompactionWork: the tables it wrote take the place of its inputs.
InstallCompactionResults ==
    \E c \in compaction :
        \E outputs \in {CompactionOutputs(c.work, c.smallestSnapshot)} :
            LET gone == {<<c.work.level + which - 1, c.work.inputs[which][i].number>> :
                            <<which, i>> \in {p \in (1..2) \X (1..(MaxTables + MaxWrites)) : p[2] <= Len(c.work.inputs[p[1]])}}
                made == {<<c.work.level + 1, [number |-> nextFile + i - 1, entries |-> outputs[i]]>> : i \in DOMAIN outputs}
            IN  /\ version' = SaveTo(version, gone, made)
                /\ nextFile' = NumbersUsed(Len(outputs))
                /\ compaction' = {}
                /\ UNCHANGED <<writes, mem, pointers, snapshots, flushes>>

Next ==
    \/ \E key \in Keys, type \in Types : Write(key, type)
    \/ GetSnapshot
    \/ \E s \in snapshots : ReleaseSnapshot(s)
    \/ CompactMemTable
    \/ CompactForSize
    \/ \E key \in Keys : CompactForSeeks(key)
    \/ \E r \in ManualRanges : CompactRange(r[1], r[2], r[3])
    \/ InstallCompactionResults

Spec == Init /\ [][Next]_vars

-----------------------------------------------------------------------------
\* Types; no two tables have one number, and none has one yet to be given.
TypeOK ==
    /\ \A e \in mem : e.key \in Keys /\ e.seq \in 1..LastSequence
    /\ snapshots \subseteq 0..LastSequence
    /\ LET places == {p \in LevelNumbers \X (1..nextFile) : p[2] <= Len(version[p[1]])}
           Table(p) == version[p[1]][p[2]]
       IN  \A p, q \in places : /\ Table(p).number \in 1..(nextFile - 1) /\ Table(p).entries # <<>>
                                /\ p # q => Table(p).number # Table(q).number

\* What a read at a sequence number should see: the last write of the key up to it.
Expected(key, s) ==
    LET seqs == {n \in 1..s : writes[n].key = key}
    IN  IF seqs = {} \/ writes[Max(seqs)].type = "deletion" THEN {} ELSE {Max(seqs)}

\* What Get returns: the memtable's newest entry that the snapshot sees, or the one
\* it finds in the tables.
Get(key, s) ==
    LET inMem == {e \in mem : e.key = key /\ e.seq <= s}
        found == IF inMem # {} THEN {CHOOSE e \in inMem : \A x \in inMem : x.seq <= e.seq}
                 ELSE VersionGet(version, key, s)
    IN  {e.seq : e \in {x \in found : x.type = "value"}}

(* Whatever was compacted, a read of the newest data and of every live     *)
(* snapshot returns the write it should, no older one, no deleted one and  *)
(* not nothing (DBImpl::Get db_impl.cc:1109-1155).                         *)
ReadsAreRight == \A key \in Keys, s \in snapshots \cup {LastSequence} : Get(key, s) = Expected(key, s)

(* Tables of a level below 0 are disjoint and in order, also when the      *)
(* table of a memtable came in while a compaction into the level ran: the  *)
(* binary search for a key looks into one of them (version_set.cc:742-752, *)
(* 763-767).                                                               *)
LevelsAreDisjoint ==
    \A level \in LevelNumbers \ {0} : \A i \in 1..(Len(version[level]) - 1) :
        Before(Largest(version[level][i]), Smallest(version[level][i + 1]))

(* "entries never hop across levels" (version_set.cc:346): of two entries  *)
(* of a key in different levels, the one nearer to level 0 is the newer.   *)
EntriesNeverHop ==
    \A a, b \in LevelNumbers : a < b =>
        \A i \in DOMAIN version[a], j \in DOMAIN version[b] :
            \A m \in DOMAIN version[a][i].entries, n \in DOMAIN version[b][j].entries :
                version[a][i].entries[m].key = version[b][j].entries[n].key =>
                    version[a][i].entries[m].seq > version[b][j].entries[n].seq
=============================================================================
