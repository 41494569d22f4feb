------------------------------- MODULE Levels -------------------------------
(***************************************************************************)
(* The tables of leveldb in their levels: how a version is searched, how   *)
(* the inputs of a compaction are chosen and what the compaction makes of  *)
(* them.  A user key is a number, an entry the record of a write, a table  *)
(* its number and its entries in order, and its size their count.  A       *)
(* version is a function from levels to sequences of tables.               *)
(***************************************************************************)
EXTENDS Integers, SequencesExt, FiniteSetsExt

CONSTANTS
    LastKey,                    \* user keys are 1..LastKey
    NumLevels,                  \* config::kNumLevels
    MaxMemCompactLevel,         \* config::kMaxMemCompactLevel
    L0CompactionTrigger,        \* config::kL0_CompactionTrigger
    MaxBytesForLevel,           \* of level 1; ten times as many for the next
    MaxFileSize,                \* options.max_file_size
    MaxGrandParentOverlap,      \* MaxGrandParentOverlapBytes
    ExpandedCompactionSize      \* ExpandedCompactionByteSizeLimit

LevelNumbers == 0..(NumLevels - 1)

\* The order of InternalKeyComparator: user keys up, sequence numbers down.
Before(a, b) == a.key < b.key \/ (a.key = b.key /\ a.seq > b.seq)

Smallest(f) == f.entries[1]
Largest(f) == Last(f.entries)

TotalFileSize(files) == FoldSeq(LAMBDA f, n : Len(f.entries) + n, 0, files)

\* A set as a sequence, by rank in a total order.
InOrder(S, op(_, _)) == [i \in 1..Cardinality(S) |-> CHOOSE x \in S : Cardinality({y \in S : op(y, x)}) = i - 1]

\* The first table whose largest key is not before the target, by bisection.
FindFile(files, target) ==
    LET find[left \in 0..Len(files), right \in 0..Len(files)] ==
            LET mid == (left + right) \div 2
            IN  IF left >= right THEN right
                ELSE IF Before(Largest(files[mid + 1]), target) THEN find[mid + 1, right]
                ELSE find[left, mid]
    IN  find[0, Len(files)] + 1

\* AfterFile and BeforeFile say no.
Overlaps(f, lo, hi) == Largest(f).key >= lo /\ Smallest(f).key <= hi

\* An entry that comes before every one of its user key that a snapshot sees.
LookupKey(key, snapshot) == [key |-> key, seq |-> snapshot]
MaxSequence == 1000

OverlapInLevel(v, level, lo, hi) ==
    IF level = 0 THEN \E i \in DOMAIN v[0] : Overlaps(v[0][i], lo, hi)
    ELSE LET i == FindFile(v[level], LookupKey(lo, MaxSequence))
         IN  i <= Len(v[level]) /\ Smallest(v[level][i]).key <= hi

MinKey(files) == Min({Smallest(files[i]).key : i \in DOMAIN files})
MaxKey(files) == Max({Largest(files[i]).key : i \in DOMAIN files})

\* At level 0, where tables overlap, the range grows until it cuts none.
GetOverlappingInputs(v, level, lo, hi) ==
    LET In(a, b) == SelectSeq(v[level], LAMBDA f : Overlaps(f, a, b))
        grow[a \in 0..(LastKey + 1), b \in 0..(LastKey + 1)] ==
            LET files == In(a, b)
                a2 == Min({a, MinKey(files)})
                b2 == Max({b, MaxKey(files)})
            IN  IF files = <<>> \/ (a2 = a /\ b2 = b) THEN files ELSE grow[a2, b2]
    IN  IF level = 0 THEN grow[lo, hi] ELSE In(lo, hi)

-----------------------------------------------------------------------------
\* The tables a search for a key opens, in order: of level 0 all that cover it,
\* newest first, of a deeper level at most one.
FilesToSearch(v, key, snapshot) ==
    LET At(level) ==
            LET i == FindFile(v[level], LookupKey(key, snapshot))
            IN  IF i <= Len(v[level]) /\ Smallest(v[level][i]).key <= key THEN <<v[level][i]>> ELSE <<>>
        covering == SelectSeq(v[0], LAMBDA f : Overlaps(f, key, key))
    IN  SortSeq(covering, LAMBDA f, g : f.number > g.number)
            \o FlattenSeq([level \in 1..(NumLevels - 1) |-> At(level)])

\* The entry of a table at which a seek for the key arrives, if it is the key's.
InTable(f, key, snapshot) ==
    {e \in {f.entries[i] : i \in {SelectInSeq(f.entries, LAMBDA x : ~Before(x, LookupKey(key, snapshot)))} \ {0}} : e.key = key}

\* How many tables Version::Get opens before it is done.
Opened(v, key, snapshot) ==
    LET files == FilesToSearch(v, key, snapshot)
        hit == SelectInSeq(files, LAMBDA f : InTable(f, key, snapshot) # {})
    IN  IF hit = 0 THEN files ELSE SubSeq(files, 1, hit)

\* The entry that Version::Get finds, as a set of at most one.
VersionGet(v, key, snapshot) ==
    LET files == Opened(v, key, snapshot)
    IN  IF files = <<>> THEN {} ELSE InTable(Last(files), key, snapshot)

\* The table a Get charges with a seek: the first, if it opened more than one.
SeekFiles(v, key, snapshot) ==
    IF Len(Opened(v, key, snapshot)) > 1 THEN {Opened(v, key, snapshot)[1]} ELSE {}

LevelOf(v, f) == CHOOSE level \in LevelNumbers : \E i \in DOMAIN v[level] : v[level][i] = f

\* Where the table of a memtable goes: as deep as nothing overlaps it.
PickLevelForMemTableOutput(v, lo, hi) ==
    LET pick[level \in LevelNumbers] ==
            IF \/ level >= MaxMemCompactLevel
               \/ OverlapInLevel(v, level + 1, lo, hi)
               \/ /\ level + 2 < NumLevels
                  /\ TotalFileSize(GetOverlappingInputs(v, level + 2, lo, hi)) > MaxGrandParentOverlap
            THEN level ELSE pick[level + 1]
    IN  IF OverlapInLevel(v, 0, lo, hi) THEN 0 ELSE pick[0]

\* Builder::Apply and SaveTo: tables added at levels, numbers gone from levels.
SaveTo(v, deleted, added) ==
    LET BySmallestKey(f, g) ==
            Before(Smallest(f), Smallest(g)) \/ (Smallest(f) = Smallest(g) /\ f.number < g.number)
        Files(level) == {f \in ToSet(v[level]) : <<level, f.number>> \notin deleted} \cup {a[2] : a \in {x \in added : x[1] = level}}
    IN  [level \in LevelNumbers |-> InOrder(Files(level), BySmallestKey)]

\* Finalize: the level most in need of a compaction and whether it needs one.  A
\* score is a fraction.
Score(v, level) ==
    IF level = 0 THEN <<Len(v[0]), L0CompactionTrigger>>
    ELSE <<TotalFileSize(v[level]), MaxBytesForLevel * 10^(level - 1)>>
CompactionLevel(v) ==
    LET Beats(a, b) == Score(v, a)[1] * Score(v, b)[2] > Score(v, b)[1] * Score(v, a)[2]
    IN  CHOOSE level \in 0..(NumLevels - 2) :
            \A other \in 0..(NumLevels - 2) : ~Beats(other, level) /\ (other < level => Beats(level, other))
NeedsSizeCompaction(v) == LET s == Score(v, CompactionLevel(v)) IN s[1] >= s[2]

-----------------------------------------------------------------------------
\* SetupOtherInputs: the inputs of the next level, and more of this level if that
\* adds none there.
SetupOtherInputs(v, level, inputs0) ==
    LET Above(files, l) == GetOverlappingInputs(v, l, MinKey(files), MaxKey(files))
        inputs1 == Above(inputs0, level + 1)
        expanded0 == Above(inputs0 \o inputs1, level)
        expand == /\ inputs1 # <<>>
                  /\ Len(expanded0) > Len(inputs0)
                  /\ TotalFileSize(inputs1) + TotalFileSize(expanded0) < ExpandedCompactionSize
                  /\ Len(Above(expanded0, level + 1)) = Len(inputs1)
        first == IF expand THEN expanded0 ELSE inputs0
    IN  [level |-> level, inputs |-> <<first, inputs1>>, base |-> v,
         grandparents |-> IF level + 2 < NumLevels THEN Above(first \o inputs1, level + 2) ELSE <<>>]

\* The entry GetRange ends with.
LargestOf(files) ==
    LET all == {Largest(files[i]) : i \in DOMAIN files}
    IN  CHOOSE e \in all : \A x \in all : ~Before(e, x)

\* PickCompaction for the size of a level: the first table behind the pointer, or
\* the first of all, and at level 0 whatever it overlaps.
WithOverlaps(v, level, f) ==
    IF level > 0 THEN <<f>> ELSE GetOverlappingInputs(v, 0, Smallest(f).key, Largest(f).key)

SizeCompaction(v, pointers) ==
    LET level == CompactionLevel(v)
        i == SelectInSeq(v[level], LAMBDA f : pointers[level] = {} \/ \E p \in pointers[level] : Before(p, Largest(f)))
    IN  SetupOtherInputs(v, level, WithOverlaps(v, level, v[level][IF i = 0 THEN 1 ELSE i]))

\* PickCompaction for a table that too many reads opened in vain.
SeekCompaction(v, f) == SetupOtherInputs(v, LevelOf(v, f), WithOverlaps(v, LevelOf(v, f), f))

\* CompactRange: what there is in the range, not too much of it at once.
ManualInputs(v, level, lo, hi) ==
    LET files == GetOverlappingInputs(v, level, lo, hi)
        enough == {n \in DOMAIN files : TotalFileSize(SubSeq(files, 1, n)) >= MaxFileSize}
    IN  IF level = 0 \/ enough = {} THEN files ELSE SubSeq(files, 1, Min(enough))

IsTrivialMove(c) ==
    Len(c.inputs[1]) = 1 /\ c.inputs[2] = <<>> /\ TotalFileSize(c.grandparents) <= MaxGrandParentOverlap

\* No deeper level than the output's can have the key.
IsBaseLevelForKey(c, key) ==
    \A level \in (c.level + 2)..(NumLevels - 1) : \A i \in DOMAIN c.base[level] : ~Overlaps(c.base[level][i], key, key)

\* Mutant: snapshots are not minded.
HiddenFromAll(newer, snapshot) == newer < MaxSequence

\* An entry nobody can see for a newer one of its key.
Hidden(newer, snapshot) == newer <= snapshot

\* A table of the output is full.
Full(entries) == Len(entries) >= MaxFileSize

\* The loop of DoCompactionWork over the merged inputs: an entry that nobody can
\* see, and a deletion of nothing, are dropped, a table is closed when it is full
\* or would overlap too much of the level below.
CompactionOutputs(c, smallestSnapshot) ==
    LET entries == InOrder(UNION {ToSet(f.entries) : f \in ToSet(c.inputs[1] \o c.inputs[2])}, Before)
        Passed(e) == {i \in DOMAIN c.grandparents : Before(Largest(c.grandparents[i]), e)}
        Keep(st, e) ==
            LET newer == IF st.key = e.key THEN st.newer ELSE MaxSequence
            IN  /\ ~Hidden(newer, smallestSnapshot)
                /\ ~(e.type = "deletion" /\ e.seq <= smallestSnapshot /\ IsBaseLevelForKey(c, e.key))
        Close(st) == IF st.table = <<>> THEN st ELSE [st EXCEPT !.tables = Append(@, st.table), !.table = <<>>]
        Overlapped(st, e) ==
            IF st.key = 0 THEN 0
            ELSE st.overlapped + TotalFileSize(SetToSeq({c.grandparents[i] : i \in Passed(e) \ st.passed}))
        Stopped(st, e, n) ==
            [st EXCEPT !.passed = Passed(e), !.stop = n > MaxGrandParentOverlap,
                       !.overlapped = IF n > MaxGrandParentOverlap THEN 0 ELSE n]
        ShouldStopBefore(st, e) == Stopped(st, e, Overlapped(st, e))
        Add(st, e) == IF Keep(st, e) THEN [st EXCEPT !.table = Append(@, e)] ELSE st
        Added(a, e) == Add(IF a.stop THEN Close(a) ELSE a, e)
        CloseIfFull(b) == IF Full(b.table) THEN Close(b) ELSE b
        Step(st, e) ==
            [CloseIfFull(Added(ShouldStopBefore(st, e), e)) EXCEPT !.key = e.key, !.newer = e.seq]
        start == [tables |-> <<>>, table |-> <<>>, key |-> 0, newer |-> 0, passed |-> {}, overlapped |-> 0, stop |-> FALSE]
    IN  Close(FoldLeft(Step, start, entries)).tables

=============================================================================
