------------------------------ MODULE LogFile -------------------------------
(***************************************************************************)
(* The log format of the local store: log::Writer cuts records into        *)
(* fragments that never cross a block, log::Reader puts them together      *)
(* again, after crashes that tear the file, flipped bytes, appends that    *)
(* fail, and writers that go on where a crash left the file.               *)
(*                                                                         *)
(* A file is a sequence of cells.  A cell knows the fragment it belongs to *)
(* and its place in it: this is what a checksum can tell.                  *)
(***************************************************************************)
EXTENDS Integers, SequencesExt

CONSTANTS
    BlockSize,
    HeaderSize,  \* checksum, length and type: at least 2 and less than a block
    Lengths,     \* bound: how long records are
    MaxRecords,  \* bound: records in a file
    Offsets,     \* where readers begin
    Faults       \* what may happen: some of "crash", "flip", "reuse" and "fail"

VARIABLES
    phase,        \* "writing", "closed", "reading" or "done"
    file,         \* the cells of the file
    frags,        \* type and length of every fragment ever written
    written,      \* the records that are whole in the file
    blockOffset, left, begin, current,  \* the Writer; current is what is
                                        \* written of a record under way
    synced,       \* the length that survives a crash
    happened,     \* the faults so far
    damaged,      \* the blocks where something is broken
    initialOffset, at, endOfBuffer, eof, resyncing,
    inFragmented, scratch, returned,    \* the Reader
    reported      \* whether Reporter::Corruption was called

writerVars == <<blockOffset, left, begin, current>>
readerVars == <<initialOffset, at, endOfBuffer, eof, resyncing, inFragmented, scratch, returned, reported>>
diskVars == <<file, frags, written, synced, happened, damaged>>
vars == <<phase, diskVars, writerVars, readerVars>>

Zero == <<0, 0>>     \* a byte of a trailer
Flipped == <<0, 1>>  \* a byte that is not what was written

Cells(k, n) == [j \in 1..n |-> <<k, j>>]

Block(p) == (p - 1) \div BlockSize

Init ==
    /\ phase = "writing"
    /\ file = <<>> /\ frags = <<>> /\ written = <<>>
    /\ synced = 0 /\ happened = {} /\ damaged = {}
    /\ blockOffset = 0 /\ left = 0 /\ begin = FALSE
    /\ current = [data |-> <<>>, start |-> 0]
    /\ initialOffset = 0 /\ at = 0 /\ endOfBuffer = 0
    /\ eof = FALSE /\ resyncing = FALSE /\ inFragmented = FALSE
    /\ scratch = <<>> /\ returned = <<>> /\ reported = FALSE

Adding == begin \/ left > 0

-----------------------------------------------------------------------------
\* AddRecord is called with a record of n bytes.
AddRecord(n) ==
    /\ phase = "writing" /\ ~Adding
    /\ Len(written) < MaxRecords
    /\ left' = n
    /\ begin' = TRUE
    /\ current' = [data |-> <<>>, start |-> Len(file)]
    /\ UNCHANGED <<phase, diskVars, blockOffset, readerVars>>

\* The type of a fragment, by whether it begins and ends its record.
RecordType(first, last) ==
    IF first THEN IF last THEN "full" ELSE "first"
    ELSE IF last THEN "last" ELSE "middle"

\* Mutant: the header is not counted.
AdvanceWithoutHeader(o, n) == o + n

\* Where in its block a fragment of n bytes at the offset o ends.
Advance(o, n) == o + HeaderSize + n

\* One round of AddRecord's loop: a trailer, if the rest of the block holds no
\* header, and a physical record.  When an Append or the Flush fails, any first
\* part of the bytes may be in the file; the offset advances all the same, and
\* the rest of the record is given up.  Whether the trailer was written nobody
\* asks.  A store goes on with the log after either.
EmitPhysicalRecord ==
    LET leftover == BlockSize - blockOffset
        trailer == IF leftover < HeaderSize THEN leftover ELSE 0
        offset == IF leftover < HeaderSize THEN 0 ELSE blockOffset
        avail == BlockSize - offset - HeaderSize
        length == IF left < avail THEN left ELSE avail
        end == left = length
        k == Len(frags) + 1
        data == current.data \o SubSeq(Cells(k, HeaderSize + length), HeaderSize + 1, HeaderSize + length)
    IN  /\ phase = "writing" /\ Adding
        /\ \E zeros \in 0..trailer, cells \in 0..HeaderSize + length, ok \in BOOLEAN :
              LET failed == zeros < trailer \/ ~ok
                  start == IF begin THEN Len(file) + zeros ELSE current.start
              IN  /\ ok => cells = HeaderSize + length
                  /\ failed => "fail" \in Faults \ happened
                  /\ file' = file \o [j \in 1..zeros |-> Zero] \o Cells(k, cells)
                  /\ happened' = IF failed THEN happened \cup {"fail"} ELSE happened
                  /\ damaged' = IF failed THEN damaged \cup {Block(Len(file) + 1)} ELSE damaged
                  /\ left' = IF ok THEN left - length ELSE 0
                  /\ current' = [data |-> data, start |-> start]
                  /\ written' = IF end /\ cells = HeaderSize + length
                                THEN Append(written, [data |-> data, start |-> start, end |-> Len(file')])
                                ELSE written
        /\ frags' = Append(frags, [type |-> RecordType(begin, end), len |-> length])
        /\ blockOffset' = Advance(offset, length)
        /\ begin' = FALSE
        /\ UNCHANGED <<phase, synced, readerVars>>

\* logfile_->Sync()
Sync ==
    /\ phase = "writing" /\ ~Adding
    /\ synced # Len(file)
    /\ synced' = Len(file)
    /\ UNCHANGED <<phase, file, frags, written, happened, damaged, writerVars, readerVars>>

Close ==
    /\ phase = "writing" /\ ~Adding
    /\ phase' = "closed"
    /\ UNCHANGED <<diskVars, writerVars, readerVars>>

-----------------------------------------------------------------------------
\* The machine stops: what was not synced is there up to some byte.
Crash(n) ==
    /\ "crash" \in Faults \ happened
    /\ phase = "writing"
    /\ n \in synced..Len(file)
    /\ phase' = "closed"
    /\ file' = SubSeq(file, 1, n)
    /\ written' = SelectSeq(written, LAMBDA r : r.end <= n)
    /\ happened' = happened \cup {"crash"}
    /\ left' = 0 /\ begin' = FALSE
    /\ UNCHANGED <<frags, synced, damaged, blockOffset, current, readerVars>>

\* Whether the file ends with the last byte of a record.
EndsWhole == file = <<>> \/ (written # <<>> /\ Last(written).end = Len(file))

\* With reuse_logs, Writer(dest, dest_length) goes on with the file it finds.
Reuse ==
    /\ "reuse" \in Faults \ happened
    /\ phase = "closed"
    /\ phase' = "writing"
    /\ blockOffset' = Len(file) % BlockSize
    /\ happened' = happened \cup {"reuse"}
    /\ damaged' = IF EndsWhole THEN damaged ELSE damaged \cup {Block(Len(file))}
    /\ UNCHANGED <<file, frags, written, synced, left, begin, current, readerVars>>

\* A byte of the file goes bad.
Flip(p) ==
    /\ "flip" \in Faults \ happened
    /\ phase = "closed"
    /\ file' = [file EXCEPT ![p] = Flipped]
    /\ happened' = happened \cup {"flip"}
    /\ damaged' = damaged \cup {Block(p)}
    /\ UNCHANGED <<phase, frags, written, synced, writerVars, readerVars>>

-----------------------------------------------------------------------------
\* The block at which a reader from the offset o begins, unless o is in a trailer.
SkipToInitialBlock(o) ==
    LET inBlock == o % BlockSize
    IN  IF inBlock > BlockSize - (HeaderSize - 1) THEN o - inBlock + BlockSize ELSE o - inBlock

\* A Reader from the offset o, and the first call of ReadRecord.
OpenReader(o) ==
    /\ phase = "closed" /\ o <= Len(file)
    /\ phase' = "reading"
    /\ initialOffset' = o
    /\ resyncing' = (o > 0)
    /\ at' = SkipToInitialBlock(o)
    /\ endOfBuffer' = SkipToInitialBlock(o)
    /\ UNCHANGED <<diskVars, writerVars, eof, inFragmented, scratch, returned, reported>>

Buffered == endOfBuffer - at

ReadBlock ==
    /\ phase = "reading"
    /\ Buffered < HeaderSize /\ ~eof
    /\ at' = endOfBuffer
    /\ endOfBuffer' = IF Len(file) <= endOfBuffer THEN endOfBuffer
                      ELSE IF Len(file) < endOfBuffer + BlockSize THEN Len(file)
                      ELSE endOfBuffer + BlockSize
    /\ eof' = (endOfBuffer' < endOfBuffer + BlockSize)
    /\ UNCHANGED <<phase, diskVars, writerVars, initialOffset, resyncing, inFragmented, scratch, returned, reported>>

\* The fragment whose header should be next, and whether it is there as written.
Frag == file[at + 1][1]
Size == HeaderSize + frags[Frag].len
HeaderIntact == Frag # 0 /\ \A j \in 1..HeaderSize : file[at + j] = <<Frag, j>>
BodyIntact == \A j \in 1..Size : file[at + j] = <<Frag, j>>

\* What ReadPhysicalRecord makes of a header in the buffer.  In one that is not
\* as written type and length are anything: at the end of the file a record may
\* seem to end beyond it, and one of zeros is taken for preallocated space.
PhysicalRecords ==
    IF ~HeaderIntact THEN {"mismatch", "zero"} \cup (IF eof THEN {"eof"} ELSE {})
    ELSE IF Size > Buffered THEN {IF eof THEN "eof" ELSE "mismatch"}
    ELSE IF ~BodyIntact THEN {"mismatch"}
    ELSE IF at < initialOffset THEN {"skipped"}
    ELSE {frags[Frag].type}

\* kEof: the reader is at its end, an unfinished record is dropped in silence.
ReadEof ==
    /\ phase = "reading"
    /\ \/ Buffered < HeaderSize /\ eof
       \/ Buffered >= HeaderSize /\ "eof" \in PhysicalRecords
    /\ phase' = "done"
    /\ scratch' = <<>>
    /\ at' = endOfBuffer
    /\ UNCHANGED <<diskVars, writerVars, initialOffset, endOfBuffer, eof, resyncing, inFragmented, returned, reported>>

\* ReportDrop: a loss of n bytes before the position p is told to the reporter,
\* unless it begins before the initial offset.
Reports(p, n) == p - n >= initialOffset

\* What is kept of the record being put together after a bad one.
AfterBad(collected) == <<>>

\* kBadRecord: a mismatch drops the rest of the block, zeros do so in silence, a
\* record from before the initial offset drops only itself; each of them drops
\* the record being put together.
ReadBad ==
    /\ phase = "reading" /\ Buffered >= HeaderSize
    /\ \E type \in PhysicalRecords \cap {"mismatch", "zero", "skipped"} :
          /\ at' = IF type = "skipped" THEN at + Size ELSE endOfBuffer
          /\ reported' = (\/ reported
                          \/ type = "mismatch" /\ Reports(endOfBuffer, Buffered)
                          \/ inFragmented /\ Reports(at', Len(scratch)))
    /\ resyncing' = FALSE
    /\ scratch' = AfterBad(scratch)
    /\ inFragmented' = (AfterBad(scratch) # <<>>)
    /\ UNCHANGED <<phase, diskVars, writerVars, initialOffset, endOfBuffer, eof, returned>>

\* A fragment of the given type is next in the buffer, and read.
Taken(type) ==
    /\ phase = "reading" /\ Buffered >= HeaderSize
    /\ type \in PhysicalRecords
    /\ at' = at + Size
    /\ UNCHANGED <<phase, diskVars, writerVars, initialOffset, endOfBuffer, eof>>

Payload == SubSeq(Cells(Frag, Size), HeaderSize + 1, Size)

\* After a start in the middle of the file, the rest of a record is skipped.
Resync(type) ==
    /\ resyncing /\ type \in {"middle", "last"}
    /\ Taken(type)
    /\ resyncing' = (type = "middle")
    /\ UNCHANGED <<inFragmented, scratch, returned, reported>>

ReadFull ==
    /\ Taken("full")
    /\ returned' = Append(returned, Payload)
    /\ reported' = (reported \/ (inFragmented /\ scratch # <<>> /\ Reports(at', Len(scratch))))
    /\ scratch' = <<>>
    /\ inFragmented' = FALSE
    /\ resyncing' = FALSE

ReadFirst ==
    /\ Taken("first")
    /\ reported' = (reported \/ (inFragmented /\ scratch # <<>> /\ Reports(at', Len(scratch))))
    /\ scratch' = Payload
    /\ inFragmented' = TRUE
    /\ resyncing' = FALSE
    /\ UNCHANGED returned

ReadMiddle ==
    /\ ~resyncing
    /\ Taken("middle")
    /\ scratch' = IF inFragmented THEN scratch \o Payload ELSE scratch
    /\ reported' = (reported \/ (~inFragmented /\ Reports(at', Len(Payload))))
    /\ UNCHANGED <<returned, inFragmented, resyncing>>

ReadLast ==
    /\ ~resyncing
    /\ Taken("last")
    /\ returned' = IF inFragmented THEN Append(returned, scratch \o Payload) ELSE returned
    /\ reported' = (reported \/ (~inFragmented /\ Reports(at', Len(Payload))))
    /\ scratch' = IF inFragmented THEN <<>> ELSE scratch
    /\ inFragmented' = FALSE
    /\ UNCHANGED resyncing

Writing == (\E n \in Lengths : AddRecord(n)) \/ EmitPhysicalRecord \/ Sync \/ Close

Failing == \/ \E n \in 0..Len(file) : Crash(n)
           \/ \E p \in 1..Len(file) : Flip(p)
           \/ Reuse

ReadRecord == \/ ReadBlock \/ ReadEof \/ ReadBad
              \/ \E type \in {"middle", "last"} : Resync(type)
              \/ ReadFull \/ ReadFirst \/ ReadMiddle \/ ReadLast

Next == Writing \/ Failing \/ (\E o \in Offsets : OpenReader(o)) \/ ReadRecord

Spec == Init /\ [][Next]_vars

-----------------------------------------------------------------------------
TypeOK ==
    /\ phase \in {"writing", "closed", "reading", "done"}
    /\ Len(written) <= MaxRecords
    /\ \A k \in DOMAIN frags : frags[k].type \in {"full", "first", "middle", "last"}
    /\ synced \in 0..Len(file) /\ blockOffset \in 0..BlockSize /\ left \in Nat
    /\ initialOffset \in Nat /\ at \in Nat /\ endOfBuffer \in Nat
    /\ {begin, eof, resyncing, inFragmented, reported} \subseteq BOOLEAN
    /\ happened \subseteq Faults /\ damaged \subseteq Nat

\* The records a reader from its offset has to find.
Due == SelectSeq(written, LAMBDA r : r.start >= initialOffset)

Data(records) == [i \in DOMAIN records |-> records[i].data]

\* Whether a block may be unreadable: something is broken in it, or an append
\* has failed before it, after which the writer's blocks are not the reader's.
Unreadable(b) ==
    \/ b \in damaged
    \/ "fail" \in happened /\ \E d \in damaged : d < b

\* Of a file in which nothing is broken but its end, a reader returns exactly
\* the whole records that begin at or after its offset, in their order, and one
\* that began at the start reports nothing.  A file that was written on behind
\* a torn end or a failed append is broken there: see SyncedIsRead.
ReadsBack ==
    phase = "done" /\ damaged = {} =>
        /\ returned = Data(Due)
        /\ initialOffset = 0 => ~reported

\* Whatever was torn, flipped or written behind a torn end or a failed append,
\* what a reader has returned are whole records as they were written, each at
\* most once and in their order: fragments of two records are never joined.
NeverInvents ==
    \E S \in SUBSET DOMAIN Due :
        returned = Data([i \in 1..Cardinality(S) |-> Due[SetToSortSeq(S, <)[i]]])

\* A broken byte costs only records that share its block: every other one is
\* returned, as the reader finds its feet at the next block.  What a failed
\* append costs begins at its block, and nothing before it is lost.
LossIsLocal ==
    phase = "done" =>
        \A i \in DOMAIN Due :
            (\A p \in Due[i].start + 1 .. Due[i].end : ~Unreadable(Block(p)))
                => Contains(returned, Due[i].data)

\* What options.h promises of a write with sync: a record that is whole in the
\* file up to where it is synced is read back, if no byte of the file goes bad.
\* The code breaks this behind an append that failed and, with reuse_logs,
\* behind the torn end that a crash of the machine has left.
SyncedIsRead ==
    phase = "done" /\ "flip" \notin happened =>
        \A i \in DOMAIN Due : Due[i].end <= synced => Contains(returned, Due[i].data)

=============================================================================
