------------------------------- MODULE Arena -------------------------------
(***************************************************************************)
(* The memory of a memtable: pieces of blocks, given out one after the     *)
(* other and freed together.  A place is a block and an offset; blocks     *)
(* begin aligned.                                                          *)
(***************************************************************************)
EXTENDS Integers, SequencesExt

CONSTANTS
    kBlockSize,
    Align,                      \* alignment of a pointer
    Sizes,                      \* the sizes that are asked for
    MaxPieces                   \* bound: pieces given out

\* What the constants can be.
ArenaParameters ==
    /\ kBlockSize \in Nat \ {0} /\ Align \in Nat \ {0}
    /\ Sizes \subseteq Nat \ {0}

VARIABLES
    blocks,                     \* the sizes of blocks_
    current,                    \* the block alloc_ptr_ points into, 0 for none
    ptr,                        \* the offset of alloc_ptr_ in it
    remaining,                  \* alloc_bytes_remaining_
    pieces                      \* what was given out

arenaVars == <<blocks, current, ptr, remaining, pieces>>

ArenaInit == blocks = <<>> /\ current = 0 /\ ptr = 0 /\ remaining = 0 /\ pieces = <<>>

Give(block, offset, bytes, aligned) ==
    pieces' = Append(pieces, [block |-> block, offset |-> offset, bytes |-> bytes, aligned |-> aligned])

AllocateNewBlock(bytes) == blocks' = Append(blocks, bytes)

\* A large piece has a block of its own and leaves the rest of the current one.
AllocateFallback(bytes, aligned) ==
    IF bytes > kBlockSize \div 4
    THEN /\ AllocateNewBlock(bytes)
         /\ Give(Len(blocks) + 1, 0, bytes, aligned)
         /\ UNCHANGED <<current, ptr, remaining>>
    ELSE /\ AllocateNewBlock(kBlockSize)
         /\ Give(Len(blocks) + 1, 0, bytes, aligned)
         /\ current' = Len(blocks) + 1 /\ ptr' = bytes /\ remaining' = kBlockSize - bytes

FromBlock(bytes, skip, aligned) ==
    /\ Give(current, ptr + skip, bytes, aligned)
    /\ ptr' = ptr + skip + bytes /\ remaining' = remaining - skip - bytes
    /\ UNCHANGED <<blocks, current>>

Allocate(bytes) ==
    IF bytes <= remaining THEN FromBlock(bytes, 0, FALSE) ELSE AllocateFallback(bytes, FALSE)

\* Mutant: the bytes that are skipped are not counted.
FitsWithoutSlop(bytes, slop) == bytes <= remaining

Fits(bytes, slop) == bytes + slop <= remaining

Slop(p) == (-p) % Align

AllocateAligned(bytes) ==
    IF Fits(bytes, Slop(ptr)) THEN FromBlock(bytes, Slop(ptr), TRUE) ELSE AllocateFallback(bytes, TRUE)

ArenaNext == Len(pieces) < MaxPieces /\ \E bytes \in Sizes : Allocate(bytes) \/ AllocateAligned(bytes)

ArenaSpec == ArenaInit /\ [][ArenaNext]_arenaVars

-----------------------------------------------------------------------------
(* Every piece lies in its block, no two overlap, and those asked for      *)
(* aligned are (arena.cc:23-58).                                           *)
PiecesAreApart ==
    /\ \A i \in DOMAIN pieces : pieces[i].offset + pieces[i].bytes <= blocks[pieces[i].block]
    /\ \A i, j \in DOMAIN pieces :
           i < j /\ pieces[i].block = pieces[j].block => pieces[i].offset + pieces[i].bytes <= pieces[j].offset
    /\ \A i \in DOMAIN pieces : pieces[i].aligned => pieces[i].offset % Align = 0
=============================================================================
