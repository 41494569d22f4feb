--------------------------- MODULE SortedIterator ---------------------------
(***************************************************************************)
(* What every iterator of the store promises: it stands on one entry of a  *)
(* sorted sequence or on none, and each call moves it as its name says.    *)
(* op is the last call, so that a step can only be the move it is named    *)
(* for.                                                                    *)
(***************************************************************************)
EXTENDS Naturals, Sequences

CONSTANTS
    Targets,                    \* the keys a caller seeks
    Less(_, _)

VARIABLES
    entries,                    \* a sequence of [key, value], strictly sorted
    pos,                        \* the entry it stands on, 0 for none
    op

First == IF entries = <<>> THEN 0 ELSE 1

\* The first entry that is not before target.
NotBefore(target) ==
    IF \A i \in DOMAIN entries : Less(entries[i].key, target) THEN 0
    ELSE CHOOSE i \in DOMAIN entries :
            /\ ~Less(entries[i].key, target)
            /\ \A j \in 1..(i - 1) : Less(entries[j].key, target)

Move(name, target, to) ==
    /\ op' = [name |-> name, target |-> target]
    /\ pos' = to
    /\ UNCHANGED entries

AtRest == [name |-> "none", target |-> <<>>]
Init == pos = 0 /\ op = AtRest
SeekToFirst == Move("SeekToFirst", <<>>, First)
SeekToLast == Move("SeekToLast", <<>>, Len(entries))
Seek(target) == Move("Seek", target, NotBefore(target))
Forward == pos # 0 /\ Move("Next", <<>>, IF pos = Len(entries) THEN 0 ELSE pos + 1)
Back == pos # 0 /\ Move("Prev", <<>>, pos - 1)

Next == SeekToFirst \/ SeekToLast \/ Forward \/ Back \/ (\E target \in Targets : Seek(target))

Spec == Init /\ [][Next]_<<entries, pos, op>>
=============================================================================
