------------------------------ MODULE SkipList ------------------------------
(***************************************************************************)
(* The skip list of a memtable: one writer at a time inserts, readers      *)
(* follow its links without a lock.  A step of a reader is one load of a   *)
(* link; a step of the writer is the store of max_height_ or one round of  *)
(* the loop that links the node, the two stores of which are one step: the *)
(* first is to the new node's link at a level at which no reader can have  *)
(* come to it before the second.  Keys are numbers, 0 the head and Null,   *)
(* beyond all keys, the end of every list; a link of a node not stored yet *)
(* is Garbage.                                                             *)
(***************************************************************************)
EXTENDS Integers, FiniteSets

CONSTANTS
    Keys,                       \* a set of numbers greater than 0
    Null,                       \* a number greater than all of them
    kMaxHeight,
    Readers

VARIABLES
    next,                       \* next[x][level]: the links of a node
    heights,                    \* the values max_height_ has had
    writer,                     \* the insertion that is going on
    reader                      \* reader[r]: the search that is going on, or its result

vars == <<next, heights, writer, reader>>

\* What the constants can be.
ListParameters ==
    /\ Keys \subseteq Nat \ {0} /\ IsFiniteSet(Keys)
    /\ Null \in Nat \ {0} /\ \A k \in Keys : k < Null
    /\ kMaxHeight \in Nat \ {0}

HeadNode == 0
Garbage == -1
Levels == 0..(kMaxHeight - 1)

Unlinked == [level \in Levels |-> Garbage]
Idle == [key |-> 0, height |-> 0, linked |-> 0, prev |-> [level \in Levels |-> HeadNode]]
\* before: the keys that were in the list when the operation began.
NoOp == [op |-> "none", target |-> 0, x |-> HeadNode, level |-> 0, node |-> Null, before |-> {}]

Init ==
    /\ next = [x \in Keys \cup {HeadNode} |-> IF x = HeadNode THEN [level \in Levels |-> Null] ELSE Unlinked]
    /\ heights = {1}
    /\ writer = Idle
    /\ reader = [r \in Readers |-> NoOp]

MaxOf(S) == CHOOSE n \in S : \A m \in S : n >= m
MaxHeight == MaxOf(heights)

\* The keys in the list of a level.
Linked(level) ==
    LET reach[n \in 0..Cardinality(Keys)] ==
            IF n = 0 THEN {HeadNode}
            ELSE LET met == reach[n - 1]
                 IN  met \cup ({next[x][level] : x \in met} \ {Null, Garbage})
    IN  reach[Cardinality(Keys)] \ {HeadNode}

-----------------------------------------------------------------------------
(* Insert.                                                                 *)

\* The search of Insert: nobody else writes, so its loads are one step.
Insert(key, height) ==
    /\ writer = Idle /\ key \notin Linked(0)
    /\ writer' = [key |-> key, height |-> height, linked |-> 0,
                  prev |-> [level \in Levels |-> MaxOf({HeadNode} \cup {k \in Linked(level) : k < key})]]
    /\ UNCHANGED <<next, heights, reader>>

\* Mutant: the lists a node joins first.
FromTheTop(w) == w.height - 1 - w.linked

\* The level that is linked next.
LevelToLink(w) == w.linked

\* x points to what its predecessor points to, then the predecessor to x.
WithLink(x, level) ==
    [next EXCEPT ![x][level] = next[writer.prev[level]][level], ![writer.prev[level]][level] = x]

\* max_height_.NoBarrier_Store, before the first round.
StoreHeight ==
    /\ writer # Idle /\ writer.height > MaxHeight
    /\ heights' = heights \cup {writer.height}
    /\ UNCHANGED <<next, writer, reader>>

\* A round of the loop: NoBarrier_SetNext of x and SetNext of its predecessor.
Link ==
    /\ writer # Idle /\ writer.height <= MaxHeight
    /\ next' = WithLink(writer.key, LevelToLink(writer))
    /\ writer' = IF writer.linked + 1 = writer.height THEN Idle ELSE [writer EXCEPT !.linked = @ + 1]
    /\ UNCHANGED <<heights, reader>>

-----------------------------------------------------------------------------
(* Readers.                                                                *)

\* A search begins at the head, at the height the reader sees, old or new.
Search(r, op, target) ==
    /\ reader[r].op \in {"none", "done"}
    /\ \E h \in heights :
           reader' = [reader EXCEPT ![r] = [op |-> op, target |-> target, x |-> HeadNode, level |-> h - 1,
                                            node |-> reader[r].node, before |-> Linked(0)]]
    /\ UNCHANGED <<next, heights, writer>>

Seek(r, target) == Search(r, "seek", target)
SeekToLast(r) == Search(r, "last", Null)
Prev(r) == reader[r].node # Null /\ Search(r, "prev", reader[r].node)

Done(r, node) == reader' = [reader EXCEPT ![r].op = "done", ![r].node = node]

\* SeekToFirst and Next load one link.
SeekToFirst(r) ==
    /\ reader[r].op \in {"none", "done"}
    /\ Done(r, next[HeadNode][0])
    /\ UNCHANGED <<next, heights, writer>>
Next1(r) ==
    /\ reader[r].op = "done" /\ reader[r].node # Null
    /\ Done(r, next[reader[r].node][0])
    /\ UNCHANGED <<next, heights, writer>>

\* KeyIsAfterNode and its counterparts: all go on while the next node is before the
\* target, where Null is beyond every target.
GoesOn(r, n) == n < reader[r].target

\* FindGreaterOrEqual returns the next node, FindLessThan and FindLast the last one
\* before it, and the iterator takes the head for the end.
Result(op, x, n) == IF op = "seek" THEN n ELSE IF x = HeadNode THEN Null ELSE x

Lower(level) == level - 1

\* One round of the loop of FindGreaterOrEqual, FindLessThan or FindLast.
Step(r) ==
    LET s == reader[r]
        n == next[s.x][s.level]
    IN  /\ s.op \notin {"none", "done"}
        /\ IF GoesOn(r, n) THEN reader' = [reader EXCEPT ![r].x = n]
           ELSE IF s.level = 0 THEN Done(r, Result(s.op, s.x, n))
           ELSE reader' = [reader EXCEPT ![r].level = Lower(@)]
        /\ UNCHANGED <<next, heights, writer>>

WriterStep == StoreHeight \/ Link

Next ==
    \/ \E key \in Keys, height \in 1..kMaxHeight : Insert(key, height)
    \/ WriterStep
    \/ \E r \in Readers : \/ \E target \in Keys : Seek(r, target)
                          \/ SeekToLast(r) \/ Prev(r) \/ SeekToFirst(r) \/ Next1(r) \/ Step(r)

Spec == Init /\ [][Next]_vars
FairSpec == Spec /\ WF_vars(WriterStep) /\ \A r \in Readers : WF_vars(Step(r))

-----------------------------------------------------------------------------
TypeOK ==
    /\ next \in [Keys \cup {HeadNode} -> [Levels -> Keys \cup {Null, Garbage}]]
    /\ heights \subseteq 1..kMaxHeight
    /\ \A r \in Readers : reader[r].x \in Keys \cup {HeadNode} /\ reader[r].node \in Keys \cup {Null}

(* Readers load only links that were stored: whoever reaches a node at a   *)
(* level, or goes down from there, finds it linked (skiplist.h:350-357).   *)
NoGarbageIsRead ==
    \A r \in Readers : reader[r].op \notin {"none", "done"} => next[reader[r].x][reader[r].level] # Garbage

(* At every moment every list is in order and has only nodes of the list   *)
(* below it (skiplist.h:364-369).                                          *)
ListsAreNested ==
    \A level \in Levels :
        /\ \A x \in Linked(level) \cup {HeadNode} : next[x][level] > x
        /\ level > 0 => Linked(level) \subseteq Linked(level - 1)

(* A search that ends has found what its caller may rely on: no node that  *)
(* was in the list when it began lies between its target and its result    *)
(* (skiplist.h:261-324).                                                   *)
SearchIsRight ==
    \A r \in Readers :
        LET s == reader[r]
            found == reader[r]'.node
        IN  s.op \notin {"none", "done"} /\ reader[r]'.op = "done" =>
            IF s.op = "seek" THEN found >= s.target /\ \A k \in s.before : k >= s.target => found <= k
            ELSE /\ found # Null => found < s.target
                 /\ \A k \in s.before : k < s.target => found # Null /\ found >= k

(* The three of every step: what a reader loads is there, the lists are in *)
(* order, and a search that ends is right.                                 *)
SearchesAreRight == [][NoGarbageIsRead /\ ListsAreNested /\ SearchIsRight]_vars

(* A search ends, however often nodes are put in front of it.              *)
SearchesEnd == \A r \in Readers : reader[r].op \notin {"none", "done"} ~> reader[r].op = "done"
=============================================================================
