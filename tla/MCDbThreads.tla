---------------------------- MODULE MCDbThreads -----------------------------
(***************************************************************************)
(* Instances of DbThreads, told apart by part.                             *)
(*   - writers: two writers beside a thread that reads or has the memtable *)
(*     compacted, with a failure anywhere;                                 *)
(*   - manual: a writer beside two threads that compact by hand or read,   *)
(*     without failures;                                                   *)
(*   - list: what readers do without the mutex: one of them searches a     *)
(*     skip list while nodes are inserted.                                 *)
(***************************************************************************)
EXTENDS DbThreads, TLC

CONSTANTS t1, t2, t3

VARIABLES part, next, heights, writer, reader

listVars == <<next, heights, writer, reader>>
allVars == <<part, vars, listVars>>

Kind(k) == {[kind |-> k, sync |-> FALSE]}
Writes == [kind : {"write"}, sync : BOOLEAN]

MCThreads == {t1, t2, t3}
MCCalls == t1 :> Writes @@ t2 :> Writes @@ t3 :> Kind("get") \cup Kind("flush")
Once == t1 :> 1 @@ t2 :> 1 @@ t3 :> 1
WriteTwice == t1 :> 2 @@ t2 :> 1 @@ t3 :> 1

Manual ==
    INSTANCE DbThreads WITH
        Calls <- t1 :> Kind("write") @@ t2 :> Kind("range") @@ t3 :> Kind("range") \cup Kind("get"),
        MaxCalls <- Once, MaxFailures <- 0, BufferSize <- 2

\* What the proofs about DbThreads suppose of both.
ASSUME InstancesAreSound == Parameters /\ Manual!Parameters

Readers == {"r"}

List == INSTANCE SkipList WITH Keys <- 1..2, Null <- 3, kMaxHeight <- 2

Running(p) == part = p /\ UNCHANGED <<part, listVars>>

ThreadsNext ==
    \/ Running("writers") /\ Next
    \/ Running("manual") /\ Manual!Next

\* Any of the parts.
ThreadsInit(parts) ==
    /\ part \in parts
    /\ IF part = "manual" THEN Manual!Init ELSE Init
    /\ List!Init

ThreadsSpec == ThreadsInit({"writers", "manual"}) /\ [][ThreadsNext]_allVars

ThreadStep(t) ==
    \/ Running("writers") /\ Thread(t)
    \/ Running("manual") /\ Manual!Thread(t)
BackgroundStep ==
    \/ Running("writers") /\ Background
    \/ Running("manual") /\ Manual!Background
ListStep(A) == part = "list" /\ A /\ UNCHANGED <<part, vars>>

\* Fairness as in DbThreads and SkipList.
FairThreadsSpec ==
    /\ ThreadsInit({"writers", "manual", "list"})
    /\ [][ThreadsNext \/ ListStep(List!Next)]_allVars
    /\ \A t \in Threads : WF_allVars(ThreadStep(t))
    /\ WF_allVars(BackgroundStep)
    /\ WF_allVars(ListStep(List!WriterStep))
    /\ \A r \in Readers : WF_allVars(ListStep(List!Step(r)))

-----------------------------------------------------------------------------
\* Every call returns, and so does a search in the skip list (DbThreads and
\* SkipList state the two).
CallsEnd == CallsReturn /\ List!SearchesEnd
=============================================================================
