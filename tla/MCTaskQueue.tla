---------------------------- MODULE MCTaskQueue ----------------------------
(* Instances of TaskQueue for TLC.                                         *)
EXTENDS TaskQueue, TLC

CONSTANTS t1, t2, t3, t4, x1, x2, y1, a1, a2

TwoTasks   == {t1, t2}
ThreeTasks == {t1, t2, t3}
FourTasks  == {t1, t2, t3, t4}

\* An agent on two issues with room for one task, and one on a single issue
\* with room for two.
TwoAgents == (x1 :> a1) @@ (x2 :> a1) @@ (y1 :> a2)
RoomPerAgent == (a1 :> 1) @@ (a2 :> 2)

\* One agent on one issue.
OneLane == (x1 :> a1)
RoomForOne == (a1 :> 1)

\* Dispatches of a row. One row in three that may be dispatched twice is enough
\* for an answer that is lost and given again, and for a claim that is rolled
\* back and taken again, be it the request's or its first retry's.
EachOnce   == [t \in Tasks |-> 1]
EachTwice  == [t \in Tasks |-> 2]
FirstTwice == [t \in Tasks |-> IF t = t1 THEN 2 ELSE 1]

\* Symmetry is unsound for liveness. Rows are interchangeable all the same, so
\* t3 need not be used before the others.
LastIsLast == status[t3] # "free" => status[t1] # "free" /\ status[t2] # "free"

OrderedLiveSpec == Init /\ [][Next /\ LastIsLast']_vars /\ Fairness

\* Rows, runtimes and the lanes of one agent are interchangeable.
Symmetry ==
    Permutations(Tasks) \cup Permutations(Runtimes) \cup Permutations(Lanes \cap {x1, x2})
=============================================================================
