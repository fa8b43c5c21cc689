------------------------------ MODULE MCLockFile ------------------------------
(* Small instances of LockFile for TLC. *)
EXTENDS LockFileProperties, TLC

CONSTANTS t1, t2, t3, t4, p1, p2, p3

\* Two tasks in one process, and one each in two others.
MCProcOf == [t \in Tasks |-> CASE t \in {t1, t2} -> p1 [] t = t3 -> p2 [] t = t4 -> p3]

\* The first process's tasks are alike, and so are the other two processes, each
\* with its task.
Others == {t3 :> x @@ t4 :> y @@ p2 :> MCProcOf[x] @@ p3 :> MCProcOf[y] :
             <<x, y>> \in {<<t3, t4>>, <<t4, t3>>}}

Alike == {f @@ g : f \in Permutations({t1, t2}), g \in Others}
=============================================================================
