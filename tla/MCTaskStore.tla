----------------------------- MODULE MCTaskStore -----------------------------
(* The stores on small instances: tasks of one context, one of them with a   *)
(* user, on one or two replicas.                                             *)
EXTENDS TaskStore, TLC

CONSTANTS p1, p2, t1, t2, t3, c1, u1

MCContextOf == [t \in Tasks |-> c1]
MCUserOf    == [t \in Tasks |-> IF t = t1 THEN u1 ELSE NoUser]
OneUp       == <<p1>>
NoneUp      == <<>>

Symmetric == Permutations(Writers)
=============================================================================
