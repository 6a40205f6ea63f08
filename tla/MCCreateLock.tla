----------------------------- MODULE MCCreateLock -----------------------------
(* Small instances of CreateLock for TLC. *)
EXTENDS CreateLock

CONSTANTS t1, t2, t3, p1, p2, p3

ThreeThreads == {t1, t2, t3}
ThreeProcs == {p1, p2, p3}

\* Every contender is a process of its own.
OneEach == [t \in ThreeThreads |-> CASE t = t1 -> p1 [] t = t2 -> p2 [] t = t3 -> p3]

\* t1 and t2 are threads of one process.
TwoInOne == [t \in ThreeThreads |-> IF t = t3 THEN p3 ELSE p1]
=============================================================================
