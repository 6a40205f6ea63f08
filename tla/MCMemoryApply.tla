---------------------------- MODULE MCMemoryApply ----------------------------
(* Instances of MemoryApply: two pages, and the plans of a few operations    *)
(* that reach every branch of the call.                                      *)
EXTENDS MemoryApply

CONSTANTS p1, p2, new

TwoPages == {p1, p2}
OnlyFirst == {p1}
AllBodies == {Seed, Hand, Conflicted, new}

Create(p) == [kind |-> "create", page |-> p, body |-> new]
Update(p) == [kind |-> "update", page |-> p, body |-> new]
Extend(p) == [kind |-> "append", page |-> p, body |-> new]
Delete(p) == [kind |-> "delete", page |-> p, body |-> new]

\* Writers that meet on p1 and, through it, on each other.
RivalPlans == {<<Update(p1), Create(p2)>>, <<Extend(p1)>>, <<Delete(p2), Update(Index)>>}

\* Plans that fail at their second operation, and an empty one.
FaultyPlans == {<<Update(p1), Create(p2)>>, <<Extend(p1), Update(Log)>>,
                <<Delete(p1)>>, <<>>}

AllPlans == RivalPlans \cup FaultyPlans

\* One operation is enough for what the others do around a call.
ShortPlans == {<<Update(p1)>>, <<Create(p2)>>}
TwoStepPlan == {<<Create(p2), Update(p1)>>}
=============================================================================
