------------------------- MODULE MCScheduledRefresh -------------------------
EXTENDS ScheduledRefresh, TLC
CONSTANTS a, b, j1, j2

SameText == [q \in Queries |-> a]
LastInvalid == {[q \in Queries |-> IF q = 2 THEN "invalid" ELSE "none"]}
NoneOrLastInvalid == {[q \in Queries |-> "none"]} \cup LastInvalid
EveryUnit == [q \in Queries |-> 0]
JobSymmetry == Permutations(Jobs)
==============================================================================
