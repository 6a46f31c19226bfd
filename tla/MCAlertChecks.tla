---------------------------- MODULE MCAlertChecks ----------------------------
EXTENDS AlertChecks, TLC

\* An alert that rearms, the same one muted, and one that does not rearm and has another threshold.
SomeOptions == {[threshold |-> 0, rearm |-> TRUE, muted |-> FALSE],
                [threshold |-> 0, rearm |-> TRUE, muted |-> TRUE],
                [threshold |-> 1, rearm |-> FALSE, muted |-> FALSE]}
Symmetry == Permutations(Alerts) \cup Permutations(Workers)
==============================================================================
