-------------------------- MODULE MCDocumentEditing --------------------------
EXTENDS DocumentEditing, TLC

Symmetry == Permutations(Pages) \cup Permutations(Fields) \cup Permutations(Requests)
==============================================================================
