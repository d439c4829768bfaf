------------------------------- MODULE RowsMC -------------------------------
\* One instance for TLC of the rows and their restore.
EXTENDS Rows, TLC

CONSTANTS c1, c2, d1

Claudes == {c1, c2}
Codexes == {d1}
Uuids == Permutations(Claudes)
=============================================================================
