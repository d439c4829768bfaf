--------------------------- MODULE LocksAndRowsMC ---------------------------
(* The locks of two codexes that patch two files, and the rows of the app   *)
(* with their restore; one of them in each behaviour.                       *)
EXTENDS FileLocks, Rows
LOCAL INSTANCE TLC
CONSTANTS k1, k2, d1
VARIABLE which

ConvClaudes == {k1, k2}
ConvCodexes == {d1}

\* Instances and the conversations of claudes are only compared.
Symmetry == Permutations(Instance) \cup Permutations(ConvClaudes)

LocksAndRowsInit ==
    /\ which \in {"locks", "rows"}
    /\ Init
    /\ RowsInit

LocksAndRowsNext ==
    /\ UNCHANGED which
    /\ \/ which = "locks" /\ Next /\ UNCHANGED rowsVars
       \/ which = "rows" /\ RowsNext /\ UNCHANGED vars
locksAndRowsVars == <<which, vars, rowsVars>>

LocksAndRowsSpec == LocksAndRowsInit /\ [][LocksAndRowsNext]_locksAndRowsVars
=============================================================================
