--------------------------- MODULE EditAwarenessMC ---------------------------
(* Instances of EditAwareness for TLC. *)
EXTENDS EditAwareness, TLC

\* Instance ids are only compared; files are ordered, so they get no symmetry.
Symmetry == Permutations(Instance)
=============================================================================
