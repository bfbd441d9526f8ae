--------------------------- MODULE MCVacancyStore ---------------------------
(* VacancyStore for TLC: identities are interchangeable. *)
EXTENDS VacancyStore, TLC

Symmetry == Permutations(Postings)
=============================================================================
