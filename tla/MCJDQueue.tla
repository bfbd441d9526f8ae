----------------------------- MODULE MCJDQueue -----------------------------
(* Two postings of one vacancy and one of another. *)
EXTENDS JDQueue

MCRows == {"a", "b", "c"}
MCVacancies == {1, 2}
MCVacancyOf == [r \in MCRows |-> IF r = "c" THEN 2 ELSE 1]
MCMaxQueued == [v \in MCVacancies |-> IF v = 1 THEN 2 ELSE 1]
=============================================================================
