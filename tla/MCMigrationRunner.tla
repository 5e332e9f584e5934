-------------------------- MODULE MCMigrationRunner --------------------------
(* An instance of MigrationRunner for TLC: two ordinary migrations, then a  *)
(* release that squashes them under a lower stem and adds a third, then one *)
(* more.                                                                    *)
EXTENDS MigrationRunner

FewStems == 0..4
ThreeReleases == <<{1, 2}, {0, 1, 2, 3}, {0, 1, 2, 3, 4}>>
SquashFirstTwo == [m \in FewStems |-> IF m = 0 THEN {1, 2} ELSE {}]
=============================================================================
