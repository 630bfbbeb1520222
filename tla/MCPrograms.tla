------------------------------- MODULE MCPrograms -------------------------------
EXTENDS Programs

(* n from 2, where sqrt(n) is 1 and most blocks lie beyond the vector, to   *)
(* where it is 3 and composites share words; five threads are more than any *)
(* of these sieves needs.                                                   *)
MCLimits == {2, 3, 4, 8, 9, 13}
MCSizes == {3, 4, 5, 7}
MCTeams == {1, 2, 3, 5}

(* Two groups with a rest and one that is not full; 3 by 1 by 3 is two tiles*)
(* in a column and two rounds, both with a rest.                            *)
MCElements == {3, 5}
MCDimensions == {<<3, 1, 3>>}
MCGrids == {<<2, 2>>, <<1, 2, 1>>}

PowersOfTwo == {2, 4, 8, 16, 32, 64, 128, 256}
ASSUME MCGroupSizes == GroupSize \in PowersOfTwo /\ Tile \in PowersOfTwo
================================================================================
