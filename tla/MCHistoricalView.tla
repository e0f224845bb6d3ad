---------------------------- MODULE MCHistoricalView ----------------------------
(* Two commands, of which a manifest may link what the first one retained,  *)
(* over three instants.                                                     *)
EXTENDS HistoricalView, TLC

CONSTANTS r1, r2, o1, o2, a1, a2, s1, x1

MCRuns == {r1, r2}
MCObservations == {o1, o2}
MCAcquisitions == {a1, a2}
Symmetry == Permutations(MCRuns) \cup Permutations(MCObservations)
                \cup Permutations(MCAcquisitions)
=============================================================================
