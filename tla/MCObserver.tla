---------------------------- MODULE MCObserver ----------------------------
(* Small instances of Observer for TLC.                                    *)
EXTENDS Observer, TLC

CONSTANTS n1, n2, n3, k1, k2

MCNode == {n1, n2, n3}
MCKey == {k1, k2}

\* n2 and n3 play the same part, as do the two keys.
MCSymmetry == Permutations({n2, n3}) \cup Permutations(MCKey)
=============================================================================
