---------------------------- MODULE MCNarrative ----------------------------
\* One chapter of one memory; the other is what a model may name beside it.
EXTENDS Narrative, TLC

CONSTANTS k1, m1, m2

MCAssigned == [k \in {k1} |-> {m1}]
MCSymmetry == Permutations(Generator)
=============================================================================
