----------------------------- MODULE MCManager -----------------------------
EXTENDS Manager, TLC

\* The goroutines are interchangeable.  For runs of safety properties only.
Symmetry == Permutations(Workers)
============================================================================
