------------------------------ MODULE MCOpLog ------------------------------
EXTENDS OpLog, TLC

\* The users are interchangeable.
Symmetry == Permutations(Users)
============================================================================
