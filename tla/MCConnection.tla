------------------------------- MODULE MCConnection -------------------------------
\* Players are interchangeable: Init seats them in every order.
EXTENDS Connection, TLC

Symmetry == Permutations(Human)
=============================================================================
