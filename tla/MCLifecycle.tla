------------------------------- MODULE MCLifecycle --------------------------------
\* Bots and tasks are interchangeable; the humans are not, one of them hosts.
EXTENDS Lifecycle, TLC

Symmetry == Permutations(Bot) \cup Permutations(Task)
=============================================================================
