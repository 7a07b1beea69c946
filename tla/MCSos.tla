------------------------------- MODULE MCSos -------------------------------
EXTENDS Sos, TLC
Symmetry == Permutations(Dialogs) \cup Permutations(Alerts)
=============================================================================
