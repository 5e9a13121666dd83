----------------------------- MODULE MCImapIdle -----------------------------
EXTENDS ImapIdle, TLC
Symmetry == Permutations(Callers)
=============================================================================
