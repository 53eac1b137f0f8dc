----------------------------- MODULE MCTriStack -----------------------------
\* TriStack on small instances for TLC; see the .cfg files.
EXTENDS TriStack, TLC

Values == Permutations(Value)
=============================================================================
