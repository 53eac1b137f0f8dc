---------------------------- MODULE MCSizeBudget ----------------------------
\* SizeBudget on small instances for TLC; see the .cfg file.
EXTENDS SizeBudget

\* 1, 5 and 9.
ThreeKeys == {{0}, {0, 2}, {0, 3}}
=============================================================================
