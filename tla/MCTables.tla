------------------------------ MODULE MCTables ------------------------------
\* Tables on small instances for TLC; see the .cfg files.
EXTENDS Tables

CONSTANTS t1, t2
=============================================================================
