--------------------------- MODULE MCGcHandshake ---------------------------
\* GcHandshake on a small instance for TLC; see the two .cfg files.
EXTENDS GcHandshake
=============================================================================
