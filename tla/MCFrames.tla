------------------------------ MODULE MCFrames ------------------------------
\* Frames on small instances for TLC; see the .cfg files.
EXTENDS Frames

CONSTANT f

ZeroToOne == 0..1
=============================================================================
