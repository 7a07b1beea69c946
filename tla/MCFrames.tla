------------------------------ MODULE MCFrames ------------------------------
EXTENDS Frames

CONSTANT c1
MCCallbacks == {c1}
=============================================================================
