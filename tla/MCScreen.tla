------------------------------ MODULE MCScreen ------------------------------
\* Screen with two frames in flight, and a marker that gives up within the clock.
EXTENDS Screen
=============================================================================
