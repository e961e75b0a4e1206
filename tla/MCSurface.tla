----------------------------- MODULE MCSurface -----------------------------
EXTENDS Surface
=============================================================================
