--------------------------- MODULE MCUsageSources ---------------------------
EXTENDS UsageSources

\* The project, and the one around it.
MCWalks == {<<"inner", "outer">>}
=============================================================================
