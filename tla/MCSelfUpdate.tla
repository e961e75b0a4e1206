---------------------------- MODULE MCSelfUpdate ----------------------------
EXTENDS SelfUpdate
=============================================================================
