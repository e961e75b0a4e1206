--------------------------- MODULE MCRemoteClient ---------------------------
EXTENDS RemoteClient
=============================================================================
