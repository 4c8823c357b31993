-------------------------- MODULE MCSocketListener --------------------------
\* The listener with small sets of peers and descriptors.
EXTENDS SocketListener
=============================================================================
