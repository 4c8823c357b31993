------------------------------ MODULE MCLooper ------------------------------
\* The looper with small sets of threads, handlers and descriptors.
EXTENDS Looper
=============================================================================
