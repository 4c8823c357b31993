--------------------------- MODULE MCAutosuspend ---------------------------
\* Autosuspend with a few wakeup events.
EXTENDS Autosuspend
=============================================================================
