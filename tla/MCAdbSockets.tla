---------------------------- MODULE MCAdbSockets ----------------------------
(* The instances of AdbSockets need no definitions of their own: the bounds *)
(* are numbers.                                                             *)
EXTENDS AdbSockets
=============================================================================
