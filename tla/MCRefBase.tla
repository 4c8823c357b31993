------------------------------ MODULE MCRefBase ------------------------------
(* Small instances of RefBase: programs that do not race for the first      *)
(* strong reference, and programs whose promote()s do.                      *)
EXTENDS RefBase

MCRaces == {"none", "promotes"}
=============================================================================
