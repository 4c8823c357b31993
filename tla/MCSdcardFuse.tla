---------------------------- MODULE MCSdcardFuse ----------------------------
(* The model values of SdcardFuse are interchangeable within their sets.   *)
EXTENDS SdcardFuse, TLC

FuseSymmetry == Permutations(Node) \cup Permutations(Names) \cup Permutations(Handlers)
=============================================================================
