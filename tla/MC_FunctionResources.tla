------------------------ MODULE MC_FunctionResources ------------------------
(* The apply layer for TLC: the bounds are given in the cfg files.         *)
EXTENDS FunctionResources
=============================================================================
