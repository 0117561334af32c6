---------------------------- MODULE MC_Autoscale ----------------------------
(* Two Functions, a target that both parsers accept, one only a quantity   *)
(* and one neither accepts, and a metric that is not supported.            *)
EXTENDS Autoscale

CONSTANTS f1, f2, vInt, vQty, vBad

MCFunctions == {f1, f2}
MCValues == {vInt, vQty, vBad}
MCInt32Values == {vInt}
MCQtyValues == {vInt, vQty}
MCMetrics == {"cpu", "qps", "memory"}
=============================================================================
