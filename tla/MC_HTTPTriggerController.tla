----------------------- MODULE MC_HTTPTriggerController -----------------------
(* Small instances of HTTPTriggerController for TLC.                       *)
EXTENDS HTTPTriggerController

CONSTANTS t1, t2, f1

MCTriggers == {t1, t2}
MCFunctions == {f1}
MCFunctionOf == [t \in MCTriggers |-> f1]
=============================================================================
