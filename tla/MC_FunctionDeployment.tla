------------------------ MODULE MC_FunctionDeployment ------------------------
(* A small instance: four source files at the size boundaries, one valid   *)
(* and one malformed handler, a runtime with and one without a dependency  *)
(* file.                                                                   *)
EXTENDS FunctionDeployment

CONSTANTS ftxt, fzip, fbig, fhuge, noName, dotName

MCLocalFiles == {ftxt, fzip, fbig, fhuge}
\* 1MB of text, a 1MB zip archive, a 50MB binary, one byte over 50MB
MCFileSize == [f \in MCLocalFiles |->
                 CASE f = ftxt -> 1048576 [] f = fzip -> 1048576
                   [] f = fbig -> 52428800 [] f = fhuge -> 52428801]
MCFileText == [f \in MCLocalFiles |-> f \in {ftxt, fhuge}]
MCFileZip == [f \in MCLocalFiles |-> f = fzip]
MCHandlers == {"mod.fn", "modfn"}
MCValidHandlers == {"mod.fn"}
MCModuleOf == [h \in MCValidHandlers |-> "mod"]
MCRuntimes == {"python2.7", "go"}
MCDepRuntimes == {"python2.7"}
=============================================================================
