\* Deploys, updates and deletes of one Function: sizes, derivation and
\* the prepare script.
CONSTANTS
    ftxt = ftxt  fzip = fzip  fbig = fbig  fhuge = fhuge
    noName = noName  dotName = dotName
    LocalFiles <- MCLocalFiles
    FileSize <- MCFileSize
    FileText <- MCFileText
    FileZip <- MCFileZip
    Handlers <- MCHandlers
    ValidHandlers <- MCValidHandlers
    ModuleOf <- MCModuleOf
    Runtimes <- MCRuntimes
    DepRuntimes <- MCDepRuntimes
    EmptyName <- noName
    DotName <- dotName
    InlineLimit = 1048576
    MaxFunctionSize = 52428800
    MaxOps = 3
SPECIFICATION Spec
INVARIANT TypeOK
INVARIANT SizeWithinLimits
INVARIANT PrepareProvisionsSource
INVARIANT TriggerFieldsExclusive
\* The CLI stops after MaxOps commands.
CHECK_DEADLOCK FALSE
