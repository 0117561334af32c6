\* An inline base64 payload against the 1 MiB ceiling of spec 3.
CONSTANTS
    ftxt = ftxt  fzip = fzip  fbig = fbig  fhuge = fhuge
    noName = noName  dotName = dotName
    LocalFiles <- MCLocalFiles
    FileSize <- MCFileSize
    FileText <- MCFileText
    FileZip <- MCFileZip
    Handlers <- MCHandlers
    ValidHandlers <- MCValidHandlers
    ModuleOf <- MCModuleOf
    Runtimes <- MCRuntimes
    DepRuntimes <- MCDepRuntimes
    EmptyName <- noName
    DotName <- dotName
    InlineLimit = 1048576
    MaxFunctionSize = 52428800
    MaxOps = 1
SPECIFICATION Spec
INVARIANT InlinePayloadWithinLimit
\* The CLI stops after MaxOps commands.
CHECK_DEADLOCK FALSE
