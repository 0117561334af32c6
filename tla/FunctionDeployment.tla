--------------------------- MODULE FunctionDeployment ---------------------------
(***************************************************************************)
(* The life of one Function object as the kubeless CLI writes it, and what *)
(* kubeless derives from it:                                               *)
(*                                                                         *)
(*  - `kubeless function deploy|update|delete` (src/cmd/kubeless): the     *)
(*    update command reads the stored Function and builds the new one with *)
(*    getFunctionDescription, which runs the content provisioning          *)
(*    pipeline (uploadFunction, isMinioAvailable) when a source file is    *)
(*    given and inherits every field the user left empty;                  *)
(*  - the workload derivation (src/pkg/utils/k8sutil.go): the ConfigMap    *)
(*    that carries the source (EnsureFuncConfigMap), the Deployment's pod  *)
(*    template with its prepare and install init containers               *)
(*    (EnsureFuncDeployment, getProvisionContainer, getFileName).         *)
(*                                                                         *)
(* Data is abstracted to what the derivation branches on: a source file    *)
(* is a model value with a size, a text/binary flag and a zip flag; a      *)
(* payload records its encoding and the file it came from; a checksum      *)
(* records its algorithm and the file it is the digest of; a generated     *)
(* source file name is the pair <<module, runtime>>.  Labels, env          *)
(* variables and memory values only matter through their error paths.     *)
(***************************************************************************)
EXTENDS Naturals, Sequences, FiniteSets

CONSTANTS
    LocalFiles,      \* source files on the user's machine
    FileSize,        \* stats.Size() of each
    FileText,        \* http.DetectContentType says text/plain
    FileZip,         \* filepath.Ext(name) = ".zip"
    Handlers,        \* non-empty --handler values
    ValidHandlers,   \* those splitHandler accepts (module.function)
    ModuleOf,        \* the module part of a valid handler
    Runtimes,        \* runtimes of the runtime registry
    DepRuntimes,     \* runtimes with a dependency file (GetRuntimeDepName)
    EmptyName,       \* the empty file name ""
    DotName,         \* path.Base("") = "."
    InlineLimit,     \* 1*1024*1024
    MaxFunctionSize, \* 50*1024*1024
    MaxOps           \* bound on CLI commands in a behaviour

ASSUME FilesAssumption ==
    /\ FileSize \in [LocalFiles -> Nat]
    /\ FileText \in [LocalFiles -> BOOLEAN]
    /\ FileZip \in [LocalFiles -> BOOLEAN]
    /\ EmptyName \notin LocalFiles /\ DotName \notin LocalFiles
ASSUME HandlerAssumption ==
    /\ ValidHandlers \subseteq Handlers /\ "" \notin Handlers
    /\ ModuleOf \in [ValidHandlers -> STRING]
ASSUME RuntimeAssumption == DepRuntimes \subseteq Runtimes /\ "" \notin Runtimes
ASSUME LimitsAssumption ==
    /\ InlineLimit \in Nat /\ MaxFunctionSize \in Nat /\ MaxOps \in Nat
    /\ InlineLimit <= MaxFunctionSize

VARIABLES
    present,  \* the Function object exists on the API server
    fspec,    \* its spec (meaningful while present)
    ops       \* CLI commands so far

vars == <<present, fspec, ops>>

-----------------------------------------------------------------------------
(* Function specs.                                                         *)

NoPayload  == [enc |-> "none", of |-> EmptyName]
NoChecksum == [alg |-> "", of |-> EmptyName]
Payloads  == {NoPayload} \cup [enc : {"text", "base64", "URL"}, of : LocalFiles]
Checksums == {NoChecksum} \cup [alg : {"sha256", "md5"}, of : LocalFiles]
FileNames == LocalFiles \cup {EmptyName, DotName}

\* A spec's contentType names the encoding of its payload.
FunctionSpecs ==
    {s \in [handler : Handlers \cup {""}, runtime : Runtimes \cup {""},
            type : {"", "HTTP", "Scheduled", "PubSub"},
            topic : BOOLEAN, schedule : BOOLEAN,
            function : Payloads, file : FileNames, checksum : Checksums,
            contentType : {"", "text", "base64", "URL"},
            deps : BOOLEAN, image : BOOLEAN] :
       s.contentType = IF s.function = NoPayload THEN "" ELSE s.function.enc}

\* The zero spec.Function the deploy command starts from.
EmptyFunction ==
    [handler |-> "", runtime |-> "", type |-> "", topic |-> FALSE,
     schedule |-> FALSE, function |-> NoPayload, file |-> EmptyName,
     checksum |-> NoChecksum, contentType |-> "", deps |-> FALSE,
     image |-> FALSE]

\* Observations of the object storage during one command: whether the
\* minio Service exists, the phases of its pods, and whether the upload job
\* fails.
StorageStates ==
    [svc : BOOLEAN, phases : {{}, {"Running", "Pending"}},
     uploadErr : BOOLEAN]

-----------------------------------------------------------------------------
(* Content provisioning (src/cmd/kubeless/function.go).                    *)

\* isMinioAvailable: the Service exists and no pod is in another phase
\* than Running (a Service without pods counts as available).
isMinioAvailable(st) == st.svc /\ st.phases \subseteq {"Running"}

Provisioned(f, ct) ==
    [err |-> "none", function |-> [enc |-> ct, of |-> f], contentType |-> ct,
     checksum |-> [alg |-> "sha256", of |-> f]]
ProvisionFailed(e) ==
    [err |-> e, function |-> NoPayload, contentType |-> "",
     checksum |-> NoChecksum]

\* (mutant) the 1MB check of the inline path is missing
uploadFunctionNoInlineLimit(f, st) ==
    IF FileSize[f] > MaxFunctionSize THEN ProvisionFailed("SizeExceeded")
    ELSE IF isMinioAvailable(st)
    THEN IF st.uploadErr THEN ProvisionFailed("StorageError")
         ELSE Provisioned(f, "URL")
    ELSE IF FileText[f] THEN Provisioned(f, "text")
    ELSE Provisioned(f, "base64")

\* uploadFunction(file): 50MB ceiling; upload to minio when it is
\* available; otherwise inline, refusing files over 1MB, as text or base64.
uploadFunction(f, st) ==
    IF FileSize[f] > MaxFunctionSize THEN ProvisionFailed("SizeExceeded")
    ELSE IF isMinioAvailable(st)
    THEN IF st.uploadErr THEN ProvisionFailed("StorageError")
         ELSE Provisioned(f, "URL")
    ELSE IF FileSize[f] > InlineLimit THEN ProvisionFailed("StorageUnavailable")
    ELSE IF FileText[f] THEN Provisioned(f, "text")
    ELSE Provisioned(f, "base64")

\* (mutant) the inherited branch forgets the previous content type
DescribeContentNoContentType(file, dflt, st) ==
    IF file = EmptyName
    THEN [err |-> "none", function |-> dflt.function, file |-> dflt.file,
          contentType |-> "", checksum |-> dflt.checksum]
    ELSE LET u == uploadFunction(file, st)
         IN  [err |-> u.err, function |-> u.function, file |-> file,
              contentType |-> u.contentType, checksum |-> u.checksum]

\* getFunctionDescription's source fields: inherited without --from-file,
\* provisioned from the file otherwise.
DescribeContent(file, dflt, st) ==
    IF file = EmptyName
    THEN [err |-> "none", function |-> dflt.function, file |-> dflt.file,
          contentType |-> dflt.contentType, checksum |-> dflt.checksum]
    ELSE LET u == uploadFunction(file, st)
         IN  [err |-> u.err, function |-> u.function, file |-> file,
              contentType |-> u.contentType, checksum |-> u.checksum]

\* (mutant) --trigger-http does not clear the topic
funcTypeKeepTopic(http, schedule, topic, dflt) ==
    IF http THEN [type |-> "HTTP", topic |-> topic, schedule |-> FALSE]
    ELSE IF schedule THEN [type |-> "Scheduled", topic |-> FALSE, schedule |-> TRUE]
    ELSE IF topic THEN [type |-> "PubSub", topic |-> TRUE, schedule |-> FALSE]
    ELSE [type |-> dflt.type, topic |-> dflt.topic, schedule |-> dflt.schedule]

\* The switch on the trigger flags: http > schedule > topic > inherited.
funcType(http, schedule, topic, dflt) ==
    IF http THEN [type |-> "HTTP", topic |-> FALSE, schedule |-> FALSE]
    ELSE IF schedule THEN [type |-> "Scheduled", topic |-> FALSE, schedule |-> TRUE]
    ELSE IF topic THEN [type |-> "PubSub", topic |-> TRUE, schedule |-> FALSE]
    ELSE [type |-> dflt.type, topic |-> dflt.topic, schedule |-> dflt.schedule]

\* path.Base of a file name: the base name of a local file is itself.
PathBase(n) == IF n = EmptyName THEN DotName ELSE n

\* getFunctionDescription: every empty flag falls back to the default
\* function (the stored one for update, the zero one for deploy).
getFunctionDescription(handler, file, deps, runtime, topic, schedule, image, mem, http, dflt, st) ==
    LET c  == DescribeContent(file, dflt, st)
        ty == funcType(http, schedule, topic, dflt)
    IN
    IF c.err # "none" THEN [err |-> c.err, fn |-> EmptyFunction]
    ELSE IF mem = "bad" THEN [err |-> "ValidationError", fn |-> EmptyFunction]
    ELSE [err |-> "none",
          fn |-> [handler |-> IF handler = "" THEN dflt.handler ELSE handler,
                  runtime |-> IF runtime = "" THEN dflt.runtime ELSE runtime,
                  type |-> ty.type, topic |-> ty.topic, schedule |-> ty.schedule,
                  function |-> c.function, file |-> PathBase(c.file),
                  checksum |-> c.checksum, contentType |-> c.contentType,
                  deps |-> deps \/ dflt.deps, image |-> image \/ dflt.image]]

-----------------------------------------------------------------------------
(* Workload derivation (src/pkg/utils/k8sutil.go).                         *)

Result(e) == [err |-> e, steps |-> <<>>]
Steps(s) == [err |-> "none", steps |-> s]

\* getFileName: without a file name, <module>.<ext> of the handler.
getFileName(file, handler, runtime) ==
    IF file # EmptyName THEN [err |-> "none", name |-> file]
    ELSE IF handler \in ValidHandlers
    THEN [err |-> "none", name |-> <<ModuleOf[handler], runtime>>]
    ELSE [err |-> "ValidationError", name |-> EmptyName]

\* appendToCommand: the commands joined by " && ".
appendToCommand(orig, cmds) == orig \o cmds

IsZip(n) == n \in LocalFiles /\ FileZip[n]

\* (mutant) the checksum is verified before the base64 payload is decoded
getProvisionContainerVerifyFirst(checksum, fileName, handler, contentType, runtime) ==
    LET dest == getFileName(EmptyName, handler, runtime)
    IN
    IF contentType \notin {"base64", "text", ""} THEN Result("UnsupportedEncoding")
    ELSE IF checksum # NoChecksum /\ checksum.alg # "sha256"
    THEN Result("UnsupportedChecksum")
    ELSE IF ~IsZip(fileName) /\ dest.err # "none" THEN Result(dest.err)
    ELSE Steps(appendToCommand(appendToCommand(appendToCommand(appendToCommand(<<>>,
           IF checksum # NoChecksum
           THEN <<[op |-> "writeSha", arg |-> checksum.of], [op |-> "checkSha", arg |-> checksum.of]>>
           ELSE <<>>),
           IF contentType = "base64" THEN <<[op |-> "decode", arg |-> EmptyName]>> ELSE <<>>),
           IF IsZip(fileName) THEN <<[op |-> "unzip", arg |-> EmptyName]>>
           ELSE <<[op |-> "cp", arg |-> dest.name]>>),
           IF runtime \in DepRuntimes THEN <<[op |-> "cpDeps", arg |-> EmptyName]>> ELSE <<>>))

\* getProvisionContainer: the prepare script, in order: decode base64,
\* write and check the sha256 sidecar, unzip or copy the source into the
\* runtime volume, copy the dependency file.
getProvisionContainer(checksum, fileName, handler, contentType, runtime) ==
    LET dest == getFileName(EmptyName, handler, runtime)
    IN
    IF contentType \notin {"base64", "text", ""} THEN Result("UnsupportedEncoding")
    ELSE IF checksum # NoChecksum /\ checksum.alg # "sha256"
    THEN Result("UnsupportedChecksum")
    ELSE IF ~IsZip(fileName) /\ dest.err # "none" THEN Result(dest.err)
    ELSE Steps(appendToCommand(appendToCommand(appendToCommand(appendToCommand(<<>>,
           IF contentType = "base64" THEN <<[op |-> "decode", arg |-> EmptyName]>> ELSE <<>>),
           IF checksum # NoChecksum
           THEN <<[op |-> "writeSha", arg |-> checksum.of], [op |-> "checkSha", arg |-> checksum.of]>>
           ELSE <<>>),
           IF IsZip(fileName) THEN <<[op |-> "unzip", arg |-> EmptyName]>>
           ELSE <<[op |-> "cp", arg |-> dest.name]>>),
           IF runtime \in DepRuntimes THEN <<[op |-> "cpDeps", arg |-> EmptyName]>> ELSE <<>>))

\* EnsureFuncConfigMap: with a handler, the source is stored under its file
\* name (the API server refuses the key "."), and the dependency file under
\* the runtime's name for it.
EnsureFuncConfigMap(s) ==
    LET fnm == getFileName(s.file, s.handler, s.runtime)
    IN
    IF s.handler = "" THEN [err |-> "none", source |-> FALSE]
    ELSE IF fnm.err # "none" THEN [err |-> fnm.err, source |-> FALSE]
    ELSE IF fnm.name = DotName THEN [err |-> "Invalid", source |-> FALSE]
    ELSE [err |-> "none", source |-> TRUE]

DeployFailed(e) == [err |-> e, init |-> <<>>, prepare |-> <<>>, probe |-> FALSE]

\* EnsureFuncDeployment up to the API call: handler split and image
\* lookup, the prepare container when there is a payload, the install
\* container when there are dependencies, the liveness probe unless PubSub.
EnsureFuncDeployment(s) ==
    LET fnm  == getFileName(s.file, s.handler, s.runtime)
        prep == getProvisionContainer(s.checksum, fnm.name, s.handler,
                                      s.contentType, s.runtime)
        hasFn == s.function # NoPayload
    IN
    IF s.handler # "" /\ s.handler \notin ValidHandlers THEN DeployFailed("ValidationError")
    ELSE IF s.handler # "" /\ ~s.image /\ s.runtime \notin Runtimes
    THEN DeployFailed("UnknownRuntime")
    ELSE IF hasFn /\ fnm.err # "none" THEN DeployFailed(fnm.err)
    ELSE IF hasFn /\ prep.err # "none" THEN DeployFailed(prep.err)
    ELSE IF s.deps /\ s.runtime \notin DepRuntimes THEN DeployFailed("DepsUnsupported")
    ELSE [err |-> "none",
          init |-> (IF hasFn THEN <<"prepare">> ELSE <<>>)
                     \o (IF s.deps THEN <<"install">> ELSE <<>>),
          prepare |-> IF hasFn THEN prep.steps ELSE <<>>,
          probe |-> s.type # "PubSub"]

\* The resources derived from a spec, in the order they are ensured.
Derive(s) ==
    LET cm == EnsureFuncConfigMap(s)
        d  == IF cm.err # "none" THEN DeployFailed(cm.err) ELSE EnsureFuncDeployment(s)
    IN  [err |-> d.err, init |-> d.init, prepare |-> d.prepare, probe |-> d.probe,
         source |-> cm.source]

-----------------------------------------------------------------------------
(* Initial states: no Function, or one created from a manifest on the      *)
(* deprecated path (no file name, no checksum or a non-sha256 one, inline   *)
(* text content).                                                          *)

LegacyFunctions ==
    {[handler |-> h, runtime |-> r, type |-> "", topic |-> FALSE,
      schedule |-> FALSE, function |-> [enc |-> "text", of |-> f],
      file |-> EmptyName, checksum |-> c, contentType |-> "text",
      deps |-> FALSE, image |-> FALSE] :
       h \in ValidHandlers, r \in Runtimes,
       f \in {g \in LocalFiles : FileText[g] /\ FileSize[g] <= InlineLimit},
       c \in {NoChecksum} \cup [alg : {"md5"}, of : LocalFiles]}

Init ==
    \/ present = FALSE /\ fspec = EmptyFunction /\ ops = 0
    \/ present = TRUE /\ fspec \in LegacyFunctions /\ ops = 0

-----------------------------------------------------------------------------
(* The CLI commands.                                                       *)

Command == ops < MaxOps /\ ops' = ops + 1

\* `kubeless function deploy`: getFunctionDescription from the zero
\* Function, then CreateK8sCustomResource; any error is fatal.
DeployFunction ==
    /\ Command
    /\ ~present
    /\ \E h \in Handlers, file \in LocalFiles, deps \in BOOLEAN,
          r \in Runtimes \cup {""}, topic, schedule, image, http \in BOOLEAN,
          mem \in {"", "bad"}, st \in StorageStates :
         LET d == getFunctionDescription(h, file, deps, r, topic, schedule,
                                         image, mem, http, EmptyFunction, st)
         IN  /\ d.err = "none"
             /\ present' = TRUE
             /\ fspec' = d.fn

\* `kubeless function update`: GetFunction (fatal when not found),
\* getFunctionDescription from the stored Function with no dependencies
\* flag, then UpdateK8sCustomResource.
UpdateFunction(file) ==
    /\ Command
    /\ present
    /\ \E h \in Handlers \cup {""}, r \in Runtimes \cup {""},
          topic, schedule, image, http \in BOOLEAN, mem \in {"", "bad"},
          st \in StorageStates :
         LET d == getFunctionDescription(h, file, FALSE, r, topic, schedule,
                                         image, mem, http, fspec, st)
         IN  /\ d.err = "none"
             /\ fspec' = d.fn
    /\ UNCHANGED present

\* `kubeless function delete`: DeleteK8sCustomResource.
DeleteFunction ==
    /\ Command
    /\ present
    /\ present' = FALSE
    /\ fspec' = EmptyFunction

Next ==
    \/ DeployFunction
    \/ \E file \in LocalFiles \cup {EmptyName} : UpdateFunction(file)
    \/ DeleteFunction

Spec == Init /\ [][Next]_vars

-----------------------------------------------------------------------------
(* Running the prepare script in the init container.  The deps volume      *)
(* holds the ConfigMap: the payload under the source file name.  A step    *)
(* that fails stops the script (the commands are joined by &&).            *)
(*                                                                         *)
(* The decode command 'cat f | base64 -d > f' runs its two processes at    *)
(* once, and the shell truncates f for base64 while cat may still be       *)
(* reading it.  Its outcome is one of PipeRaces: cat read the whole file   *)
(* first; it read a prefix that decodes (base64 -d exits 0 with a short    *)
(* file, empty when the truncation came first); or a prefix cut inside a  *)
(* 4-character group, on which base64 -d exits non-zero.                   *)

PipeRaces == {"whole", "cut", "invalid"}

PrepareInit(s) ==
    [ok |-> Derive(s).source, file |-> s.function.enc, src |-> s.function.of,
     placed |-> "nothing"]

\* The copy or unzip places the file it finds: the source when it holds
\* the payload's bytes, anything else otherwise.
PlacedFrom(file) ==
    CASE file \in {"text", "raw"} -> "source"
      [] file = "cut"              -> "corrupt"
      [] OTHER                     -> "encoded"

RunStep(r, step, race) ==
    IF ~r.ok THEN r
    ELSE CASE step.op = "decode" ->
                [ok |-> r.file = "base64" /\ race # "invalid",
                 file |-> IF race = "whole" THEN "raw" ELSE "cut", src |-> r.src,
                 placed |-> r.placed]
           [] step.op = "writeSha" -> r
           [] step.op = "checkSha" ->
                [ok |-> r.file \in {"text", "raw"} /\ step.arg = r.src,
                 file |-> r.file, src |-> r.src, placed |-> r.placed]
           [] step.op \in {"unzip", "cp"} ->
                [ok |-> r.ok, file |-> r.file, src |-> r.src,
                 placed |-> PlacedFrom(r.file)]
           [] step.op = "cpDeps" -> r

\* getProvisionContainer appends at most five commands (decode, the sha256
\* sidecar and its check, unzip or cp, the dependency copy), so the script
\* is run by five steps, each past the script's end a no-op.
RunCommand(script, r, i, race) ==
    IF i <= Len(script) THEN RunStep(r, script[i], race) ELSE r

RunPrepare(s, race) ==
    LET script == Derive(s).prepare
    IN  RunCommand(script, RunCommand(script, RunCommand(script, RunCommand(script,
          RunCommand(script, PrepareInit(s), 1, race), 2, race), 3, race), 4, race), 5, race)

-----------------------------------------------------------------------------
(* Properties.                                                             *)

TypeOK ==
    /\ present \in BOOLEAN
    /\ fspec \in FunctionSpecs
    /\ ops \in 0..MaxOps

\* The provisioning pipeline never stores a Function larger than 50MB,
\* nor an inline (text or base64) one larger than 1MB, whatever sequence
\* of deploys and updates, with or without a new file, led to it.
SizeWithinLimits ==
    present /\ fspec.function # NoPayload =>
        /\ FileSize[fspec.function.of] <= MaxFunctionSize
        /\ fspec.contentType \in {"text", "base64"} =>
               FileSize[fspec.function.of] <= InlineLimit

\* Whenever the derivation accepts a stored Function with a payload, its
\* prepare container never succeeds with anything in the runtime volume but
\* the payload's decoded bytes: a decode cut short by the pipeline race of
\* 'cat f | base64 -d > f' is caught by the sha256 check, which runs after
\* the decode on the file the checksum was computed from.  And when the
\* race leaves the file whole, the container succeeds.
PrepareProvisionsSource ==
    present /\ fspec.function # NoPayload /\ Derive(fspec).err = "none" =>
        \A race \in PipeRaces :
            LET r == RunPrepare(fspec, race)
            IN  /\ r.ok => r.placed = "source"
                /\ race = "whole" => r.ok

\* A stored Function has at most the trigger parameter its type uses:
\* HTTP functions neither topic nor schedule, Scheduled ones no topic,
\* PubSub ones no schedule, across updates that inherit or switch type.
TriggerFieldsExclusive ==
    present =>
        /\ fspec.type = "HTTP" => ~fspec.topic /\ ~fspec.schedule
        /\ fspec.type = "Scheduled" => ~fspec.topic
        /\ fspec.type = "PubSub" => ~fspec.schedule

\* Spec 3: a payload inlined into the Function (text or base64) does not
\* exceed 1 MiB.
InlinePayloadWithinLimit ==
    present /\ fspec.contentType \in {"text", "base64"} =>
        LET n == FileSize[fspec.function.of]
        IN  (IF fspec.contentType = "base64" THEN 4 * ((n + 2) \div 3) ELSE n)
              <= InlineLimit

\* Spec 3 and 4.1: "URL" is one of the content types the pipeline produces;
\* the derivation does not reject a Function for its content type.
UploadedContentDerivable ==
    present => Derive(fspec).err # "UnsupportedEncoding"

\* Spec 3: an update that supplies no new source inherits the prior
\* content, file name and checksum.
UpdateWithoutSourceKeepsContent ==
    [][UpdateFunction(EmptyName) =>
         /\ fspec'.function = fspec.function
         /\ fspec'.file = fspec.file
         /\ fspec'.checksum = fspec.checksum]_vars

=============================================================================
