------------------------ MODULE FunctionDeployment_proofs ------------------------
(***************************************************************************)
(* Proofs about FunctionDeployment for all files, sizes, handlers,         *)
(* runtimes and limits: every stored Function is well formed, within the   *)
(* size limits of the provisioning pipeline, carries at most the trigger   *)
(* parameter of its type, and, when the derivation accepts it, has a       *)
(* prepare script that succeeds and places the decoded source.             *)
(***************************************************************************)
EXTENDS FunctionDeployment, TLAPS

\* The two state invariants as predicates of one spec.
SizeOK(s) ==
    s.function # NoPayload =>
        /\ FileSize[s.function.of] <= MaxFunctionSize
        /\ s.contentType \in {"text", "base64"} =>
               FileSize[s.function.of] <= InlineLimit

TriggerOK(s) ==
    /\ s.type = "HTTP" => ~s.topic /\ ~s.schedule
    /\ s.type = "Scheduled" => ~s.topic
    /\ s.type = "PubSub" => ~s.schedule

\* The source fields of a spec, which getFunctionDescription takes as a
\* whole from the default Function or from the provisioning pipeline.
ContentOK(c) ==
    /\ c.function \in Payloads
    /\ c.checksum \in Checksums
    /\ c.contentType = IF c.function = NoPayload THEN "" ELSE c.function.enc
    /\ SizeOK(c)

-----------------------------------------------------------------------------
(* Lemmas about the operators.                                             *)

\* A file that uploadFunction accepts is stored within the 50MB ceiling,
\* inline only within 1MB, under a content type that names its encoding.
LEMMA UploadResult ==
    ASSUME NEW f \in LocalFiles, NEW st \in StorageStates,
           uploadFunction(f, st).err = "none"
    PROVE  /\ ContentOK(uploadFunction(f, st))
           /\ uploadFunction(f, st).function # NoPayload
<1>1. FileSize[f] \in Nat
  BY FilesAssumption
<1>2. PICK ct \in {"text", "base64", "URL"} :
        /\ uploadFunction(f, st) = Provisioned(f, ct)
        /\ FileSize[f] <= MaxFunctionSize
        /\ ct \in {"text", "base64"} => FileSize[f] <= InlineLimit
  <2>1. FileSize[f] <= MaxFunctionSize
    BY <1>1, LimitsAssumption DEF uploadFunction, ProvisionFailed
  <2>2. CASE isMinioAvailable(st)
    <3>1. uploadFunction(f, st) = Provisioned(f, "URL")
      BY <2>1, <2>2, <1>1, LimitsAssumption DEF uploadFunction, ProvisionFailed
    <3>. QED
      BY <2>1, <3>1
  <2>3. CASE ~isMinioAvailable(st)
    <3>1. FileSize[f] <= InlineLimit
      BY <2>1, <2>3, <1>1, LimitsAssumption DEF uploadFunction, ProvisionFailed
    <3>2. uploadFunction(f, st) \in {Provisioned(f, "text"), Provisioned(f, "base64")}
      BY <2>1, <2>3, <3>1, <1>1, LimitsAssumption DEF uploadFunction
    <3>. QED
      BY <2>1, <3>1, <3>2
  <2>. QED
    BY <2>2, <2>3
<1>3. /\ Provisioned(f, ct).function \in Payloads
      /\ Provisioned(f, ct).function # NoPayload
      /\ Provisioned(f, ct).checksum \in Checksums
      /\ Provisioned(f, ct).contentType = ct
      /\ Provisioned(f, ct).function.enc = ct
      /\ Provisioned(f, ct).function.of = f
  BY DEF Provisioned, Payloads, Checksums, NoPayload
<1>4. ContentOK(Provisioned(f, ct))
  BY <1>2, <1>3 DEF ContentOK, SizeOK
<1>. QED
  BY <1>2, <1>3, <1>4

\* The content getFunctionDescription settles on keeps the shape and the
\* size limits of a spec: inherited as a whole, or provisioned.
LEMMA ContentResult ==
    ASSUME NEW dflt \in FunctionSpecs, SizeOK(dflt),
           NEW file \in LocalFiles \cup {EmptyName}, NEW st \in StorageStates,
           DescribeContent(file, dflt, st).err = "none"
    PROVE  /\ ContentOK(DescribeContent(file, dflt, st))
           /\ DescribeContent(file, dflt, st).file \in FileNames
<1>1. CASE file = EmptyName
  BY <1>1 DEF DescribeContent, ContentOK, SizeOK, FunctionSpecs, FileNames
<1>2. CASE file \in LocalFiles
  <2>1. file # EmptyName
    BY <1>2, FilesAssumption
  <2>2. uploadFunction(file, st).err = "none"
    BY <2>1 DEF DescribeContent
  <2>3. ContentOK(uploadFunction(file, st))
    BY <1>2, <2>2, UploadResult
  <2>. QED
    BY <1>2, <2>1, <2>3 DEF DescribeContent, ContentOK, SizeOK, FileNames
<1>. QED
  BY <1>1, <1>2

\* The switch on the trigger flags keeps at most the parameter of the type
\* it chooses, and inherits the type only together with its parameters.
LEMMA FuncTypeResult ==
    ASSUME NEW http, NEW schedule, NEW topic,
           NEW dflt \in FunctionSpecs, TriggerOK(dflt)
    PROVE  /\ funcType(http, schedule, topic, dflt).type \in {"", "HTTP", "Scheduled", "PubSub"}
           /\ funcType(http, schedule, topic, dflt).topic \in BOOLEAN
           /\ funcType(http, schedule, topic, dflt).schedule \in BOOLEAN
           /\ TriggerOK(funcType(http, schedule, topic, dflt))
BY DEF funcType, TriggerOK, FunctionSpecs

\* A description that succeeds yields a well-formed, size-bounded,
\* trigger-consistent Function.
DescriptionOK(d) ==
    d.err = "none" => d.fn \in FunctionSpecs /\ SizeOK(d.fn) /\ TriggerOK(d.fn)

\* The Function that getFunctionDescription builds from a well-formed
\* default is well formed, within the size limits and trigger-consistent.
LEMMA DescriptionResult ==
    ASSUME NEW dflt \in FunctionSpecs, SizeOK(dflt), TriggerOK(dflt),
           NEW h \in Handlers \cup {""}, NEW file \in LocalFiles \cup {EmptyName},
           NEW deps \in BOOLEAN, NEW r \in Runtimes \cup {""},
           NEW topic, NEW schedule, NEW image, NEW mem, NEW http,
           NEW st \in StorageStates
    PROVE  DescriptionOK(getFunctionDescription(h, file, deps, r, topic, schedule,
                                                image, mem, http, dflt, st))
<1>. SUFFICES ASSUME getFunctionDescription(h, file, deps, r, topic, schedule,
                                            image, mem, http, dflt, st).err = "none"
              PROVE  LET fn == getFunctionDescription(h, file, deps, r, topic, schedule,
                                                      image, mem, http, dflt, st).fn
                     IN  fn \in FunctionSpecs /\ SizeOK(fn) /\ TriggerOK(fn)
  BY DEF DescriptionOK
<1>. DEFINE c  == DescribeContent(file, dflt, st)
            ty == funcType(http, schedule, topic, dflt)
<1>1. c.err = "none"
  BY DEF getFunctionDescription
<1>2. ContentOK(c) /\ c.file \in FileNames
  BY <1>1, ContentResult
<1>3. /\ ty.type \in {"", "HTTP", "Scheduled", "PubSub"}
      /\ ty.topic \in BOOLEAN /\ ty.schedule \in BOOLEAN
      /\ TriggerOK(ty)
  BY FuncTypeResult
<1>4. PathBase(c.file) \in FileNames
  BY <1>2 DEF PathBase, FileNames
<1>5. dflt.handler \in Handlers \cup {""} /\ dflt.runtime \in Runtimes \cup {""}
      /\ dflt.deps \in BOOLEAN /\ dflt.image \in BOOLEAN
  BY DEF FunctionSpecs
<1>. DEFINE fn == [handler |-> IF h = "" THEN dflt.handler ELSE h,
                   runtime |-> IF r = "" THEN dflt.runtime ELSE r,
                   type |-> ty.type, topic |-> ty.topic, schedule |-> ty.schedule,
                   function |-> c.function, file |-> PathBase(c.file),
                   checksum |-> c.checksum, contentType |-> c.contentType,
                   deps |-> deps \/ dflt.deps, image |-> image \/ dflt.image]
<1>6. getFunctionDescription(h, file, deps, r, topic, schedule, image,
                             mem, http, dflt, st).fn = fn
  BY <1>1 DEF getFunctionDescription
<1>7. fn \in FunctionSpecs
  <2>1. /\ fn.handler \in Handlers \cup {""} /\ fn.runtime \in Runtimes \cup {""}
        /\ fn.deps \in BOOLEAN /\ fn.image \in BOOLEAN
    BY <1>5
  <2>2. /\ fn.type \in {"", "HTTP", "Scheduled", "PubSub"}
        /\ fn.topic \in BOOLEAN /\ fn.schedule \in BOOLEAN
    BY <1>3
  <2>3. /\ fn.function \in Payloads /\ fn.file \in FileNames
        /\ fn.checksum \in Checksums
        /\ fn.contentType \in {"", "text", "base64", "URL"}
        /\ fn.contentType = IF fn.function = NoPayload THEN "" ELSE fn.function.enc
    BY <1>2, <1>4 DEF ContentOK, Payloads, NoPayload
  <2>4. fn \in [handler : Handlers \cup {""}, runtime : Runtimes \cup {""},
                type : {"", "HTTP", "Scheduled", "PubSub"},
                topic : BOOLEAN, schedule : BOOLEAN,
                function : Payloads, file : FileNames, checksum : Checksums,
                contentType : {"", "text", "base64", "URL"},
                deps : BOOLEAN, image : BOOLEAN]
    BY <2>1, <2>2, <2>3
  <2>. QED
    BY <2>3, <2>4 DEF FunctionSpecs
<1>8. SizeOK(fn)
  BY <1>2 DEF ContentOK, SizeOK
<1>9. TriggerOK(fn)
  BY <1>3 DEF TriggerOK
<1>. QED
  BY <1>6, <1>7, <1>8, <1>9

\* The zero Function the deploy command starts from is a well-formed,
\* trigger-consistent spec without a payload.
LEMMA EmptyFunctionOK ==
    EmptyFunction \in FunctionSpecs /\ SizeOK(EmptyFunction) /\ TriggerOK(EmptyFunction)
BY DEF EmptyFunction, FunctionSpecs, Payloads, Checksums, FileNames,
       NoPayload, NoChecksum, SizeOK, TriggerOK

-----------------------------------------------------------------------------
(* The inductive invariant.                                                *)

\* The stored Function is well formed and satisfies both predicates: the
\* update command takes it as the default of the next description.
IInv ==
    /\ TypeOK
    /\ present => SizeOK(fspec) /\ TriggerOK(fspec)

\* IInv from its parts, now and after a step.
LEMMA IInvIntro ==
    ASSUME present \in BOOLEAN, fspec \in FunctionSpecs, ops \in 0..MaxOps,
           present => SizeOK(fspec) /\ TriggerOK(fspec)
    PROVE  IInv
BY DEF IInv, TypeOK

LEMMA IInvIntroPrime ==
    ASSUME present' \in BOOLEAN, fspec' \in FunctionSpecs, ops' \in 0..MaxOps,
           present' => SizeOK(fspec') /\ TriggerOK(fspec')
    PROVE  IInv'
BY DEF IInv, TypeOK

\* A Function created from a manifest on the deprecated path, and the
\* LegacyFunctions of Init written with it.
LegacyFunction(h, r, f, c) ==
    [handler |-> h, runtime |-> r, type |-> "", topic |-> FALSE,
     schedule |-> FALSE, function |-> [enc |-> "text", of |-> f],
     file |-> EmptyName, checksum |-> c, contentType |-> "text",
     deps |-> FALSE, image |-> FALSE]

LEMMA LegacyFunctionsForm ==
    LegacyFunctions =
      {LegacyFunction(h, r, f, c) :
         h \in ValidHandlers, r \in Runtimes,
         f \in {g \in LocalFiles : FileText[g] /\ FileSize[g] <= InlineLimit},
         c \in {NoChecksum} \cup [alg : {"md5"}, of : LocalFiles]}
BY DEF LegacyFunctions, LegacyFunction

\* A Function from the deprecated path is well formed, within the inline
\* limit and has no trigger parameter.
LEMMA LegacyOK ==
    ASSUME NEW h \in ValidHandlers, NEW r \in Runtimes, NEW f \in LocalFiles,
           FileSize[f] <= InlineLimit,
           NEW c \in {NoChecksum} \cup [alg : {"md5"}, of : LocalFiles]
    PROVE  /\ LegacyFunction(h, r, f, c) \in FunctionSpecs
           /\ SizeOK(LegacyFunction(h, r, f, c))
           /\ TriggerOK(LegacyFunction(h, r, f, c))
<1>1. FileSize[f] \in Nat
  BY FilesAssumption
<1>2. LegacyFunction(h, r, f, c) \in FunctionSpecs
  BY HandlerAssumption
     DEF LegacyFunction, FunctionSpecs, Payloads, Checksums, FileNames, NoPayload
<1>3. SizeOK(LegacyFunction(h, r, f, c))
  BY <1>1, LimitsAssumption DEF LegacyFunction, SizeOK, NoPayload
<1>4. TriggerOK(LegacyFunction(h, r, f, c))
  BY DEF LegacyFunction, TriggerOK
<1>. QED
  BY <1>2, <1>3, <1>4

LEMMA InitIInv == Init => IInv
<1>. SUFFICES ASSUME Init PROVE IInv
  OBVIOUS
<1>1. CASE present = FALSE /\ fspec = EmptyFunction /\ ops = 0
  <2>1. fspec \in FunctionSpecs /\ ops \in 0..MaxOps
    BY <1>1, EmptyFunctionOK, LimitsAssumption
  <2>. QED
    BY <1>1, <2>1, IInvIntro
<1>2. CASE present = TRUE /\ fspec \in LegacyFunctions /\ ops = 0
  <2>1. PICK h \in ValidHandlers, r \in Runtimes,
             f \in {g \in LocalFiles : FileText[g] /\ FileSize[g] <= InlineLimit},
             c \in {NoChecksum} \cup [alg : {"md5"}, of : LocalFiles] :
          fspec = LegacyFunction(h, r, f, c)
    BY <1>2, LegacyFunctionsForm
  <2>2. fspec \in FunctionSpecs /\ SizeOK(fspec) /\ TriggerOK(fspec)
    BY <2>1, LegacyOK
  <2>. QED
    <3>1. ops \in 0..MaxOps
      BY <1>2, LimitsAssumption
    <3>. QED
      BY <1>2, <2>2, <3>1, IInvIntro
<1>. QED
  BY <1>1, <1>2 DEF Init

LEMMA IInvStep == IInv /\ [Next]_vars => IInv'
<1>. SUFFICES ASSUME IInv, [Next]_vars PROVE IInv'
  OBVIOUS
<1>1. ASSUME Command PROVE ops' \in 0..MaxOps
  BY <1>1, LimitsAssumption DEF Command, IInv, TypeOK
<1>2. CASE DeployFunction
  <2>1. PICK h \in Handlers, file \in LocalFiles, deps \in BOOLEAN,
             r \in Runtimes \cup {""}, topic, schedule, image, http \in BOOLEAN,
             mem \in {"", "bad"}, st \in StorageStates :
          LET d == getFunctionDescription(h, file, deps, r, topic, schedule,
                                          image, mem, http, EmptyFunction, st)
          IN  /\ d.err = "none"
              /\ present' = TRUE
              /\ fspec' = d.fn
    BY <1>2 DEF DeployFunction
  <2>. DEFINE d == getFunctionDescription(h, file, deps, r, topic, schedule,
                                          image, mem, http, EmptyFunction, st)
  <2>2. d.err = "none" /\ present' = TRUE /\ fspec' = d.fn
    BY <2>1
  <2>3. d.fn \in FunctionSpecs /\ SizeOK(d.fn) /\ TriggerOK(d.fn)
    <3>1. \A dp \in BOOLEAN : \A tp, sc, im, ht :
            DescriptionOK(getFunctionDescription(h, file, dp, r, tp, sc, im,
                                                 mem, ht, EmptyFunction, st))
      BY EmptyFunctionOK, DescriptionResult
    <3>2. DescriptionOK(d)
      BY <3>1, Zenon
    <3>. QED
      BY <2>2, <3>2 DEF DescriptionOK
  <2>4. Command
    BY <1>2 DEF DeployFunction
  <2>. QED
    BY <1>1, <2>2, <2>3, <2>4, IInvIntroPrime
<1>3. ASSUME NEW file \in LocalFiles \cup {EmptyName}, UpdateFunction(file)
      PROVE  IInv'
  <2>1. present /\ fspec \in FunctionSpecs /\ SizeOK(fspec) /\ TriggerOK(fspec)
    BY <1>3 DEF UpdateFunction, IInv, TypeOK
  <2>2. PICK h \in Handlers \cup {""}, r \in Runtimes \cup {""},
             topic \in BOOLEAN, schedule \in BOOLEAN, image \in BOOLEAN,
             http \in BOOLEAN, mem \in {"", "bad"}, st \in StorageStates :
          LET d == getFunctionDescription(h, file, FALSE, r, topic, schedule,
                                          image, mem, http, fspec, st)
          IN  d.err = "none" /\ fspec' = d.fn
    BY <1>3, Zenon DEF UpdateFunction
  <2>. DEFINE d == getFunctionDescription(h, file, FALSE, r, topic, schedule,
                                          image, mem, http, fspec, st)
  <2>3. d.err = "none" /\ fspec' = d.fn
    BY <2>2
  <2>4. d.fn \in FunctionSpecs /\ SizeOK(d.fn) /\ TriggerOK(d.fn)
    <3>1. \A tp, sc, im, ht :
            DescriptionOK(getFunctionDescription(h, file, FALSE, r, tp, sc, im,
                                                 mem, ht, fspec, st))
      BY <2>1, DescriptionResult
    <3>2. DescriptionOK(d)
      BY <3>1, Zenon
    <3>. QED
      BY <2>3, <3>2 DEF DescriptionOK
  <2>5. Command /\ present' = present
    BY <1>3 DEF UpdateFunction
  <2>. QED
    BY <1>1, <2>1, <2>3, <2>4, <2>5, IInvIntroPrime
<1>4. CASE DeleteFunction
  <2>1. Command /\ present' = FALSE /\ fspec' = EmptyFunction
    BY <1>4 DEF DeleteFunction
  <2>2. fspec' \in FunctionSpecs
    BY <2>1, EmptyFunctionOK
  <2>. QED
    BY <1>1, <2>1, <2>2, IInvIntroPrime
<1>5. CASE UNCHANGED vars
  BY <1>5 DEF vars, IInv, TypeOK, SizeOK, TriggerOK
<1>. QED
  BY <1>2, <1>3, <1>4, <1>5 DEF Next

\* Every reachable state of the CLI commands stores a well-formed
\* Function, for all files, handlers, runtimes and limits.
THEOREM IInvariant == Spec => []IInv
BY InitIInv, IInvStep, PTL DEF Spec

\* Every reachable state is well typed: the stored spec's content type
\* names the encoding of its payload.
THEOREM TypeCorrect == Spec => []TypeOK
BY IInvariant, PTL DEF IInv

\* uploadFunction's two ceilings hold of the stored Function after any
\* sequence of deploys, updates with or without a new file, and deletes:
\* at most MaxFunctionSize, and inline only within InlineLimit.
THEOREM SizeWithinLimitsThm == Spec => []SizeWithinLimits
<1>1. IInv => SizeWithinLimits
  BY DEF IInv, SizeOK, SizeWithinLimits
<1>. QED
  BY <1>1, IInvariant, PTL

\* The switch on --trigger-http, --schedule and --trigger-topic, with the
\* fields inherited on update, leaves a stored Function with at most the
\* trigger parameter of its type.
THEOREM TriggerFieldsExclusiveThm == Spec => []TriggerFieldsExclusive
<1>1. IInv => TriggerFieldsExclusive
  BY DEF IInv, TriggerOK, TriggerFieldsExclusive
<1>. QED
  BY <1>1, IInvariant, PTL

-----------------------------------------------------------------------------
(* The prepare script.  Run by RunPrepare in five steps, it succeeds and    *)
(* places the decoded source whenever its commands come in the order       *)
(* getProvisionContainer appends them, the sha256 check is of the file the *)
(* payload came from and the decode pipeline reads the whole file; when    *)
(* the pipeline cuts the file, the sha256 check stops the script.          *)

\* The commands of the prepare script.
Decode == [op |-> "decode", arg |-> EmptyName]
WriteSha(f) == [op |-> "writeSha", arg |-> f]
CheckSha(f) == [op |-> "checkSha", arg |-> f]
CpDeps == [op |-> "cpDeps", arg |-> EmptyName]

\* After k steps of a script: the run has not failed, still reads the source
\* file f, holds it decoded once past the first step, and has placed it
\* once the copy or unzip command has run.
Good(sc, f, enc, place, k, r) ==
    /\ r.ok = TRUE /\ r.src = f
    /\ k = 0 => r.file = enc
    /\ k # 0 => r.file \in {"text", "raw"}
    /\ (\E j \in 1..k : j <= Len(sc) /\ sc[j] = place) => r.placed = "source"

\* The scripts getProvisionContainer writes for a payload of encoding enc
\* from file f: at most five commands, the base64 decode only first and
\* only for base64 content, one copy or unzip command, and the sha256 pair
\* for f.
ScriptShape(sc, f, enc, place) ==
    /\ Len(sc) \in 1..5
    /\ \A i \in 1..Len(sc) : sc[i] \in {Decode, WriteSha(f), CheckSha(f), place, CpDeps}
    /\ \A i \in 1..Len(sc) : sc[i] = Decode => i = 1 /\ enc = "base64"
    /\ enc = "base64" => sc[1] = Decode
    /\ \E j \in 1..Len(sc) : sc[j] = place

\* What each command of the prepare script does to a run that has not failed.
LEMMA StepDecode ==
    ASSUME NEW r, r.ok = TRUE, NEW race \in PipeRaces
    PROVE  RunStep(r, Decode, race) =
             [ok |-> r.file = "base64" /\ race # "invalid",
              file |-> IF race = "whole" THEN "raw" ELSE "cut", src |-> r.src,
              placed |-> r.placed]
BY Zenon DEF RunStep, Decode

LEMMA StepWriteSha ==
    ASSUME NEW r, r.ok = TRUE, NEW a, NEW race \in PipeRaces
    PROVE  RunStep(r, WriteSha(a), race) = r
BY Zenon DEF RunStep, WriteSha

LEMMA StepCheckSha ==
    ASSUME NEW r, r.ok = TRUE, NEW a, NEW race \in PipeRaces
    PROVE  RunStep(r, CheckSha(a), race) =
             [ok |-> r.file \in {"text", "raw"} /\ a = r.src,
              file |-> r.file, src |-> r.src, placed |-> r.placed]
BY Zenon DEF RunStep, CheckSha

LEMMA StepCpDeps ==
    ASSUME NEW r, r.ok = TRUE, NEW race \in PipeRaces
    PROVE  RunStep(r, CpDeps, race) = r
BY Zenon DEF RunStep, CpDeps

\* A run that has failed stays as it is.
LEMMA StepFailed ==
    ASSUME NEW sc, NEW r, r.ok = FALSE, NEW i, NEW race \in PipeRaces
    PROVE  RunCommand(sc, r, i, race) = r
<1>1. \A st : RunStep(r, st, race) = r
  BY Zenon DEF RunStep
<1>. QED
  BY <1>1, Zenon DEF RunCommand

\* The copy or unzip of a file that holds the payload's bytes places the source.
LEMMA PlacedSource ==
    ASSUME NEW file \in {"text", "raw"}
    PROVE  PlacedFrom(file) = "source"
BY DEF PlacedFrom

\* One step of a well-shaped script keeps a run Good.
LEMMA CommandStep ==
    ASSUME NEW sc,
           NEW f, NEW enc \in {"text", "base64"}, NEW place, place.op \in {"unzip", "cp"},
           ScriptShape(sc, f, enc, place),
           NEW race \in PipeRaces, enc = "base64" => race = "whole",
           NEW k \in 1..5, NEW r, Good(sc, f, enc, place, k - 1, r)
    PROVE  Good(sc, f, enc, place, k, RunCommand(sc, r, k, race))
<1>1. CASE k > Len(sc)
  <2>1. RunCommand(sc, r, k, race) = r
    BY <1>1 DEF RunCommand
  <2>2. \A j \in 1..k : j <= Len(sc) => j \in 1..(k - 1)
    BY <1>1
  <2>3. r.file \in {"text", "raw"}
    BY <1>1 DEF ScriptShape, Good
  <2>. QED
    BY <2>1, <2>2, <2>3 DEF Good
<1>2. CASE k <= Len(sc)
  <2>. DEFINE st == sc[k]
  <2>1. RunCommand(sc, r, k, race) = RunStep(r, st, race)
    BY <1>2 DEF RunCommand
  <2>2. st \in {Decode, WriteSha(f), CheckSha(f), place, CpDeps}
    BY <1>2 DEF ScriptShape
  <2>3. (\E j \in 1..k : j <= Len(sc) /\ sc[j] = place) =>
          st = place \/ \E j \in 1..(k - 1) : j <= Len(sc) /\ sc[j] = place
    BY <1>2
  <2>4. r.ok = TRUE /\ r.src = f
    BY DEF Good
  <2>5. CASE st = Decode
    <3>1. k = 1 /\ enc = "base64" /\ r.file = "base64"
      BY <1>2, <2>5 DEF ScriptShape, Good
    <3>2. RunStep(r, st, race) = [ok |-> TRUE, file |-> "raw", src |-> f, placed |-> r.placed]
      BY <2>4, <2>5, <3>1, StepDecode
    <3>3. st # place
      BY <2>5 DEF Decode
    <3>4. ~\E j \in 1..(k - 1) : j <= Len(sc) /\ sc[j] = place
      BY <3>1
    <3>. QED
      BY <2>1, <2>3, <3>1, <3>2, <3>3, <3>4 DEF Good
  <2>6. CASE st # Decode
    <3>1. r.file \in {"text", "raw"}
      BY <1>2, <2>6 DEF ScriptShape, Good
    <3>2. CASE st = WriteSha(f) \/ st = CpDeps
      <4>1. RunStep(r, st, race) = r
        BY <2>4, <3>2, StepWriteSha, StepCpDeps
      <4>2. st # place
        BY <3>2 DEF WriteSha, CpDeps
      <4>. QED
        BY <2>1, <2>3, <2>4, <3>1, <4>1, <4>2 DEF Good
    <3>3. CASE st = CheckSha(f)
      <4>1. RunStep(r, st, race) = [ok |-> TRUE, file |-> r.file, src |-> f, placed |-> r.placed]
        BY <2>4, <3>1, <3>3, StepCheckSha
      <4>2. st # place
        BY <3>3 DEF CheckSha
      <4>. QED
        BY <2>1, <2>3, <3>1, <4>1, <4>2 DEF Good
    <3>4. CASE st = place
      <4>0. st.op \in {"unzip", "cp"}
        BY <3>4
      <4>a. RunStep(r, st, race) =
              [ok |-> r.ok, file |-> r.file, src |-> r.src, placed |-> PlacedFrom(r.file)]
        BY <2>4, <4>0, Zenon DEF RunStep
      <4>b. PlacedFrom(r.file) = "source"
        BY <3>1, PlacedSource
      <4>1. RunStep(r, st, race) = [ok |-> TRUE, file |-> r.file, src |-> f, placed |-> "source"]
        BY <2>4, <4>a, <4>b
      <4>. QED
        BY <2>1, <3>1, <4>1 DEF Good
    <3>. QED
      BY <2>2, <2>6, <3>2, <3>3, <3>4
  <2>. QED
    BY <2>5, <2>6
<1>. QED
  BY <1>1, <1>2

\* The five steps of RunPrepare from a given start.
RunFive(sc, r0, race) ==
    RunCommand(sc, RunCommand(sc, RunCommand(sc, RunCommand(sc,
      RunCommand(sc, r0, 1, race), 2, race), 3, race), 4, race), 5, race)

\* A well-shaped script run from a Good start succeeds and places the source.
LEMMA ScriptRuns ==
    ASSUME NEW sc,
           NEW f, NEW enc \in {"text", "base64"}, NEW place, place.op \in {"unzip", "cp"},
           ScriptShape(sc, f, enc, place),
           NEW race \in PipeRaces, enc = "base64" => race = "whole",
           NEW r0, Good(sc, f, enc, place, 0, r0)
    PROVE  RunFive(sc, r0, race).ok /\ RunFive(sc, r0, race).placed = "source"
<1>. DEFINE r1 == RunCommand(sc, r0, 1, race)
            r2 == RunCommand(sc, r1, 2, race)
            r3 == RunCommand(sc, r2, 3, race)
            r4 == RunCommand(sc, r3, 4, race)
            r5 == RunCommand(sc, r4, 5, race)
<1>1. Good(sc, f, enc, place, 1, r1)
  BY CommandStep
<1>2. Good(sc, f, enc, place, 2, r2)
  BY <1>1, CommandStep
<1>3. Good(sc, f, enc, place, 3, r3)
  BY <1>2, CommandStep
<1>4. Good(sc, f, enc, place, 4, r4)
  BY <1>3, CommandStep
<1>5. Good(sc, f, enc, place, 5, r5)
  BY <1>4, CommandStep
<1>6. \E j \in 1..5 : j <= Len(sc) /\ sc[j] = place
  BY DEF ScriptShape
<1>. QED
  BY <1>5, <1>6 DEF Good, RunFive

\* The script getProvisionContainer builds: decode, the sha256 pair, the
\* copy or unzip command, the dependency copy, each when it applies.
Script(enc, chk, f, place, dep) ==
    (((<<>> \o (IF enc = "base64" THEN <<Decode>> ELSE <<>>))
            \o (IF chk THEN <<WriteSha(f), CheckSha(f)>> ELSE <<>>))
            \o <<place>>)
            \o (IF dep THEN <<CpDeps>> ELSE <<>>)

\* Every such script has the shape, in each of its eight forms.
LEMMA ScriptShapeOK ==
    ASSUME NEW enc \in {"text", "base64"}, NEW chk \in BOOLEAN, NEW f,
           NEW place, place.op \in {"unzip", "cp"}, NEW dep \in BOOLEAN
    PROVE  /\ Script(enc, chk, f, place, dep) \in Seq({Decode, WriteSha(f), CheckSha(f), place, CpDeps})
           /\ ScriptShape(Script(enc, chk, f, place, dep), f, enc, place)
<1>1. place # Decode /\ place # WriteSha(f) /\ place # CheckSha(f) /\ place # CpDeps
  BY DEF Decode, WriteSha, CheckSha, CpDeps
<1>2. Decode # WriteSha(f) /\ Decode # CheckSha(f) /\ Decode # CpDeps
  BY DEF Decode, WriteSha, CheckSha, CpDeps
<1>3. CASE enc = "text" /\ ~chk /\ ~dep
  <2>. DEFINE sc == Script(enc, chk, f, place, dep)
  <2>1. Len(sc) = 1 /\ sc[1] = place
    BY <1>3 DEF Script
  <2>2. sc \in Seq({Decode, WriteSha(f), CheckSha(f), place, CpDeps})
    BY <1>3 DEF Script
  <2>. HIDE DEF sc
  <2>3. \A i \in 1..Len(sc) : sc[i] \in {Decode, WriteSha(f), CheckSha(f), place, CpDeps}
    BY <2>1
  <2>4. \A i \in 1..Len(sc) : sc[i] = Decode => i = 1 /\ enc = "base64"
    BY <2>1, <1>1, <1>2, <1>3
  <2>5. enc = "base64" => sc[1] = Decode
    BY <2>1, <1>3
  <2>6. 1 \in 1..Len(sc) /\ sc[1] = place
    BY <2>1
  <2>. QED
    BY <2>1, <2>2, <2>3, <2>4, <2>5, <2>6 DEF ScriptShape, sc
<1>4. CASE enc = "text" /\ ~chk /\ dep
  <2>. DEFINE sc == Script(enc, chk, f, place, dep)
  <2>1. Len(sc) = 2 /\ sc[1] = place /\ sc[2] = CpDeps
    BY <1>4 DEF Script
  <2>2. sc \in Seq({Decode, WriteSha(f), CheckSha(f), place, CpDeps})
    BY <1>4 DEF Script
  <2>. HIDE DEF sc
  <2>3. \A i \in 1..Len(sc) : sc[i] \in {Decode, WriteSha(f), CheckSha(f), place, CpDeps}
    BY <2>1
  <2>4. \A i \in 1..Len(sc) : sc[i] = Decode => i = 1 /\ enc = "base64"
    BY <2>1, <1>1, <1>2, <1>4
  <2>5. enc = "base64" => sc[1] = Decode
    BY <2>1, <1>4
  <2>6. 1 \in 1..Len(sc) /\ sc[1] = place
    BY <2>1
  <2>. QED
    BY <2>1, <2>2, <2>3, <2>4, <2>5, <2>6 DEF ScriptShape, sc
<1>5. CASE enc = "text" /\ chk /\ ~dep
  <2>. DEFINE sc == Script(enc, chk, f, place, dep)
  <2>1. Len(sc) = 3 /\ sc[1] = WriteSha(f) /\ sc[2] = CheckSha(f) /\ sc[3] = place
    BY <1>5 DEF Script
  <2>2. sc \in Seq({Decode, WriteSha(f), CheckSha(f), place, CpDeps})
    BY <1>5 DEF Script
  <2>. HIDE DEF sc
  <2>3. \A i \in 1..Len(sc) : sc[i] \in {Decode, WriteSha(f), CheckSha(f), place, CpDeps}
    BY <2>1
  <2>4. \A i \in 1..Len(sc) : sc[i] = Decode => i = 1 /\ enc = "base64"
    BY <2>1, <1>1, <1>2, <1>5
  <2>5. enc = "base64" => sc[1] = Decode
    BY <2>1, <1>5
  <2>6. 3 \in 1..Len(sc) /\ sc[3] = place
    BY <2>1
  <2>. QED
    BY <2>1, <2>2, <2>3, <2>4, <2>5, <2>6 DEF ScriptShape, sc
<1>6. CASE enc = "text" /\ chk /\ dep
  <2>. DEFINE sc == Script(enc, chk, f, place, dep)
  <2>1. Len(sc) = 4 /\ sc[1] = WriteSha(f) /\ sc[2] = CheckSha(f) /\ sc[3] = place /\ sc[4] = CpDeps
    BY <1>6 DEF Script
  <2>2. sc \in Seq({Decode, WriteSha(f), CheckSha(f), place, CpDeps})
    BY <1>6 DEF Script
  <2>. HIDE DEF sc
  <2>3. \A i \in 1..Len(sc) : sc[i] \in {Decode, WriteSha(f), CheckSha(f), place, CpDeps}
    BY <2>1
  <2>4. \A i \in 1..Len(sc) : sc[i] = Decode => i = 1 /\ enc = "base64"
    BY <2>1, <1>1, <1>2, <1>6
  <2>5. enc = "base64" => sc[1] = Decode
    BY <2>1, <1>6
  <2>6. 3 \in 1..Len(sc) /\ sc[3] = place
    BY <2>1
  <2>. QED
    BY <2>1, <2>2, <2>3, <2>4, <2>5, <2>6 DEF ScriptShape, sc
<1>7. CASE enc = "base64" /\ ~chk /\ ~dep
  <2>. DEFINE sc == Script(enc, chk, f, place, dep)
  <2>1. Len(sc) = 2 /\ sc[1] = Decode /\ sc[2] = place
    BY <1>7 DEF Script
  <2>2. sc \in Seq({Decode, WriteSha(f), CheckSha(f), place, CpDeps})
    BY <1>7 DEF Script
  <2>. HIDE DEF sc
  <2>3. \A i \in 1..Len(sc) : sc[i] \in {Decode, WriteSha(f), CheckSha(f), place, CpDeps}
    BY <2>1
  <2>4. \A i \in 1..Len(sc) : sc[i] = Decode => i = 1 /\ enc = "base64"
    BY <2>1, <1>1, <1>2, <1>7
  <2>5. enc = "base64" => sc[1] = Decode
    BY <2>1, <1>7
  <2>6. 2 \in 1..Len(sc) /\ sc[2] = place
    BY <2>1
  <2>. QED
    BY <2>1, <2>2, <2>3, <2>4, <2>5, <2>6 DEF ScriptShape, sc
<1>8. CASE enc = "base64" /\ ~chk /\ dep
  <2>. DEFINE sc == Script(enc, chk, f, place, dep)
  <2>1. Len(sc) = 3 /\ sc[1] = Decode /\ sc[2] = place /\ sc[3] = CpDeps
    BY <1>8 DEF Script
  <2>2. sc \in Seq({Decode, WriteSha(f), CheckSha(f), place, CpDeps})
    BY <1>8 DEF Script
  <2>. HIDE DEF sc
  <2>3. \A i \in 1..Len(sc) : sc[i] \in {Decode, WriteSha(f), CheckSha(f), place, CpDeps}
    BY <2>1
  <2>4. \A i \in 1..Len(sc) : sc[i] = Decode => i = 1 /\ enc = "base64"
    BY <2>1, <1>1, <1>2, <1>8
  <2>5. enc = "base64" => sc[1] = Decode
    BY <2>1, <1>8
  <2>6. 2 \in 1..Len(sc) /\ sc[2] = place
    BY <2>1
  <2>. QED
    BY <2>1, <2>2, <2>3, <2>4, <2>5, <2>6 DEF ScriptShape, sc
<1>9. CASE enc = "base64" /\ chk /\ ~dep
  <2>. DEFINE sc == Script(enc, chk, f, place, dep)
  <2>1. Len(sc) = 4 /\ sc[1] = Decode /\ sc[2] = WriteSha(f) /\ sc[3] = CheckSha(f) /\ sc[4] = place
    BY <1>9 DEF Script
  <2>2. sc \in Seq({Decode, WriteSha(f), CheckSha(f), place, CpDeps})
    BY <1>9 DEF Script
  <2>. HIDE DEF sc
  <2>3. \A i \in 1..Len(sc) : sc[i] \in {Decode, WriteSha(f), CheckSha(f), place, CpDeps}
    BY <2>1
  <2>4. \A i \in 1..Len(sc) : sc[i] = Decode => i = 1 /\ enc = "base64"
    BY <2>1, <1>1, <1>2, <1>9
  <2>5. enc = "base64" => sc[1] = Decode
    BY <2>1, <1>9
  <2>6. 4 \in 1..Len(sc) /\ sc[4] = place
    BY <2>1
  <2>. QED
    BY <2>1, <2>2, <2>3, <2>4, <2>5, <2>6 DEF ScriptShape, sc
<1>10. CASE enc = "base64" /\ chk /\ dep
  <2>. DEFINE sc == Script(enc, chk, f, place, dep)
  <2>1. Len(sc) = 5 /\ sc[1] = Decode /\ sc[2] = WriteSha(f) /\ sc[3] = CheckSha(f) /\ sc[4] = place /\ sc[5] = CpDeps
    BY <1>10 DEF Script
  <2>2. sc \in Seq({Decode, WriteSha(f), CheckSha(f), place, CpDeps})
    BY <1>10 DEF Script
  <2>. HIDE DEF sc
  <2>3. \A i \in 1..Len(sc) : sc[i] \in {Decode, WriteSha(f), CheckSha(f), place, CpDeps}
    BY <2>1
  <2>4. \A i \in 1..Len(sc) : sc[i] = Decode => i = 1 /\ enc = "base64"
    BY <2>1, <1>1, <1>2, <1>10
  <2>5. enc = "base64" => sc[1] = Decode
    BY <2>1, <1>10
  <2>6. 4 \in 1..Len(sc) /\ sc[4] = place
    BY <2>1
  <2>. QED
    BY <2>1, <2>2, <2>3, <2>4, <2>5, <2>6 DEF ScriptShape, sc
<1>. QED
  BY <1>3, <1>4, <1>5, <1>6, <1>7, <1>8, <1>9, <1>10

\* A base64 script with its sha256 pair whose decode the pipeline race has
\* cut short fails: base64 -d exits non-zero, or the sha256 check of the
\* short file does, before the copy or unzip runs.
LEMMA CutCaught ==
    ASSUME NEW f, NEW place, place.op = "unzip" \/ place.op = "cp", NEW dep,
           NEW r0, r0.ok = TRUE, r0.file = "base64", r0.src = f,
           NEW race \in PipeRaces, race # "whole"
    PROVE  ~RunFive(Script("base64", TRUE, f, place, dep), r0, race).ok
<1>. DEFINE sc == Script("base64", TRUE, f, place, dep)
<1>1. 3 <= Len(sc) /\ sc[1] = Decode /\ sc[2] = WriteSha(f) /\ sc[3] = CheckSha(f)
  <2>1. CASE dep
    BY <2>1 DEF Script
  <2>2. CASE ~dep
    BY <2>2 DEF Script
  <2>. QED
    BY <2>1, <2>2
<1>. HIDE DEF sc
<1>. DEFINE r1 == RunCommand(sc, r0, 1, race)
            r2 == RunCommand(sc, r1, 2, race)
            r3 == RunCommand(sc, r2, 3, race)
<1>. HIDE DEF r1, r2, r3
<1>2. r1 = [ok |-> race # "invalid", file |-> "cut", src |-> f, placed |-> r0.placed]
  <2>1. r1 = RunStep(r0, Decode, race)
    BY <1>1 DEF RunCommand, r1
  <2>2. RunStep(r0, Decode, race) =
          [ok |-> r0.file = "base64" /\ race # "invalid",
           file |-> IF race = "whole" THEN "raw" ELSE "cut", src |-> r0.src,
           placed |-> r0.placed]
    BY StepDecode
  <2>. QED
    BY <2>1, <2>2, Zenon
<1>3. r3.ok = FALSE
  <2>1. CASE race = "invalid"
    <3>1. r1.ok = FALSE
      BY <1>2, <2>1, Zenon
    <3>2. r2 = r1
      BY <3>1, StepFailed DEF r2
    <3>3. r3 = r1
      BY <3>1, <3>2, StepFailed DEF r3
    <3>. QED
      BY <3>1, <3>3
  <2>2. CASE race # "invalid"
    <3>1. r1.ok = TRUE
      BY <1>2, <2>2, Zenon
    <3>2. r2 = r1
      <4>1. r2 = RunStep(r1, WriteSha(f), race)
        BY <1>1 DEF RunCommand, r2
      <4>2. RunStep(r1, WriteSha(f), race) = r1
        BY <3>1, StepWriteSha
      <4>. QED
        BY <4>1, <4>2
    <3>3. r3 = RunStep(r2, CheckSha(f), race)
      BY <1>1 DEF RunCommand, r3
    <3>4. RunStep(r1, CheckSha(f), race) =
            [ok |-> r1.file \in {"text", "raw"} /\ f = r1.src,
             file |-> r1.file, src |-> r1.src, placed |-> r1.placed]
      BY <3>1, StepCheckSha
    <3>5. r1.file = "cut"
      BY <1>2
    <3>6. r3 = [ok |-> r1.file \in {"text", "raw"} /\ f = r1.src,
                file |-> r1.file, src |-> r1.src, placed |-> r1.placed]
      BY <3>2, <3>3, <3>4
    <3>7. r3.ok = (r1.file \in {"text", "raw"} /\ f = r1.src)
      BY <3>6
    <3>. QED
      BY <3>5, <3>7, Zenon
  <2>. QED
    BY <2>1, <2>2
<1>4. RunFive(sc, r0, race) = r3
  <2>1. RunCommand(sc, r3, 4, race) = r3
    BY <1>3, StepFailed
  <2>2. RunCommand(sc, r3, 5, race) = r3
    BY <1>3, StepFailed
  <2>. QED
    BY <2>1, <2>2 DEF RunFive, r1, r2, r3
<1>. QED
  BY <1>3, <1>4 DEF sc

\* A sha256 checksum of a spec is the digest of the file its payload came
\* from, and a base64 payload always has one: uploadFunction computes both
\* from the same file, and an update without --from-file inherits both.
ChecksumOK(s) ==
    /\ s.checksum.alg = "sha256" => s.checksum.of = s.function.of
    /\ s.function.enc = "base64" => s.checksum.alg = "sha256"

\* The command that places the source: unzip a zip file, copy any other.
PlaceCmd(n, h, rt) ==
    IF IsZip(n) THEN [op |-> "unzip", arg |-> EmptyName]
    ELSE [op |-> "cp", arg |-> getFileName(EmptyName, h, rt).name]

\* A prepare container that getProvisionContainer accepts for a spec with a
\* payload is the Script of the spec's encoding, checksum and runtime.
LEMMA ProvisionScript ==
    ASSUME NEW s \in FunctionSpecs, s.function # NoPayload, ChecksumOK(s), NEW n,
           getProvisionContainer(s.checksum, n, s.handler, s.contentType, s.runtime).err = "none"
    PROVE  /\ s.contentType \in {"text", "base64"}
           /\ getProvisionContainer(s.checksum, n, s.handler, s.contentType, s.runtime).steps =
                Script(s.contentType, s.checksum # NoChecksum, s.function.of,
                       PlaceCmd(n, s.handler, s.runtime), s.runtime \in DepRuntimes)
<1>. DEFINE pc == getProvisionContainer(s.checksum, n, s.handler, s.contentType, s.runtime)
            f == s.function.of
<1>1. s.contentType = s.function.enc /\ s.function.enc \in {"text", "base64", "URL"}
  BY DEF FunctionSpecs, Payloads
<1>2. s.contentType \in {"base64", "text", ""}
  BY DEF getProvisionContainer, Result
<1>3. s.checksum # NoChecksum => s.checksum.alg = "sha256"
  BY DEF getProvisionContainer, Result
<1>4. s.checksum # NoChecksum => s.checksum.of = f
  BY <1>3 DEF ChecksumOK
<1>5. (IF s.checksum # NoChecksum
       THEN <<[op |-> "writeSha", arg |-> s.checksum.of], [op |-> "checkSha", arg |-> s.checksum.of]>>
       ELSE <<>>)
      = (IF s.checksum # NoChecksum THEN <<WriteSha(f), CheckSha(f)>> ELSE <<>>)
  BY <1>4 DEF WriteSha, CheckSha
<1>6. (IF s.contentType = "base64" THEN <<[op |-> "decode", arg |-> EmptyName]>> ELSE <<>>)
      = (IF s.contentType = "base64" THEN <<Decode>> ELSE <<>>)
  BY DEF Decode
<1>7. (IF IsZip(n) THEN <<[op |-> "unzip", arg |-> EmptyName]>>
       ELSE <<[op |-> "cp", arg |-> getFileName(EmptyName, s.handler, s.runtime).name]>>)
      = <<PlaceCmd(n, s.handler, s.runtime)>>
  BY DEF PlaceCmd
<1>8. (IF s.runtime \in DepRuntimes THEN <<[op |-> "cpDeps", arg |-> EmptyName]>> ELSE <<>>)
      = (IF s.runtime \in DepRuntimes THEN <<CpDeps>> ELSE <<>>)
  BY DEF CpDeps
<1>9. pc.steps =
        appendToCommand(appendToCommand(appendToCommand(appendToCommand(<<>>,
           IF s.contentType = "base64" THEN <<[op |-> "decode", arg |-> EmptyName]>> ELSE <<>>),
           IF s.checksum # NoChecksum
           THEN <<[op |-> "writeSha", arg |-> s.checksum.of], [op |-> "checkSha", arg |-> s.checksum.of]>>
           ELSE <<>>),
           IF IsZip(n) THEN <<[op |-> "unzip", arg |-> EmptyName]>>
           ELSE <<[op |-> "cp", arg |-> getFileName(EmptyName, s.handler, s.runtime).name]>>),
           IF s.runtime \in DepRuntimes THEN <<[op |-> "cpDeps", arg |-> EmptyName]>> ELSE <<>>)
  BY DEF getProvisionContainer, Result, Steps
<1>. QED
  BY <1>1, <1>2, <1>5, <1>6, <1>7, <1>8, <1>9 DEF Script, appendToCommand

\* A stored spec names a handler and its sha256 checksum is of its payload.
ProvisionOK(s) == s.handler # "" /\ ChecksumOK(s)

\* The derivation accepts a spec with a payload only with a prepare script
\* that never succeeds without placing the decoded source, and succeeds
\* when the decode pipeline reads the whole file.
LEMMA PrepareResult ==
    ASSUME NEW s \in FunctionSpecs, ProvisionOK(s), s.function # NoPayload,
           Derive(s).err = "none"
    PROVE  \A race \in PipeRaces :
             /\ RunPrepare(s, race).ok => RunPrepare(s, race).placed = "source"
             /\ race = "whole" => RunPrepare(s, race).ok
<1>. DEFINE fnm == getFileName(s.file, s.handler, s.runtime)
            cm  == EnsureFuncConfigMap(s)
            ed  == EnsureFuncDeployment(s)
            pc  == getProvisionContainer(s.checksum, fnm.name, s.handler,
                                         s.contentType, s.runtime)
            src0   == s.function.of
            ct == s.contentType
            hasSha == s.checksum # NoChecksum
            pl == PlaceCmd(fnm.name, s.handler, s.runtime)
            hasDep == s.runtime \in DepRuntimes
            scr  == Script(ct, hasSha, src0, pl, hasDep)
<1>1. cm.err = "none"
  BY DEF Derive, DeployFailed
<1>2. cm.source = TRUE
  BY <1>1 DEF EnsureFuncConfigMap, ProvisionOK
<1>3. ed.err = "none" /\ Derive(s).prepare = ed.prepare /\ Derive(s).source = TRUE
  BY <1>1, <1>2 DEF Derive
<1>4. pc.err = "none" /\ ed.prepare = pc.steps
  BY <1>3 DEF EnsureFuncDeployment, DeployFailed
<1>5. ct \in {"text", "base64"} /\ pc.steps = scr
  BY <1>4, ProvisionScript DEF ProvisionOK
<1>6. pl.op \in {"unzip", "cp"}
  BY DEF PlaceCmd
<1>7. PrepareInit(s) = [ok |-> TRUE, file |-> ct, src |-> src0, placed |-> "nothing"]
  BY <1>3 DEF PrepareInit, FunctionSpecs
<1>8. Derive(s).prepare = scr
  BY <1>3, <1>4, <1>5
<1>9. hasSha \in BOOLEAN /\ hasDep \in BOOLEAN
  OBVIOUS
<1>. HIDE DEF scr, src0, ct, pl, hasSha, hasDep, fnm, cm, ed, pc
<1>10. scr \in Seq({Decode, WriteSha(src0), CheckSha(src0), pl, CpDeps})
       /\ ScriptShape(scr, src0, ct, pl)
  BY <1>5, <1>6, <1>9, ScriptShapeOK DEF scr
<1>11. Good(scr, src0, ct, pl, 0, PrepareInit(s))
  BY <1>7 DEF Good
<1>12. ASSUME NEW race \in PipeRaces
       PROVE  /\ RunPrepare(s, race).ok => RunPrepare(s, race).placed = "source"
              /\ race = "whole" => RunPrepare(s, race).ok
  <2>1. RunPrepare(s, race) = RunFive(scr, PrepareInit(s), race)
    BY <1>8 DEF RunPrepare, RunFive
  <2>2. CASE ct = "text" \/ race = "whole"
    <3>1. ct = "base64" => race = "whole"
      BY <2>2
    <3>2. RunFive(scr, PrepareInit(s), race).ok
          /\ RunFive(scr, PrepareInit(s), race).placed = "source"
      BY <1>5, <1>6, <1>10, <1>11, <3>1, ScriptRuns
    <3>. QED
      BY <2>1, <3>2
  <2>3. CASE ct = "base64" /\ race # "whole"
    <3>1. s.checksum.alg = "sha256"
      BY <2>3 DEF ProvisionOK, ChecksumOK, ct, FunctionSpecs
    <3>2. hasSha
      <4>1. NoChecksum.alg = ""
        BY DEF NoChecksum
      <4>. QED
        BY <3>1, <4>1 DEF hasSha
    <3>3. scr = Script("base64", TRUE, src0, pl, hasDep)
      BY <2>3, <3>2 DEF scr
    <3>4. PrepareInit(s).ok = TRUE /\ PrepareInit(s).file = "base64"
          /\ PrepareInit(s).src = src0
      BY <1>7, <2>3
    <3>5. ~RunFive(Script("base64", TRUE, src0, pl, hasDep), PrepareInit(s), race).ok
      <4>1. pl.op = "unzip" \/ pl.op = "cp"
        BY <1>6
      <4>. QED
        BY <2>3, <4>1, <3>4, CutCaught
    <3>6. ~RunPrepare(s, race).ok
      BY <2>1, <3>3, <3>5, Zenon
    <3>. QED
      BY <2>3, <3>6, Zenon
  <2>. QED
    BY <1>5, <2>2, <2>3
<1>. QED
  BY <1>12

-----------------------------------------------------------------------------
(* The prepare script provisions every accepted Function.                  *)

\* A file that uploadFunction accepts gets the sha256 checksum of itself.
LEMMA UploadChecksum ==
    ASSUME NEW f \in LocalFiles, NEW st \in StorageStates,
           uploadFunction(f, st).err = "none"
    PROVE  ChecksumOK(uploadFunction(f, st))
<1>1. PICK ct \in {"text", "base64", "URL"} : uploadFunction(f, st) = Provisioned(f, ct)
  BY DEF uploadFunction, ProvisionFailed
<1>. QED
  BY <1>1 DEF ChecksumOK, Provisioned

\* A description that succeeds keeps a default's checksum together with its
\* payload, and takes the handler from the flag or else from the default.
DescriptionKeeps(d, h, dflt) ==
    d.err = "none" =>
        ChecksumOK(d.fn) /\ d.fn.handler = IF h = "" THEN dflt.handler ELSE h

LEMMA DescriptionProvision ==
    ASSUME NEW dflt, ChecksumOK(dflt),
           NEW h, NEW file \in LocalFiles \cup {EmptyName},
           NEW deps, NEW r, NEW topic, NEW schedule, NEW image, NEW mem, NEW http,
           NEW st \in StorageStates
    PROVE  DescriptionKeeps(getFunctionDescription(h, file, deps, r, topic, schedule,
                                                   image, mem, http, dflt, st), h, dflt)
<1>. SUFFICES ASSUME getFunctionDescription(h, file, deps, r, topic, schedule,
                                            image, mem, http, dflt, st).err = "none"
              PROVE  LET fn == getFunctionDescription(h, file, deps, r, topic, schedule,
                                                      image, mem, http, dflt, st).fn
                     IN  ChecksumOK(fn) /\ fn.handler = IF h = "" THEN dflt.handler ELSE h
  BY DEF DescriptionKeeps
<1>. DEFINE c == DescribeContent(file, dflt, st)
<1>1. c.err = "none"
  BY DEF getFunctionDescription
<1>2. ChecksumOK(c)
  <2>1. CASE file = EmptyName
    BY <2>1 DEF DescribeContent, ChecksumOK
  <2>2. CASE file \in LocalFiles
    <3>1. file # EmptyName
      BY <2>2, FilesAssumption
    <3>2. uploadFunction(file, st).err = "none"
      BY <1>1, <3>1 DEF DescribeContent
    <3>3. ChecksumOK(uploadFunction(file, st))
      BY <2>2, <3>2, UploadChecksum
    <3>. QED
      BY <3>1, <3>3 DEF DescribeContent, ChecksumOK
  <2>. QED
    BY <2>1, <2>2
<1>. QED
  BY <1>1, <1>2 DEF getFunctionDescription, ChecksumOK

\* The stored Function names a handler and carries a checksum of its payload.
PInv == present => ProvisionOK(fspec)

LEMMA InitPInv == Init => PInv
<1>. SUFFICES ASSUME Init PROVE PInv
  OBVIOUS
<1>1. CASE present = FALSE
  BY <1>1 DEF PInv
<1>2. CASE present = TRUE /\ fspec \in LegacyFunctions
  <2>1. PICK h \in ValidHandlers, r \in Runtimes,
             f \in {g \in LocalFiles : FileText[g] /\ FileSize[g] <= InlineLimit},
             c \in {NoChecksum} \cup [alg : {"md5"}, of : LocalFiles] :
          fspec = LegacyFunction(h, r, f, c)
    BY <1>2, LegacyFunctionsForm
  <2>2. h # ""
    BY HandlerAssumption
  <2>3. c.alg # "sha256"
    <3>1. c = NoChecksum \/ c.alg = "md5"
      BY <2>1
    <3>2. NoChecksum.alg = ""
      BY DEF NoChecksum
    <3>. QED
      BY <3>1, <3>2
  <2>. QED
    BY <2>1, <2>2, <2>3 DEF PInv, ProvisionOK, ChecksumOK, LegacyFunction
<1>. QED
  BY <1>1, <1>2 DEF Init

LEMMA PInvStep == PInv /\ [Next]_vars => PInv'
<1>. SUFFICES ASSUME PInv, [Next]_vars PROVE PInv'
  OBVIOUS
<1>1. CASE DeployFunction
  <2>1. PICK h \in Handlers, file \in LocalFiles, deps \in BOOLEAN,
             r \in Runtimes \cup {""}, topic, schedule, image, http \in BOOLEAN,
             mem \in {"", "bad"}, st \in StorageStates :
          LET d == getFunctionDescription(h, file, deps, r, topic, schedule,
                                          image, mem, http, EmptyFunction, st)
          IN  /\ d.err = "none"
              /\ present' = TRUE
              /\ fspec' = d.fn
    BY <1>1 DEF DeployFunction
  <2>2. ChecksumOK(EmptyFunction) /\ h # ""
    BY HandlerAssumption DEF EmptyFunction, NoChecksum, NoPayload, ChecksumOK
  <2>3. \A dp, tp, sc, im, ht :
          DescriptionKeeps(getFunctionDescription(h, file, dp, r, tp, sc, im, mem, ht,
                                                  EmptyFunction, st), h, EmptyFunction)
    BY <2>2, DescriptionProvision
  <2>. DEFINE d == getFunctionDescription(h, file, deps, r, topic, schedule,
                                          image, mem, http, EmptyFunction, st)
  <2>4. DescriptionKeeps(d, h, EmptyFunction)
    BY <2>3, Zenon
  <2>5. d.err = "none" /\ present' = TRUE /\ fspec' = d.fn
    BY <2>1
  <2>. QED
    BY <2>2, <2>4, <2>5 DEF DescriptionKeeps, PInv, ProvisionOK
<1>2. ASSUME NEW file \in LocalFiles \cup {EmptyName}, UpdateFunction(file)
      PROVE  PInv'
  <2>1. ProvisionOK(fspec) /\ present' = present
    BY <1>2 DEF UpdateFunction, PInv
  <2>2. PICK h \in Handlers \cup {""}, r \in Runtimes \cup {""},
             topic \in BOOLEAN, schedule \in BOOLEAN, image \in BOOLEAN,
             http \in BOOLEAN, mem \in {"", "bad"}, st \in StorageStates :
          LET d == getFunctionDescription(h, file, FALSE, r, topic, schedule,
                                          image, mem, http, fspec, st)
          IN  d.err = "none" /\ fspec' = d.fn
    BY <1>2, Zenon DEF UpdateFunction
  <2>3. \A tp, sc, im, ht :
          DescriptionKeeps(getFunctionDescription(h, file, FALSE, r, tp, sc, im, mem, ht,
                                                  fspec, st), h, fspec)
    BY <2>1, DescriptionProvision DEF ProvisionOK
  <2>. DEFINE d == getFunctionDescription(h, file, FALSE, r, topic, schedule,
                                          image, mem, http, fspec, st)
  <2>4. DescriptionKeeps(d, h, fspec)
    BY <2>3, Zenon
  <2>5. d.err = "none" /\ fspec' = d.fn
    BY <2>2
  <2>6. (IF h = "" THEN fspec.handler ELSE h) # ""
    BY <2>1 DEF ProvisionOK
  <2>7. ProvisionOK(d.fn)
    BY <2>4, <2>5, <2>6 DEF DescriptionKeeps, ProvisionOK
  <2>. QED
    BY <2>5, <2>7 DEF PInv
<1>3. CASE DeleteFunction
  BY <1>3 DEF DeleteFunction, PInv
<1>4. CASE UNCHANGED vars
  BY <1>4 DEF vars, PInv, ProvisionOK, ChecksumOK
<1>. QED
  BY <1>1, <1>2, <1>3, <1>4 DEF Next

\* Every stored Function names a handler, and its sha256 checksum is the
\* digest of the file its payload came from: the upload computes both from
\* one file and an update without a file inherits both.
THEOREM ProvisionInvariant == Spec => []PInv
BY InitPInv, PInvStep, PTL DEF Spec

\* Whenever the workload derivation accepts the stored Function with a
\* payload, its prepare init container (decode, sha256 check, unzip or
\* copy, dependency copy) never succeeds without placing the decoded source,
\* however the decode pipeline's race turns out, and succeeds when that race
\* leaves the file whole, after any sequence of deploys and updates.
THEOREM PrepareProvisionsSourceThm == Spec => []PrepareProvisionsSource
<1>1. IInv /\ PInv => PrepareProvisionsSource
  <2>. SUFFICES ASSUME IInv, PInv, present, fspec.function # NoPayload,
                       Derive(fspec).err = "none", NEW race \in PipeRaces
                PROVE  /\ RunPrepare(fspec, race).ok => RunPrepare(fspec, race).placed = "source"
                       /\ race = "whole" => RunPrepare(fspec, race).ok
    BY DEF PrepareProvisionsSource
  <2>. QED
    BY PrepareResult DEF IInv, TypeOK, PInv
<1>. QED
  BY <1>1, IInvariant, ProvisionInvariant, PTL

=============================================================================
