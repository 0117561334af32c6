------------------------ MODULE FunctionResources_proofs ------------------------
(***************************************************************************)
(* Proofs about FunctionResources for every bound: type correctness and    *)
(* EnsuredMeansApplied, that an Ensure call returning nil has written its  *)
(* object from the version of the Function it was given.                   *)
(***************************************************************************)
EXTENDS FunctionResources, FiniteSetTheorems, TLAPS

\* Every pod was numbered by StartPod below the counter.
PodIdsBelow == \A p \in pods : p.id < nextId

\* While the pod loop runs, the Deployment holds the version the loop will
\* report: no other Ensure call runs, and the loop started after writing it.
KickConsistent == kick.active => dep.ver = kick.ver

TypeInv == TypeOK /\ PodIdsBelow

IInv == TypeInv /\ KickConsistent /\ EnsuredMeansApplied

-----------------------------------------------------------------------------
(* Lemmas about the operators.                                             *)

\* The calls of an Ensure step form a finite set.
LEMMA CallsFinite ==
    ASSUME NEW a, NEW b, NEW c
    PROVE  IsFiniteSet({a}) /\ IsFiniteSet({a, b}) /\ IsFiniteSet({a, b, c})
<1>1. IsFiniteSet({a})
  BY FS_Singleton
<1>2. IsFiniteSet({a} \cup {b}) /\ {a} \cup {b} = {a, b}
  BY <1>1, FS_AddElement
<1>3. IsFiniteSet({a, b} \cup {c}) /\ {a, b} \cup {c} = {a, b, c}
  BY <1>2, FS_AddElement
<1>. QED
  BY <1>1, <1>2, <1>3

\* A step that fails the calls fl stays within the failure budget.
LEMMA SpentBudget ==
    ASSUME failures \in 0..MaxFailures, NEW calls, IsFiniteSet(calls),
           NEW fl \in Faults(calls), Spent(fl)
    PROVE  failures' \in 0..MaxFailures
<1>1. Cardinality(fl) \in Nat
  BY FS_Subset, FS_CardinalityType DEF Faults
<1>. QED
  BY <1>1, BoundsAssumption DEF Faults, Spent

\* The create-or-update of the ConfigMap returns nil only after writing
\* the version it was given.
LEMMA ConfigMapResult ==
    ASSUME cm \in 0..MaxVersions, NEW v \in Version, NEW fl
    PROVE  LET r == EnsureFuncConfigMapResult(v, fl)
           IN  /\ r.obj \in 0..MaxVersions /\ r.err \in {"none", "APIError"}
               /\ r.err = "none" => r.obj = v
BY DEF EnsureFuncConfigMapResult, Version

LEMMA ServiceResult ==
    ASSUME svc \in 0..MaxVersions, NEW v \in Version, NEW fl
    PROVE  LET r == EnsureFuncServiceResult(v, fl)
           IN  /\ r.obj \in 0..MaxVersions /\ r.err \in {"none", "APIError"}
               /\ r.err = "none" => r.obj = v
BY DEF EnsureFuncServiceResult, Version

LEMMA CronJobResult ==
    ASSUME cj \in 0..MaxVersions, NEW v \in Version, NEW fl
    PROVE  LET r == EnsureFuncCronJobResult(v, fl)
           IN  /\ r.obj \in 0..MaxVersions /\ r.err \in {"none", "APIError"}
               /\ r.err = "none" => r.obj = v
BY DEF EnsureFuncCronJobResult, Version

-----------------------------------------------------------------------------
(* The inductive invariant.                                                *)

LEMMA InitIInv == Init => IInv
BY BoundsAssumption
DEF Init, IInv, TypeInv, TypeOK, PodIdsBelow, KickConsistent,
    EnsuredMeansApplied, Applied, Version, Errors, Ops

\* The shapes of the variables that a step leaves alone.
LEMMA IInvStep ==
    ASSUME IInv, [Next]_vars
    PROVE  IInv'
<1>. USE DEF IInv, TypeInv, TypeOK, PodIdsBelow, KickConsistent
<1>1. CASE UpdateFunction
  BY <1>1, BoundsAssumption
  DEF UpdateFunction, Version, EnsuredMeansApplied, Applied
<1>2. CASE EnsureFuncConfigMap
  <2>1. PICK fl \in Faults({"create", "update"}) :
          LET r == EnsureFuncConfigMapResult(spec.ver, fl)
          IN  /\ Idle /\ Spent(fl) /\ cm' = r.obj
              /\ Return("configmap", spec.ver, r.err)
              /\ UNCHANGED <<spec, svc, dep, cj, pods, nextId, kick>>
    BY <1>2 DEF EnsureFuncConfigMap
  <2>2. failures' \in 0..MaxFailures
    BY <2>1, CallsFinite, SpentBudget
  <2>. QED
    BY <2>1, <2>2, ConfigMapResult
    DEF Idle, Return, EnsuredMeansApplied, Applied, Ops, Errors
<1>3. CASE EnsureFuncService
  <2>1. PICK fl \in Faults({"get", "create", "update"}) :
          LET r == EnsureFuncServiceResult(spec.ver, fl)
          IN  /\ Idle /\ Spent(fl) /\ svc' = r.obj
              /\ Return("service", spec.ver, r.err)
              /\ UNCHANGED <<spec, cm, dep, cj, pods, nextId, kick>>
    BY <1>3 DEF EnsureFuncService
  <2>2. failures' \in 0..MaxFailures
    BY <2>1, CallsFinite, SpentBudget
  <2>. QED
    BY <2>1, <2>2, ServiceResult
    DEF Idle, Return, EnsuredMeansApplied, Applied, Ops, Errors
<1>4. CASE EnsureFuncCronJob
  <2>1. PICK fl \in Faults({"create", "patch"}) :
          LET r == EnsureFuncCronJobResult(spec.ver, fl)
          IN  /\ Idle /\ Spent(fl) /\ cj' = r.obj
              /\ Return("cronjob", spec.ver, r.err)
              /\ UNCHANGED <<spec, cm, svc, dep, pods, nextId, kick>>
    BY <1>4 DEF EnsureFuncCronJob
  <2>2. failures' \in 0..MaxFailures
    BY <2>1, CallsFinite, SpentBudget
  <2>. QED
    BY <2>1, <2>2, CronJobResult
    DEF Idle, Return, EnsuredMeansApplied, Applied, Ops, Errors
<1>5. CASE EnsureFuncDeployment
  <2>1. PICK fl \in Faults({"create", "update", "list"}) :
          /\ Idle /\ Spent(fl)
          /\ UNCHANGED <<spec, cm, svc, cj, pods, nextId>>
          /\ \/ /\ dep.ver = 0
                /\ dep' = IF "create" \in fl THEN dep ELSE spec
                /\ Return("deployment", spec.ver, IF "create" \in fl THEN "APIError" ELSE "none")
                /\ UNCHANGED kick
             \/ /\ dep.ver # 0 /\ "create" \in fl
                /\ Return("deployment", spec.ver, "APIError")
                /\ UNCHANGED <<dep, kick>>
             \/ /\ dep.ver # 0 /\ "create" \notin fl
                /\ dep' = IF "update" \in fl THEN dep ELSE spec
                /\ IF "update" \in fl \/ "list" \in fl \/ pods = {}
                   THEN /\ Return("deployment", spec.ver,
                                  IF fl = {} THEN "none" ELSE "APIError")
                        /\ UNCHANGED kick
                   ELSE /\ kick' = [active |-> TRUE, todo |-> {p.id : p \in pods},
                                    err |-> "none", ver |-> spec.ver]
                        /\ UNCHANGED last
    BY <1>5 DEF EnsureFuncDeployment
  <2>2. failures' \in 0..MaxFailures
    BY <2>1, CallsFinite, SpentBudget
  <2>3. {p.id : p \in pods} \in SUBSET (0..MaxPods)
    <3>1. \A p \in pods : p.id \in 0..MaxPods
      BY BoundsAssumption DEF Pod
    <3>. QED
      BY <3>1
  <2>. DEFINE Ret(e) == Return("deployment", spec.ver, e)
  <2>4. CASE dep.ver = 0
    BY <2>1, <2>2, <2>4
    DEF Idle, Return, EnsuredMeansApplied, Applied, Ops, Errors, Version
  <2>5. CASE dep.ver # 0 /\ "create" \in fl
    BY <2>1, <2>2, <2>5
    DEF Idle, Return, EnsuredMeansApplied, Applied, Ops, Errors, Version
  <2>6. CASE dep.ver # 0 /\ "create" \notin fl
             /\ ("update" \in fl \/ "list" \in fl \/ pods = {})
    <3>1. /\ dep' = IF "update" \in fl THEN dep ELSE spec
          /\ Ret(IF fl = {} THEN "none" ELSE "APIError") /\ UNCHANGED kick
      BY <2>1, <2>6
    <3>2. fl = {} => dep' = spec
      BY <3>1
    <3>. QED
      BY <2>1, <2>2, <2>6, <3>1, <3>2
      DEF Idle, Return, EnsuredMeansApplied, Applied, Ops, Errors, Version
  <2>7. CASE dep.ver # 0 /\ "create" \notin fl
             /\ ~("update" \in fl \/ "list" \in fl \/ pods = {})
    <3>1. /\ dep' = spec
          /\ kick' = [active |-> TRUE, todo |-> {p.id : p \in pods},
                      err |-> "none", ver |-> spec.ver]
          /\ UNCHANGED last
      BY <2>1, <2>7
    <3>. QED
      BY <2>1, <2>2, <2>3, <3>1
      DEF Idle, EnsuredMeansApplied, Applied, Errors, Version
  <2>. QED
    BY <2>4, <2>5, <2>6, <2>7
<1>6. CASE KickPod
  <2>1. PICK id \in kick.todo, fl \in Faults({"delete"}) :
          LET live == {p \in pods : p.id = id}
              err  == IF live = {} THEN "NotFound"
                      ELSE IF fl # {} THEN "PodDeleteError" ELSE "none"
              todo == kick.todo \ {id}
          IN  /\ kick.active /\ Spent(fl)
              /\ pods' = IF err = "none" THEN pods \ live ELSE pods
              /\ kick' = [active |-> todo # {}, todo |-> todo, err |-> err, ver |-> kick.ver]
              /\ IF todo = {} THEN Return("deployment", kick.ver, err) ELSE UNCHANGED last
              /\ UNCHANGED <<spec, cm, svc, dep, cj, nextId>>
    BY <1>6 DEF KickPod
  <2>2. failures' \in 0..MaxFailures
    BY <2>1, CallsFinite, SpentBudget
  <2>. QED
    BY <2>1, <2>2 DEF Return, EnsuredMeansApplied, Applied, Ops, Errors
<1>7. CASE StartPod
  BY <1>7, BoundsAssumption
  DEF StartPod, Pod, Version, EnsuredMeansApplied, Applied
<1>8. CASE RolloutRemove
  BY <1>8 DEF RolloutRemove, EnsuredMeansApplied, Applied
<1>9. CASE UNCHANGED vars
  BY <1>9 DEF vars, EnsuredMeansApplied, Applied
<1>. QED
  BY <1>1, <1>2, <1>3, <1>4, <1>5, <1>6, <1>7, <1>8, <1>9 DEF Next

\* The inductive invariant holds in every reachable state.
THEOREM IInvariant == Spec => []IInv
BY InitIInv, IInvStep, PTL DEF Spec

\* Every reachable state of the apply layer is well typed; in particular no
\* Ensure call ever returns the AlreadyExists of its Create.
THEOREM TypeCorrect == Spec => []TypeOK
BY IInvariant, PTL DEF IInv, TypeInv

\* Whichever Ensure call returned last, and whatever calls failed before,
\* a nil result means that its object was written from the version of the
\* Function it was given: the create-or-update fallback of EnsureFuncConfigMap,
\* EnsureFuncService, EnsureFuncCronJob and EnsureFuncDeployment, and the
\* Deployment's version across the pod loop.
THEOREM EnsuredMeansAppliedThm == Spec => []EnsuredMeansApplied
BY IInvariant, PTL DEF IInv
=============================================================================
