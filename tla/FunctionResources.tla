--------------------------- MODULE FunctionResources ---------------------------
(***************************************************************************)
(* The apply layer of the workload derivation (src/pkg/utils/k8sutil.go):  *)
(* the create-or-update of a Function's ConfigMap, Service, Deployment and *)
(* CronJob (EnsureFuncConfigMap, EnsureFuncService, EnsureFuncDeployment,  *)
(* EnsureFuncCronJob), including the pod kick that follows a Deployment    *)
(* update, against the cluster's ReplicaSet and rollout machinery.         *)
(*                                                                         *)
(* The Function's spec is a version number and the version of the pod     *)
(* template it derives (an update of the source alone may leave the        *)
(* template as it was).  A derived object holds the version it was last    *)
(* written from, 0 for none.  A pod copies the ConfigMap's content when it *)
(* starts (the prepare init container), so it records that version and    *)
(* the template it was created from.  Pod deletions race the rollout,      *)
(* which removes pods of an old template on its own.  Every API call may   *)
(* fail (an error other than NotFound or AlreadyExists) while the          *)
(* MaxFailures budget lasts.                                               *)
(***************************************************************************)
EXTENDS Naturals, FiniteSets

CONSTANTS
    MaxVersions,  \* bound on Function updates
    Replicas,     \* replicas of the Deployment
    MaxPods,      \* bound on pods created in a behaviour
    MaxFailures   \* bound on failing API calls

ASSUME BoundsAssumption ==
    /\ MaxVersions \in Nat \ {0} /\ Replicas \in Nat \ {0}
    /\ MaxPods \in Nat /\ MaxFailures \in Nat

VARIABLES
    spec,      \* the Function: [ver, tmpl]
    cm,        \* version the ConfigMap was written from (0: none)
    svc,       \* version the Service was written from (0: none)
    dep,       \* the Deployment: [ver, tmpl], ver = 0 for none
    cj,        \* version the CronJob was written from (0: none)
    pods,      \* running pods: [id, src, tmpl]
    nextId,    \* pods created so far
    kick,      \* EnsureFuncDeployment's pod loop: [active, todo, err, ver]
    last,      \* the last Ensure call to return: [op, ver, err]
    failures   \* API calls that have failed so far

vars == <<spec, cm, svc, dep, cj, pods, nextId, kick, last, failures>>

Version == 1..MaxVersions
Pod == [id : Nat, src : Version, tmpl : Version]
Ops == {"none", "configmap", "service", "deployment", "cronjob"}
Errors == {"none", "APIError", "NotFound", "PodDeleteError"}

\* The calls of one Ensure step that fail, within the failure budget.
Faults(calls) == {fl \in SUBSET calls : failures + Cardinality(fl) <= MaxFailures}

Spent(fl) == failures' = failures + Cardinality(fl)

\* No other Ensure call of this Function runs while the pod loop does: the
\* controller processes one key at a time.
Idle == ~kick.active

Return(op, v, err) == last' = [op |-> op, ver |-> v, err |-> err]

-----------------------------------------------------------------------------
(* Create-or-update results: the error and the object's new version.       *)

\* (mutant) the update fallback is missing: AlreadyExists is returned
EnsureFuncConfigMapNoUpdate(v, fl) ==
    IF "create" \in fl THEN [err |-> "APIError", obj |-> cm]
    ELSE IF cm = 0 THEN [err |-> "none", obj |-> v]
    ELSE [err |-> "AlreadyExists", obj |-> cm]

\* (mutant) AlreadyExists on create is taken for success without an update
EnsureFuncConfigMapCreateOnly(v, fl) ==
    IF "create" \in fl THEN [err |-> "APIError", obj |-> cm]
    ELSE IF cm = 0 THEN [err |-> "none", obj |-> v]
    ELSE [err |-> "none", obj |-> cm]

\* EnsureFuncConfigMap: Create; on AlreadyExists, Update (whose own
\* AlreadyExists check never fires: Update does not return it).
EnsureFuncConfigMapResult(v, fl) ==
    IF "create" \in fl THEN [err |-> "APIError", obj |-> cm]
    ELSE IF cm = 0 THEN [err |-> "none", obj |-> v]
    ELSE IF "update" \in fl THEN [err |-> "APIError", obj |-> cm]
    ELSE [err |-> "none", obj |-> v]

\* EnsureFuncService: Get; Create on NotFound; Update of the fields it owns
\* when found; any other Get error is returned.
EnsureFuncServiceResult(v, fl) ==
    IF "get" \in fl THEN [err |-> "APIError", obj |-> svc]
    ELSE IF svc = 0
    THEN IF "create" \in fl THEN [err |-> "APIError", obj |-> 0]
         ELSE [err |-> "none", obj |-> v]
    ELSE IF "update" \in fl THEN [err |-> "APIError", obj |-> svc]
    ELSE [err |-> "none", obj |-> v]

\* EnsureFuncCronJob: Create; on AlreadyExists, a strategic merge Patch.
EnsureFuncCronJobResult(v, fl) ==
    IF "create" \in fl THEN [err |-> "APIError", obj |-> cj]
    ELSE IF cj = 0 THEN [err |-> "none", obj |-> v]
    ELSE IF "patch" \in fl THEN [err |-> "APIError", obj |-> cj]
    ELSE [err |-> "none", obj |-> v]

-----------------------------------------------------------------------------
(* Actions.                                                                *)

Init ==
    /\ spec = [ver |-> 1, tmpl |-> 1]
    /\ cm = 0 /\ svc = 0 /\ cj = 0
    /\ dep = [ver |-> 0, tmpl |-> 1]
    /\ pods = {} /\ nextId = 0
    /\ kick = [active |-> FALSE, todo |-> {}, err |-> "none", ver |-> 1]
    /\ last = [op |-> "none", ver |-> 1, err |-> "none"]
    /\ failures = 0

\* `kubeless function update`: a new version of the spec, with a new pod
\* template or the same one.
UpdateFunction ==
    /\ spec.ver < MaxVersions
    /\ \E t \in {spec.tmpl, spec.ver + 1} : spec' = [ver |-> spec.ver + 1, tmpl |-> t]
    /\ UNCHANGED <<cm, svc, dep, cj, pods, nextId, kick, last, failures>>

EnsureFuncConfigMap ==
    \E fl \in Faults({"create", "update"}) :
        LET r == EnsureFuncConfigMapResult(spec.ver, fl)
        IN  /\ Idle /\ Spent(fl)
            /\ cm' = r.obj
            /\ Return("configmap", spec.ver, r.err)
            /\ UNCHANGED <<spec, svc, dep, cj, pods, nextId, kick>>

EnsureFuncService ==
    \E fl \in Faults({"get", "create", "update"}) :
        LET r == EnsureFuncServiceResult(spec.ver, fl)
        IN  /\ Idle /\ Spent(fl)
            /\ svc' = r.obj
            /\ Return("service", spec.ver, r.err)
            /\ UNCHANGED <<spec, cm, dep, cj, pods, nextId, kick>>

EnsureFuncCronJob ==
    \E fl \in Faults({"create", "patch"}) :
        LET r == EnsureFuncCronJobResult(spec.ver, fl)
        IN  /\ Idle /\ Spent(fl)
            /\ cj' = r.obj
            /\ Return("cronjob", spec.ver, r.err)
            /\ UNCHANGED <<spec, cm, svc, dep, pods, nextId, kick>>

\* EnsureFuncDeployment up to the pod loop: Create; on AlreadyExists,
\* Update, then GetPodsByLabel(function=<name>).  A non-empty list starts
\* the loop; otherwise the call returns.
EnsureFuncDeployment ==
    \E fl \in Faults({"create", "update", "list"}) :
        /\ Idle /\ Spent(fl)
        /\ UNCHANGED <<spec, cm, svc, cj, pods, nextId>>
        /\ \/ /\ dep.ver = 0
              /\ dep' = IF "create" \in fl THEN dep ELSE spec
              /\ Return("deployment", spec.ver, IF "create" \in fl THEN "APIError" ELSE "none")
              /\ UNCHANGED kick
           \/ /\ dep.ver # 0 /\ "create" \in fl
              /\ Return("deployment", spec.ver, "APIError")
              /\ UNCHANGED <<dep, kick>>
           \/ /\ dep.ver # 0 /\ "create" \notin fl
              /\ dep' = IF "update" \in fl THEN dep ELSE spec
              /\ IF "update" \in fl \/ "list" \in fl \/ pods = {}
                 THEN /\ Return("deployment", spec.ver,
                                IF fl = {} THEN "none" ELSE "APIError")
                      /\ UNCHANGED kick
                 ELSE /\ kick' = [active |-> TRUE, todo |-> {p.id : p \in pods},
                                  err |-> "none", ver |-> spec.ver]
                      /\ UNCHANGED last

\* One iteration of the loop over the listed pods: Delete; a failure other
\* than NotFound is logged as non-fatal; either way err keeps the result,
\* and the last iteration's err is what EnsureFuncDeployment returns.
KickPod ==
    \E id \in kick.todo, fl \in Faults({"delete"}) :
        LET live == {p \in pods : p.id = id}
            err  == IF live = {} THEN "NotFound"
                    ELSE IF fl # {} THEN "PodDeleteError" ELSE "none"
            todo == kick.todo \ {id}
        IN  /\ kick.active /\ Spent(fl)
            /\ pods' = IF err = "none" THEN pods \ live ELSE pods
            /\ kick' = [active |-> todo # {}, todo |-> todo, err |-> err, ver |-> kick.ver]
            /\ IF todo = {} THEN Return("deployment", kick.ver, err) ELSE UNCHANGED last
            /\ UNCHANGED <<spec, cm, svc, dep, cj, nextId>>

\* The rolling-update bounds of an extensions/v1beta1 Deployment with the
\* defaults EnsureFuncDeployment leaves in place.
MaxSurge == 1
MaxUnavailable == 1

\* The ReplicaSet of the current template starts a pod when it has fewer
\* than Replicas and the surge allows; the pod copies the ConfigMap's
\* content as it starts.
StartPod ==
    /\ dep.ver # 0 /\ cm # 0 /\ nextId < MaxPods
    /\ Cardinality({p \in pods : p.tmpl = dep.tmpl}) < Replicas
    /\ Cardinality(pods) < Replicas + MaxSurge
    /\ pods' = pods \cup {[id |-> nextId, src |-> cm, tmpl |-> dep.tmpl]}
    /\ nextId' = nextId + 1
    /\ UNCHANGED <<spec, cm, svc, dep, cj, kick, last, failures>>

\* The rollout removes a pod of an older template while enough pods stay.
RolloutRemove ==
    \E p \in pods :
        /\ p.tmpl # dep.tmpl
        /\ Cardinality(pods) - 1 >= Replicas - MaxUnavailable
        /\ pods' = pods \ {p}
        /\ UNCHANGED <<spec, cm, svc, dep, cj, nextId, kick, last, failures>>

Next ==
    \/ UpdateFunction
    \/ EnsureFuncConfigMap \/ EnsureFuncService \/ EnsureFuncCronJob
    \/ EnsureFuncDeployment \/ KickPod
    \/ StartPod \/ RolloutRemove

Spec == Init /\ [][Next]_vars

-----------------------------------------------------------------------------
(* Properties.                                                             *)

\* Besides the shapes of the variables: an AlreadyExists error of a Create
\* is never returned, since every Ensure call turns it into an update.
TypeOK ==
    /\ spec \in [ver : Version, tmpl : Version]
    /\ {cm, svc, cj} \subseteq 0..MaxVersions
    /\ dep \in [ver : 0..MaxVersions, tmpl : Version]
    /\ pods \subseteq Pod /\ nextId \in 0..MaxPods
    /\ kick \in [active : BOOLEAN, todo : SUBSET (0..MaxPods), err : Errors, ver : Version]
    /\ last \in [op : Ops, ver : Version, err : Errors]
    /\ failures \in 0..MaxFailures

\* The version each Ensure call's object was last written from.
Applied(op) ==
    [configmap |-> cm, service |-> svc, deployment |-> dep.ver, cronjob |-> cj,
     none |-> last.ver][op]

\* An Ensure call that returns nil has left its object written from the
\* Function it was given, whether it had to create or to update it.
EnsuredMeansApplied ==
    (last.err = "none" /\ ~kick.active) => Applied(last.op) = last.ver

PodsRefreshed ==
    (last.op = "deployment" /\ last.err = "none" /\ ~kick.active) =>
        \A p \in pods : p.src = cm
=============================================================================
