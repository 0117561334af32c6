------------------------------ MODULE Autoscale ------------------------------
(***************************************************************************)
(* The autoscale and monitoring integration (src/pkg/utils/k8sutil.go):    *)
(* CreateAutoscale with its helper createServiceMonitor, DeleteAutoscale   *)
(* and DeleteServiceMonitor, called by the CLI for Functions that the CLI  *)
(* deploys and deletes (DeleteK8sCustomResource).                          *)
(*                                                                         *)
(* The cluster state is, per Function name, whether the Function exists,   *)
(* the metric of its HorizontalPodAutoscaler (or "none") and who made the  *)
(* ServiceMonitor of that name: "kubeless" (createServiceMonitor, label    *)
(* service-monitor=function), "other" (any other tool) or "none".  Every   *)
(* API call may fail with an error that is not NotFound or AlreadyExists   *)
(* (timeout, forbidden) while the MaxFailures budget lasts.  A target      *)
(* value is a model value that strconv.ParseInt and resource.ParseQuantity *)
(* accept or refuse.                                                       *)
(***************************************************************************)
EXTENDS Naturals, FiniteSets

CONSTANTS
    Functions,    \* Function names
    Values,       \* --value arguments
    Int32Values,  \* those strconv.ParseInt(value, 10, 32) accepts
    QtyValues,    \* those resource.ParseQuantity accepts
    Metrics,      \* --metric arguments, "cpu" and "qps" among them
    MaxFailures,  \* bound on failing API calls
    MaxOps        \* bound on commands (CLI and other tools)

ASSUME ConstAssumption ==
    /\ Functions # {}
    /\ Int32Values \subseteq Values /\ QtyValues \subseteq Values
    /\ {"cpu", "qps"} \subseteq Metrics
    /\ MaxFailures \in Nat /\ MaxOps \in Nat

VARIABLES
    fn,        \* fn[f]: the Function object f exists
    hpa,       \* hpa[f]: metric of the HorizontalPodAutoscaler f, or "none"
    sm,        \* sm[f]: maker of the ServiceMonitor f, or "none"
    last,      \* the last command: its name, Function, metric, value, error
    failures,  \* API calls that have failed so far
    ops        \* commands so far

vars == <<fn, hpa, sm, last, failures, ops>>

Errors == {"none", "ParseError", "UnsupportedMetric", "AlreadyExisted",
           "AlreadyExists", "Invalid", "APIError"}

\* The calls of one command that fail with an error other than NotFound and
\* AlreadyExists: a subset of its calls, within the failure budget.
Faults(calls) == {fl \in SUBSET calls : failures + Cardinality(fl) <= MaxFailures}

\* The record of a command; metric and value are "" for other commands.
Cmd(c, f, metric, v, err) == [cmd |-> c, f |-> f, metric |-> metric, value |-> v, err |-> err]

Counted(fl) == /\ ops < MaxOps /\ ops' = ops + 1
               /\ failures' = failures + Cardinality(fl)

-----------------------------------------------------------------------------
(* createServiceMonitor(funcName, ns): the smclient, Get, then Create only *)
(* on NotFound.  A Get error other than NotFound falls through to          *)
(* `return nil` without creating anything; a Get that finds the monitor    *)
(* fails with "service monitor has already existed".                       *)

createServiceMonitor(f, fl) ==
    IF "smclient" \in fl THEN [err |-> "APIError", sm |-> sm[f]]
    ELSE IF "smget" \in fl THEN [err |-> "none", sm |-> sm[f]]
    ELSE IF sm[f] # "none" THEN [err |-> "AlreadyExisted", sm |-> sm[f]]
    ELSE IF "smcreate" \in fl THEN [err |-> "APIError", sm |-> "none"]
    ELSE [err |-> "none", sm |-> "kubeless"]

\* The HPA Create call: AlreadyExists when one of that name exists, Invalid
\* when the API server's validation refuses min > max.
CreateHPA(f, metric, boundsOK, fl) ==
    IF "hpacreate" \in fl THEN [err |-> "APIError", hpa |-> hpa[f]]
    ELSE IF hpa[f] # "none" THEN [err |-> "AlreadyExists", hpa |-> hpa[f]]
    ELSE IF ~boundsOK THEN [err |-> "Invalid", hpa |-> "none"]
    ELSE [err |-> "none", hpa |-> metric]

\* (mutant) the qps branch creates the monitor before parsing the target
CreateAutoscaleMonitorFirst(f, metric, v, boundsOK, fl) ==
    CASE metric = "cpu" ->
           IF v \notin Int32Values
           THEN [err |-> "ParseError", hpa |-> hpa[f], sm |-> sm[f]]
           ELSE LET h == CreateHPA(f, metric, boundsOK, fl)
                IN  [err |-> h.err, hpa |-> h.hpa, sm |-> sm[f]]
      [] metric = "qps" ->
           LET m == createServiceMonitor(f, fl)
               h == CreateHPA(f, metric, boundsOK, fl)
           IN  IF m.err # "none" THEN [err |-> m.err, hpa |-> hpa[f], sm |-> m.sm]
               ELSE IF v \notin QtyValues
               THEN [err |-> "ParseError", hpa |-> hpa[f], sm |-> m.sm]
               ELSE [err |-> h.err, hpa |-> h.hpa, sm |-> m.sm]
      [] OTHER -> [err |-> "UnsupportedMetric", hpa |-> hpa[f], sm |-> sm[f]]

\* (mutant) the default branch does not return its error, so an HPA with
\* no metrics is created under the unsupported metric
CreateAutoscaleNoDefault(f, metric, v, boundsOK, fl) ==
    IF metric = "cpu" /\ v \notin Int32Values
    THEN [err |-> "ParseError", hpa |-> hpa[f], sm |-> sm[f]]
    ELSE IF metric = "qps" /\ v \notin QtyValues
    THEN [err |-> "ParseError", hpa |-> hpa[f], sm |-> sm[f]]
    ELSE LET h == CreateHPA(f, metric, boundsOK, fl)
         IN  [err |-> h.err, hpa |-> h.hpa, sm |-> sm[f]]

\* CreateAutoscale(client, funcName, ns, metric, min, max, value): parse the
\* target for the metric; for qps create the monitor first; then create the
\* HPA.  Returns the error and the resulting HPA and monitor of f.
CreateAutoscaleResult(f, metric, v, boundsOK, fl) ==
    CASE metric = "cpu" ->
           IF v \notin Int32Values
           THEN [err |-> "ParseError", hpa |-> hpa[f], sm |-> sm[f]]
           ELSE LET h == CreateHPA(f, metric, boundsOK, fl)
                IN  [err |-> h.err, hpa |-> h.hpa, sm |-> sm[f]]
      [] metric = "qps" ->
           IF v \notin QtyValues
           THEN [err |-> "ParseError", hpa |-> hpa[f], sm |-> sm[f]]
           ELSE LET m == createServiceMonitor(f, fl)
                    h == CreateHPA(f, metric, boundsOK, fl)
                IN  IF m.err # "none" THEN [err |-> m.err, hpa |-> hpa[f], sm |-> m.sm]
                    ELSE [err |-> h.err, hpa |-> h.hpa, sm |-> m.sm]
      [] OTHER -> [err |-> "UnsupportedMetric", hpa |-> hpa[f], sm |-> sm[f]]

Calls == {"smclient", "smget", "smcreate", "hpacreate", "hpadelete", "smdelete"}

-----------------------------------------------------------------------------
(* Commands.                                                               *)

Init ==
    /\ fn \in [Functions -> BOOLEAN]
    /\ hpa = [f \in Functions |-> "none"]
    /\ sm = [f \in Functions |-> "none"]
    /\ last = Cmd("none", CHOOSE f \in Functions : TRUE, "", "", "none")
    /\ failures = 0
    /\ ops = 0

\* `kubeless function autoscale create`: CreateAutoscale for an existing
\* Function.
CreateAutoscale(f, metric, v, boundsOK) ==
    \E fl \in Faults(IF metric = "qps" THEN {"smclient", "smget", "smcreate", "hpacreate"}
                     ELSE IF metric = "cpu" THEN {"hpacreate"} ELSE {}) :
        LET r == CreateAutoscaleResult(f, metric, v, boundsOK, fl)
        IN  /\ fn[f]
            /\ Counted(fl)
            /\ hpa' = [hpa EXCEPT ![f] = r.hpa]
            /\ sm' = [sm EXCEPT ![f] = r.sm]
            /\ last' = Cmd("create", f, metric, v, r.err)
            /\ UNCHANGED fn

\* DeleteAutoscale: NotFound counts as success.
DeleteAutoscale(f) ==
    \E fl \in Faults({"hpadelete"}) :
        /\ Counted(fl)
        /\ hpa' = [hpa EXCEPT ![f] = IF fl = {} THEN "none" ELSE @]
        /\ last' = Cmd("hpadelete", f, "", "", IF fl = {} THEN "none" ELSE "APIError")
        /\ UNCHANGED <<fn, sm>>

\* DeleteServiceMonitor: the smclient, then Delete; NotFound is success.
DeleteServiceMonitor(f) ==
    \E fl \in Faults({"smclient", "smdelete"}) :
        /\ Counted(fl)
        /\ sm' = [sm EXCEPT ![f] = IF fl = {} THEN "none" ELSE @]
        /\ last' = Cmd("smdelete", f, "", "", IF fl = {} THEN "none" ELSE "APIError")
        /\ UNCHANGED <<fn, hpa>>

\* `kubeless function delete` (DeleteK8sCustomResource): removes the
\* Function object and nothing else.
DeleteFunction(f) ==
    /\ fn[f]
    /\ Counted({})
    /\ fn' = [fn EXCEPT ![f] = FALSE]
    /\ last' = Cmd("delete", f, "", "", "none")
    /\ UNCHANGED <<hpa, sm>>

\* `kubeless function deploy` of a Function that does not exist.
DeployFunction(f) ==
    /\ ~fn[f]
    /\ Counted({})
    /\ fn' = [fn EXCEPT ![f] = TRUE]
    /\ last' = Cmd("deploy", f, "", "", "none")
    /\ UNCHANGED <<hpa, sm>>

\* Another tool (a Prometheus operator user) creates a ServiceMonitor named
\* like the Function.
ForeignMonitor(f) ==
    /\ sm[f] = "none"
    /\ Counted({})
    /\ sm' = [sm EXCEPT ![f] = "other"]
    /\ last' = Cmd("foreign", f, "", "", "none")
    /\ UNCHANGED <<fn, hpa>>

Next ==
    \E f \in Functions :
        \/ \E metric \in Metrics, v \in Values, b \in BOOLEAN :
              CreateAutoscale(f, metric, v, b)
        \/ DeleteAutoscale(f)
        \/ DeleteServiceMonitor(f)
        \/ DeleteFunction(f)
        \/ DeployFunction(f)
        \/ ForeignMonitor(f)

Spec == Init /\ [][Next]_vars

-----------------------------------------------------------------------------
(* Properties.                                                             *)

TypeOK ==
    /\ fn \in [Functions -> BOOLEAN]
    /\ hpa \in [Functions -> {"none", "cpu", "qps"}]
    /\ sm \in [Functions -> {"none", "kubeless", "other"}]
    /\ last \in [cmd : {"none", "create", "hpadelete", "smdelete", "delete",
                        "deploy", "foreign"},
                  f : Functions, metric : Metrics \cup {""},
                  value : Values \cup {""}, err : Errors]
    /\ failures \in 0..MaxFailures
    /\ ops \in 0..MaxOps

\* Spec 8 ("autoscale metric validation"): kubeless creates a ServiceMonitor
\* only in a qps CreateAutoscale whose target parses as a quantity, so a bad
\* target fails before any monitoring resource exists.
MonitorCreatedOnlyForValidQps ==
    [][\A f \in Functions :
         (sm[f] # "kubeless" /\ sm'[f] = "kubeless") =>
            /\ last'.cmd = "create" /\ last'.f = f
            /\ last'.metric = "qps" /\ last'.value \in QtyValues]_vars

\* Spec 7: a component operation that fails leaves no resource behind: a
\* command that returns an error has changed neither the HPAs nor the
\* ServiceMonitors.
FailedCommandLeavesNothing ==
    [][last'.err # "none" => hpa' = hpa /\ sm' = sm]_vars

\* Spec 4.5: while a Function has no autoscaler, a qps autoscale of it fails
\* with "already existed" only when the ServiceMonitor of that name
\* belongs to a different owner.
AlreadyMonitoredOnlyForOthers ==
    [][(last'.err = "AlreadyExisted" /\ hpa[last'.f] = "none") =>
          sm[last'.f] = "other"]_vars

\* Spec 4.5: a qps HPA exists only together with the ServiceMonitor of its
\* Function, which feeds it the function_calls metric.
QpsHPAMonitored ==
    \A f \in Functions : hpa[f] = "qps" => sm[f] # "none"

\* Spec 3: the HorizontalAutoscaler is a derived resource owned by its
\* Function, so it does not outlive the Function.
AutoscalerOwnedByFunction ==
    \A f \in Functions : hpa[f] # "none" => fn[f]
=============================================================================
