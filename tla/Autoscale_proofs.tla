----------------------------- MODULE Autoscale_proofs -----------------------------
(***************************************************************************)
(* Proofs about Autoscale for all Functions, values, metrics and bounds:   *)
(* type correctness, and that kubeless creates a ServiceMonitor only in a  *)
(* qps CreateAutoscale whose target parses as a quantity.                  *)
(***************************************************************************)
EXTENDS Autoscale, FiniteSetTheorems, TLAPS

HpaValues == {"none", "cpu", "qps"}
SmValues == {"none", "kubeless", "other"}

-----------------------------------------------------------------------------
(* Lemmas about the operators.                                             *)

\* What CreateAutoscale computes keeps the shapes of the HPA, the monitor
\* and the error.
LEMMA ResultType ==
    ASSUME NEW f, hpa[f] \in HpaValues, sm[f] \in SmValues,
           NEW metric, NEW v, NEW b, NEW fl
    PROVE  LET r == CreateAutoscaleResult(f, metric, v, b, fl)
           IN  r.hpa \in HpaValues /\ r.sm \in SmValues /\ r.err \in Errors
BY Zenon DEF CreateAutoscaleResult, CreateHPA, createServiceMonitor,
             HpaValues, SmValues, Errors

\* CreateAutoscale makes kubeless's ServiceMonitor only on the qps path,
\* after the target has parsed as a quantity.
LEMMA ResultMonitor ==
    ASSUME NEW f, NEW metric, NEW v, NEW b, NEW fl,
           sm[f] # "kubeless",
           CreateAutoscaleResult(f, metric, v, b, fl).sm = "kubeless"
    PROVE  metric = "qps" /\ v \in QtyValues
BY Zenon DEF CreateAutoscaleResult, createServiceMonitor

\* The API calls form a finite set.
LEMMA CallsFinite == IsFiniteSet(Calls)
<1>1. IsFiniteSet({"smclient"})
  BY FS_Singleton
<1>2. IsFiniteSet({"smclient"} \cup {"smget"})
  BY <1>1, FS_AddElement
<1>3. IsFiniteSet({"smclient", "smget"} \cup {"smcreate"})
  BY <1>2, FS_AddElement
<1>4. IsFiniteSet({"smclient", "smget", "smcreate"} \cup {"hpacreate"})
  BY <1>3, FS_AddElement
<1>5. IsFiniteSet({"smclient", "smget", "smcreate", "hpacreate"} \cup {"hpadelete"})
  BY <1>4, FS_AddElement
<1>6. IsFiniteSet({"smclient", "smget", "smcreate", "hpacreate", "hpadelete"} \cup {"smdelete"})
  BY <1>5, FS_AddElement
<1>. QED
  BY <1>6 DEF Calls

\* A counted command that fails calls of Calls stays within both budgets.
LEMMA CountedBudget ==
    ASSUME failures \in 0..MaxFailures, ops \in 0..MaxOps,
           NEW calls \in SUBSET Calls, NEW fl \in Faults(calls), Counted(fl)
    PROVE  failures' \in 0..MaxFailures /\ ops' \in 0..MaxOps
<1>1. Cardinality(fl) \in Nat
  BY CallsFinite, FS_Subset, FS_CardinalityType DEF Faults
<1>. QED
  BY <1>1, ConstAssumption DEF Faults, Counted

LEMMA CountedNothing ==
    ASSUME failures \in 0..MaxFailures, ops \in 0..MaxOps, Counted({})
    PROVE  failures' \in 0..MaxFailures /\ ops' \in 0..MaxOps
BY FS_EmptySet, ConstAssumption DEF Counted

-----------------------------------------------------------------------------
(* Type correctness.                                                       *)

LEMMA TypeStep ==
    ASSUME TypeOK, [Next]_vars
    PROVE  TypeOK'
<1>. USE DEF TypeOK
<1>1. ASSUME NEW f \in Functions,
             \E metric \in Metrics, v \in Values, b \in BOOLEAN :
                CreateAutoscale(f, metric, v, b)
      PROVE  TypeOK'
  <2>0. PICK metric \in Metrics, v \in Values, b \in BOOLEAN :
          CreateAutoscale(f, metric, v, b)
    BY <1>1
  <2>. DEFINE calls == IF metric = "qps" THEN {"smclient", "smget", "smcreate", "hpacreate"}
                       ELSE IF metric = "cpu" THEN {"hpacreate"} ELSE {}
  <2>1. PICK fl \in Faults(calls) :
          LET r == CreateAutoscaleResult(f, metric, v, b, fl)
          IN  /\ fn[f] /\ Counted(fl)
              /\ hpa' = [hpa EXCEPT ![f] = r.hpa]
              /\ sm' = [sm EXCEPT ![f] = r.sm]
              /\ last' = Cmd("create", f, metric, v, r.err)
              /\ UNCHANGED fn
    BY <2>0 DEF CreateAutoscale
  <2>2. calls \in SUBSET Calls
    <3>1. CASE metric = "qps"
      BY <3>1 DEF Calls
    <3>2. CASE metric = "cpu"
      BY <3>2 DEF Calls
    <3>3. CASE metric \notin {"qps", "cpu"}
      BY <3>3
    <3>. QED
      BY <3>1, <3>2, <3>3
  <2>3. failures' \in 0..MaxFailures /\ ops' \in 0..MaxOps
    BY <2>1, <2>2, CountedBudget
  <2>4. LET r == CreateAutoscaleResult(f, metric, v, b, fl)
        IN  r.hpa \in HpaValues /\ r.sm \in SmValues /\ r.err \in Errors
    <3>1. hpa[f] \in HpaValues /\ sm[f] \in SmValues
      BY DEF HpaValues, SmValues
    <3>. QED
      BY <3>1, ResultType
  <2>. QED
    BY <2>1, <2>3, <2>4 DEF Cmd, HpaValues, SmValues
<1>2. ASSUME NEW f \in Functions, DeleteAutoscale(f) PROVE TypeOK'
  <2>1. PICK fl \in Faults({"hpadelete"}) :
          /\ Counted(fl)
          /\ hpa' = [hpa EXCEPT ![f] = IF fl = {} THEN "none" ELSE @]
          /\ last' = Cmd("hpadelete", f, "", "", IF fl = {} THEN "none" ELSE "APIError")
          /\ UNCHANGED <<fn, sm>>
    BY <1>2 DEF DeleteAutoscale
  <2>2. failures' \in 0..MaxFailures /\ ops' \in 0..MaxOps
    BY <2>1, CountedBudget DEF Calls
  <2>. QED
    BY <2>1, <2>2 DEF Cmd, Errors
<1>3. ASSUME NEW f \in Functions, DeleteServiceMonitor(f) PROVE TypeOK'
  <2>1. PICK fl \in Faults({"smclient", "smdelete"}) :
          /\ Counted(fl)
          /\ sm' = [sm EXCEPT ![f] = IF fl = {} THEN "none" ELSE @]
          /\ last' = Cmd("smdelete", f, "", "", IF fl = {} THEN "none" ELSE "APIError")
          /\ UNCHANGED <<fn, hpa>>
    BY <1>3 DEF DeleteServiceMonitor
  <2>2. failures' \in 0..MaxFailures /\ ops' \in 0..MaxOps
    BY <2>1, CountedBudget DEF Calls
  <2>. QED
    BY <2>1, <2>2 DEF Cmd, Errors
<1>4. ASSUME NEW f \in Functions,
             DeleteFunction(f) \/ DeployFunction(f) \/ ForeignMonitor(f)
      PROVE  TypeOK'
  <2>1. Counted({})
    BY <1>4 DEF DeleteFunction, DeployFunction, ForeignMonitor
  <2>2. failures' \in 0..MaxFailures /\ ops' \in 0..MaxOps
    BY <2>1, CountedNothing
  <2>3. CASE DeleteFunction(f)
    BY <2>2, <2>3 DEF DeleteFunction, Cmd, Errors
  <2>4. CASE DeployFunction(f)
    BY <2>2, <2>4 DEF DeployFunction, Cmd, Errors
  <2>5. CASE ForeignMonitor(f)
    BY <2>2, <2>5 DEF ForeignMonitor, Cmd, Errors
  <2>. QED
    BY <1>4, <2>3, <2>4, <2>5
<1>5. CASE UNCHANGED vars
  BY <1>5 DEF vars
<1>. QED
  <2>1. CASE Next
    <3>1. PICK f \in Functions :
            \/ \E metric \in Metrics, v \in Values, b \in BOOLEAN :
                  CreateAutoscale(f, metric, v, b)
            \/ DeleteAutoscale(f)
            \/ DeleteServiceMonitor(f)
            \/ DeleteFunction(f)
            \/ DeployFunction(f)
            \/ ForeignMonitor(f)
      BY <2>1 DEF Next
    <3>2. CASE \E metric \in Metrics, v \in Values, b \in BOOLEAN :
                 CreateAutoscale(f, metric, v, b)
      BY <3>2, <1>1
    <3>3. CASE DeleteAutoscale(f)
      BY <3>3, <1>2
    <3>4. CASE DeleteServiceMonitor(f)
      BY <3>4, <1>3
    <3>5. CASE DeleteFunction(f) \/ DeployFunction(f) \/ ForeignMonitor(f)
      BY <3>5, <1>4
    <3>. QED
      BY <3>1, <3>2, <3>3, <3>4, <3>5
  <2>. QED
    BY <2>1, <1>5

\* Every reachable state of the autoscale commands is well typed: an HPA
\* has the metric cpu or qps, and a ServiceMonitor an owner.
THEOREM TypeCorrect == Spec => []TypeOK
<1>1. Init => TypeOK
  <2> SUFFICES ASSUME Init PROVE TypeOK
    OBVIOUS
  <2>1. PICK c \in Functions : last = Cmd("none", c, "", "", "none")
    BY ConstAssumption DEF Init
  <2>2. last \in [cmd : {"none", "create", "hpadelete", "smdelete", "delete",
                        "deploy", "foreign"},
                  f : Functions, metric : Metrics \cup {""},
                  value : Values \cup {""}, err : Errors]
    BY <2>1 DEF Cmd, Errors
  <2>3. failures \in 0..MaxFailures /\ ops \in 0..MaxOps
    <3>1. failures = 0 /\ ops = 0
      BY DEF Init
    <3>. QED
      BY <3>1, ConstAssumption
  <2>4. /\ fn \in [Functions -> BOOLEAN]
        /\ hpa \in [Functions -> {"none", "cpu", "qps"}]
        /\ sm \in [Functions -> {"none", "kubeless", "other"}]
    BY DEF Init
  <2>. QED
    BY <2>2, <2>3, <2>4 DEF TypeOK
<1>. QED
  BY <1>1, TypeStep, PTL DEF Spec
-----------------------------------------------------------------------------
(* The ServiceMonitor is created only for a valid qps target.              *)

\* A step that turns the ServiceMonitor of g into kubeless's is a qps
\* CreateAutoscale of g whose target parsed as a quantity: DeleteServiceMonitor
\* only removes a monitor and ForeignMonitor makes another owner's.
LEMMA MonitorStep ==
    ASSUME TypeOK, [Next]_vars, NEW g \in Functions,
           sm[g] # "kubeless", sm'[g] = "kubeless"
    PROVE  /\ last'.cmd = "create" /\ last'.f = g
           /\ last'.metric = "qps" /\ last'.value \in QtyValues
<1>. USE DEF TypeOK
<1>1. ASSUME NEW f \in Functions,
             \E metric \in Metrics, v \in Values, b \in BOOLEAN :
                CreateAutoscale(f, metric, v, b)
      PROVE  /\ last'.cmd = "create" /\ last'.f = g
             /\ last'.metric = "qps" /\ last'.value \in QtyValues
  <2>0. PICK metric \in Metrics, v \in Values, b \in BOOLEAN :
          CreateAutoscale(f, metric, v, b)
    BY <1>1
  <2>. DEFINE calls == IF metric = "qps" THEN {"smclient", "smget", "smcreate", "hpacreate"}
                       ELSE IF metric = "cpu" THEN {"hpacreate"} ELSE {}
  <2>1. PICK fl \in Faults(calls) :
          /\ sm' = [sm EXCEPT ![f] = CreateAutoscaleResult(f, metric, v, b, fl).sm]
          /\ last' = Cmd("create", f, metric, v, CreateAutoscaleResult(f, metric, v, b, fl).err)
    BY <2>0 DEF CreateAutoscale
  <2>2. f = g
    BY <2>1
  <2>3. CreateAutoscaleResult(g, metric, v, b, fl).sm = "kubeless"
    BY <2>1, <2>2
  <2>4. metric = "qps" /\ v \in QtyValues
    <3>. HIDE DEF TypeOK, calls
    <3>. QED
      BY <2>3, ResultMonitor
  <2>. QED
    BY <2>1, <2>2, <2>4 DEF Cmd
<1>2. ASSUME NEW f \in Functions,
             \/ DeleteAutoscale(f) \/ DeleteFunction(f) \/ DeployFunction(f)
             \/ DeleteServiceMonitor(f) \/ ForeignMonitor(f)
      PROVE  FALSE
  <2>1. CASE DeleteAutoscale(f) \/ DeleteFunction(f) \/ DeployFunction(f)
    <3>1. sm' = sm
      BY <2>1 DEF DeleteAutoscale, DeleteFunction, DeployFunction
    <3>. QED
      BY <3>1
  <2>2. CASE DeleteServiceMonitor(f)
    <3>1. PICK fl \in Faults({"smclient", "smdelete"}) :
            sm' = [sm EXCEPT ![f] = IF fl = {} THEN "none" ELSE @]
      BY <2>2 DEF DeleteServiceMonitor
    <3>. QED
      BY <3>1
  <2>3. CASE ForeignMonitor(f)
    BY <2>3 DEF ForeignMonitor
  <2>. QED
    BY <1>2, <2>1, <2>2, <2>3
<1>3. CASE UNCHANGED vars
  BY <1>3 DEF vars
<1>. QED
  <2>1. CASE Next
    <3>1. PICK f \in Functions :
            \/ \E metric \in Metrics, v \in Values, b \in BOOLEAN :
                  CreateAutoscale(f, metric, v, b)
            \/ DeleteAutoscale(f)
            \/ DeleteServiceMonitor(f)
            \/ DeleteFunction(f)
            \/ DeployFunction(f)
            \/ ForeignMonitor(f)
      BY <2>1 DEF Next
    <3>2. CASE \E metric \in Metrics, v \in Values, b \in BOOLEAN :
                 CreateAutoscale(f, metric, v, b)
      BY <3>2, <1>1
    <3>3. CASE ~\E metric \in Metrics, v \in Values, b \in BOOLEAN :
                  CreateAutoscale(f, metric, v, b)
      BY <3>1, <3>3, <1>2
    <3>. QED
      BY <3>2, <3>3
  <2>. QED
    BY <2>1, <1>3

\* Spec 8 for all Functions, metrics and targets: no step of the autoscale
\* commands makes kubeless's ServiceMonitor except a qps CreateAutoscale of
\* that Function whose target parsed as a quantity.
THEOREM MonitorCreatedOnlyForValidQpsThm == Spec => MonitorCreatedOnlyForValidQps
<1>1. TypeOK /\ [Next]_vars =>
        [\A f \in Functions :
           (sm[f] # "kubeless" /\ sm'[f] = "kubeless") =>
              /\ last'.cmd = "create" /\ last'.f = f
              /\ last'.metric = "qps" /\ last'.value \in QtyValues]_vars
  BY MonitorStep
<1>. QED
  BY <1>1, TypeCorrect, PTL DEF Spec, MonitorCreatedOnlyForValidQps
=============================================================================
