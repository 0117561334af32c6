--------------------- MODULE HTTPTriggerController_proofs ---------------------
(***************************************************************************)
(* Proofs about HTTPTriggerController for every value of the constants:    *)
(* type correctness, and two action properties about what the controller's *)
(* writes from its stale caches may do to the API server's objects.        *)
(***************************************************************************)
EXTENDS HTTPTriggerController, TLAPS

-----------------------------------------------------------------------------
(* Lemmas about the object operators.                                      *)

LEMMA ObjOps ==
    ASSUME NEW o \in Obj
    PROVE  /\ Absent(o) \in Obj
           /\ Fresh(o) \in Obj
           /\ Persist(o) \in Obj
           /\ o.exists => /\ AddFinalizer(o) \in Obj
                          /\ RemoveFinalizer(o) \in Obj
                          /\ MarkDeleted(o) \in Obj
BY DEF Obj, Absent, Fresh, AddFinalizer, RemoveFinalizer, Persist, MarkDeleted

\* Persist never brings an absent object into existence.
LEMMA PersistExists ==
    ASSUME NEW o \in Obj
    PROVE  Persist(o).exists => o.exists
BY DEF Obj, Persist, Absent

\* Persist keeps the finalizer count, or removes the object when the
\* count is zero and the object is being deleted.
LEMMA PersistFin ==
    ASSUME NEW o \in Obj
    PROVE  /\ Persist(o).fin = o.fin
           /\ Persist(o).deleting => o.deleting
BY DEF Obj, Persist, Absent

\* The controller's update of a trigger keeps the types.
LEMMA UpdateTriggerType ==
    ASSUME TypeOK, NEW t \in Triggers, NEW c, NEW new \in Obj,
           NEW err \in BOOLEAN,
           UpdateHTTPTriggerCustomResource(t, c, new, err)
    PROVE  /\ trig' \in [Triggers -> Obj]
           /\ failures' \in 0..MaxFailures
<1>1. Persist(new) \in Obj
  BY ObjOps
<1>. QED
  BY <1>1, BoundsAssumption
  DEF UpdateHTTPTriggerCustomResource, TransientError, TypeOK

\* The controller's update of a function keeps the types.
LEMMA UpdateFunctionType ==
    ASSUME TypeOK, NEW f \in Functions, NEW c, NEW new \in Obj,
           NEW err \in BOOLEAN,
           UpdateFunctionCustomResource(f, c, new, err)
    PROVE  /\ fn' \in [Functions -> Obj]
           /\ failures' \in 0..MaxFailures
<1>1. Persist(new) \in Obj
  BY ObjOps
<1>. QED
  BY <1>1, BoundsAssumption
  DEF UpdateFunctionCustomResource, TransientError, TypeOK

-----------------------------------------------------------------------------
(* Type correctness.                                                       *)

\* processItem keeps the server objects and the failure count well typed.
LEMMA ProcessItemType ==
    ASSUME TypeOK, NEW t \in Triggers, NEW err \in BOOLEAN,
           processItem(t, err)
    PROVE  /\ trig' \in [Triggers -> Obj]
           /\ fn' \in [Functions -> Obj]
           /\ failures' \in 0..MaxFailures
<1>. DEFINE c == trigCache[t]
            fc == fnCache[FunctionOf[t]]
<1>1. c \in Obj /\ fc \in Obj /\ FunctionOf[t] \in Functions
  BY FunctionOfAssumption DEF TypeOK
<1>2. c.exists => AddFinalizer(c) \in Obj /\ RemoveFinalizer(c) \in Obj
  BY <1>1, ObjOps
<1>3. CASE ~c.exists \/ (c.exists /\ ~MarkedForDeletion(c) /\ HasFinalizer(c)
                          /\ (~fc.exists \/ HasFinalizer(fc)))
  BY <1>3 DEF processItem, TypeOK, server
<1>4. CASE c.exists /\ MarkedForDeletion(c)
  <2>1. UpdateHTTPTriggerCustomResource(t, c, RemoveFinalizer(c), err) /\ fn' = fn
    BY <1>4 DEF processItem
  <2>2. trig' \in [Triggers -> Obj] /\ failures' \in 0..MaxFailures
    BY <1>2, <1>4, <2>1, UpdateTriggerType
  <2>. QED
    BY <2>1, <2>2 DEF TypeOK
<1>5. CASE c.exists /\ ~MarkedForDeletion(c) /\ ~HasFinalizer(c)
  <2>1. UpdateHTTPTriggerCustomResource(t, c, AddFinalizer(c), err) /\ fn' = fn
    BY <1>5 DEF processItem
  <2>2. trig' \in [Triggers -> Obj] /\ failures' \in 0..MaxFailures
    BY <1>2, <1>5, <2>1, UpdateTriggerType
  <2>. QED
    BY <2>1, <2>2 DEF TypeOK
<1>6. CASE c.exists /\ ~MarkedForDeletion(c) /\ HasFinalizer(c)
           /\ fc.exists /\ ~HasFinalizer(fc)
  <2>1. PICK ferr \in BOOLEAN :
          /\ UpdateFunctionCustomResource(FunctionOf[t], fc, AddFinalizer(fc), ferr)
          /\ trig' = trig
    BY <1>6 DEF processItem
  <2>2. AddFinalizer(fc) \in Obj
    BY <1>1, <1>6, ObjOps
  <2>. QED
    BY <1>1, <2>1, <2>2, UpdateFunctionType DEF TypeOK
<1>. QED
  BY <1>3, <1>4, <1>5, <1>6

\* HandleErr keeps the controller's counters well typed.
LEMMA HandleErrType ==
    ASSUME TypeOK, NEW t \in Triggers, NEW err \in BOOLEAN,
           HandleErr(t, err)
    PROVE  /\ waiting' \subseteq Triggers
           /\ requeues' \in [Triggers -> 0..MaxRetries]
           /\ gaveUpAfter' \in [Triggers -> Nat]
BY BoundsAssumption DEF HandleErr, Retryable, TypeOK

\* The specification keeps every variable within its type: the server
\* objects, the caches, the queue sets and the requeue counter, which the
\* worker keeps within 0..httpTriggerMaxRetries.
THEOREM TypeCorrect == Spec => []TypeOK
<1>1. Init => TypeOK
  BY BoundsAssumption DEF Init, TypeOK, Never, Obj
<1>2. TypeOK /\ [Next]_vars => TypeOK'
  <2> SUFFICES ASSUME TypeOK, [Next]_vars PROVE TypeOK'
    OBVIOUS
  <2>1. ASSUME NEW f \in Functions, CreateFunction(f) PROVE TypeOK'
    <3>1. Fresh(fn[f]) \in Obj
      BY ObjOps DEF TypeOK
    <3>. QED
      BY <2>1, <3>1, BoundsAssumption DEF CreateFunction, UserCall, TypeOK, caches, ctrl
  <2>2. ASSUME NEW f \in Functions, DeleteFunction(f) PROVE TypeOK'
    <3>1. Persist(MarkDeleted(fn[f])) \in Obj
      BY <2>2, ObjOps DEF TypeOK, DeleteFunction
    <3>. QED
      BY <2>2, <3>1, BoundsAssumption DEF DeleteFunction, UserCall, TypeOK, caches, ctrl
  <2>3. ASSUME NEW t \in Triggers, CreateTrigger(t) PROVE TypeOK'
    <3>1. Fresh(trig[t]) \in Obj
      BY ObjOps DEF TypeOK
    <3>. QED
      BY <2>3, <3>1, BoundsAssumption DEF CreateTrigger, UserCall, TypeOK, caches, ctrl
  <2>4. ASSUME NEW t \in Triggers, DeleteTrigger(t) PROVE TypeOK'
    <3>1. Persist(MarkDeleted(trig[t])) \in Obj
      BY <2>4, ObjOps DEF TypeOK, DeleteTrigger
    <3>. QED
      BY <2>4, <3>1, BoundsAssumption DEF DeleteTrigger, UserCall, TypeOK, caches, ctrl
  <2>5. ASSUME NEW t \in Triggers, SyncTrigger(t) PROVE TypeOK'
    BY <2>5 DEF SyncTrigger, TypeOK, server, budget
  <2>6. ASSUME NEW f \in Functions, SyncFunction(f) PROVE TypeOK'
    <3>1. /\ fn' \in [Functions -> Obj]
          /\ failures' \in 0..MaxFailures
      <4>1. fn[f].exists => RemoveFinalizer(fn[f]) \in Obj
        BY ObjOps DEF TypeOK
      <4>2. CASE fn[f].exists /\ fn[f].deleting /\ HasFinalizer(fn[f])
        <5>1. PICK err \in BOOLEAN :
                UpdateFunctionCustomResource(f, fn[f], RemoveFinalizer(fn[f]), err)
          BY <2>6, <4>2 DEF SyncFunction, functionAddedDeletedUpdated
        <5>. QED
          BY <4>1, <4>2, <5>1, UpdateFunctionType
      <4>3. CASE ~(fn[f].exists /\ fn[f].deleting /\ HasFinalizer(fn[f]))
        BY <2>6, <4>3 DEF SyncFunction, functionAddedDeletedUpdated, TypeOK
      <4>. QED
        BY <4>2, <4>3
    <3>. QED
      BY <2>6, <3>1 DEF SyncFunction, TypeOK, ctrl
  <2>7. ASSUME NEW t \in Triggers, ProcessNextItem(t) PROVE TypeOK'
    <3>1. PICK err \in BOOLEAN : processItem(t, err) /\ HandleErr(t, err)
      BY <2>7 DEF ProcessNextItem
    <3>2. /\ trig' \in [Triggers -> Obj]
          /\ fn' \in [Functions -> Obj]
          /\ failures' \in 0..MaxFailures
      BY <3>1, ProcessItemType
    <3>3. /\ waiting' \subseteq Triggers
          /\ requeues' \in [Triggers -> 0..MaxRetries]
          /\ gaveUpAfter' \in [Triggers -> Nat]
      BY <3>1, HandleErrType
    <3>. QED
      BY <2>7, <3>2, <3>3 DEF ProcessNextItem, TypeOK, caches
  <2>8. ASSUME NEW t \in Triggers, RetryFire(t) PROVE TypeOK'
    BY <2>8 DEF RetryFire, TypeOK, server, caches, budget
  <2>9. CASE Restart
    <3>1. \A f \in Functions : Absent(fn[f]) \in Obj
      BY ObjOps DEF TypeOK
    <3>. QED
      BY <2>9, <3>1, BoundsAssumption DEF Restart, TypeOK, server
  <2>10. CASE UNCHANGED vars
    BY <2>10 DEF vars, server, caches, ctrl, budget, TypeOK
  <2>. QED
    BY <2>1, <2>2, <2>3, <2>4, <2>5, <2>6, <2>7, <2>8, <2>9, <2>10
    DEF Next
<1>. QED
  BY <1>1, <1>2, PTL DEF Spec

-----------------------------------------------------------------------------
(* What a step may do to the API server's objects.                         *)

\* A step neither brings trigger t back without the user creating it nor
\* takes the finalizer off it while it is not being deleted.
TrigStepOK(t) ==
    /\ (~trig[t].exists /\ trig'[t].exists) => trig'[t] = Fresh(trig[t])
    /\ (HasFinalizer(trig[t]) /\ ~HasFinalizer(trig'[t])) => trig[t].deleting

\* A step does not bring function f back without the user creating it.
FnStepOK(f) == (~fn[f].exists /\ fn'[f].exists) => fn'[f] = Fresh(fn[f])

\* An update of trigger t from an existing cached copy c is harmless when
\* it takes the finalizer off only from a copy that is being deleted.
LEMMA ControllerTriggerWrite ==
    ASSUME TypeOK, NEW t \in Triggers, NEW c \in Obj, NEW new \in Obj,
           NEW err \in BOOLEAN,
           UpdateHTTPTriggerCustomResource(t, c, new, err),
           c.exists,
           (HasFinalizer(c) /\ ~HasFinalizer(new)) => c.deleting
    PROVE  \A u \in Triggers : TrigStepOK(u)
<1>1. CASE ~err /\ trig[t] = c /\ trig' = [trig EXCEPT ![t] = Persist(new)]
  <2>1. Persist(new).fin = new.fin
    BY PersistFin
  <2>. QED
    BY <1>1, <2>1 DEF TypeOK, TrigStepOK, HasFinalizer
<1>2. CASE UNCHANGED trig
  BY <1>2 DEF TrigStepOK
<1>. QED
  BY <1>1, <1>2 DEF UpdateHTTPTriggerCustomResource

\* An update of function f from an existing cached copy brings nothing back.
LEMMA ControllerFunctionWrite ==
    ASSUME TypeOK, NEW f \in Functions, NEW c \in Obj, NEW new \in Obj,
           NEW err \in BOOLEAN,
           UpdateFunctionCustomResource(f, c, new, err),
           c.exists
    PROVE  \A g \in Functions : FnStepOK(g)
<1>1. CASE ~err /\ fn[f] = c /\ fn' = [fn EXCEPT ![f] = Persist(new)]
  BY <1>1 DEF TypeOK, FnStepOK
<1>2. CASE UNCHANGED fn
  BY <1>2 DEF FnStepOK
<1>. QED
  BY <1>1, <1>2 DEF UpdateFunctionCustomResource

\* Every step of the specification is harmless to the server objects.
LEMMA ServerStep ==
    ASSUME TypeOK, [Next]_vars
    PROVE  /\ \A t \in Triggers : TrigStepOK(t)
           /\ \A f \in Functions : FnStepOK(f)
<1>. DEFINE TrigSame == UNCHANGED trig
            FnSame == UNCHANGED fn
<1>1. TrigSame => \A t \in Triggers : TrigStepOK(t)
  BY DEF TrigStepOK
<1>2. FnSame => \A f \in Functions : FnStepOK(f)
  BY DEF FnStepOK
<1>3. ASSUME NEW f \in Functions, CreateFunction(f) PROVE TrigSame /\ \A g \in Functions : FnStepOK(g)
  BY <1>3 DEF CreateFunction, TypeOK, FnStepOK
<1>4. ASSUME NEW f \in Functions, DeleteFunction(f) PROVE TrigSame /\ \A g \in Functions : FnStepOK(g)
  <2>1. Persist(MarkDeleted(fn[f])).exists => MarkDeleted(fn[f]).exists
    BY <1>4, PersistExists, ObjOps DEF TypeOK, DeleteFunction
  <2>. QED
    BY <1>4, <2>1 DEF DeleteFunction, TypeOK, FnStepOK, MarkDeleted
<1>5. ASSUME NEW t \in Triggers, CreateTrigger(t) PROVE FnSame /\ \A u \in Triggers : TrigStepOK(u)
  BY <1>5 DEF CreateTrigger, TypeOK, TrigStepOK, Obj, Fresh, HasFinalizer
<1>6. ASSUME NEW t \in Triggers, DeleteTrigger(t) PROVE FnSame /\ \A u \in Triggers : TrigStepOK(u)
  <2>1. /\ Persist(MarkDeleted(trig[t])).exists => MarkDeleted(trig[t]).exists
        /\ Persist(MarkDeleted(trig[t])).fin = MarkDeleted(trig[t]).fin
    BY <1>6, PersistExists, PersistFin, ObjOps DEF TypeOK, DeleteTrigger
  <2>. QED
    BY <1>6, <2>1 DEF DeleteTrigger, TypeOK, TrigStepOK, MarkDeleted, HasFinalizer
<1>7. ASSUME NEW f \in Functions, SyncFunction(f) PROVE TrigSame /\ \A g \in Functions : FnStepOK(g)
  <2>1. CASE fn[f].exists /\ fn[f].deleting /\ HasFinalizer(fn[f])
    <3>1. PICK err \in BOOLEAN :
            UpdateFunctionCustomResource(f, fn[f], RemoveFinalizer(fn[f]), err)
      BY <1>7, <2>1 DEF SyncFunction, functionAddedDeletedUpdated
    <3>2. RemoveFinalizer(fn[f]) \in Obj
      BY <2>1, ObjOps DEF TypeOK
    <3>. QED
      BY <1>7, <2>1, <3>1, <3>2, ControllerFunctionWrite DEF SyncFunction, TypeOK
  <2>2. CASE ~(fn[f].exists /\ fn[f].deleting /\ HasFinalizer(fn[f]))
    BY <1>7, <2>2, <1>2 DEF SyncFunction, functionAddedDeletedUpdated
  <2>. QED
    BY <2>1, <2>2
<1>8. ASSUME NEW t \in Triggers, ProcessNextItem(t)
      PROVE  /\ \A u \in Triggers : TrigStepOK(u)
             /\ \A g \in Functions : FnStepOK(g)
  <2>. DEFINE c == trigCache[t]
              fc == fnCache[FunctionOf[t]]
  <2>1. PICK err \in BOOLEAN : processItem(t, err)
    BY <1>8 DEF ProcessNextItem
  <2>2. c \in Obj /\ fc \in Obj /\ FunctionOf[t] \in Functions
    BY FunctionOfAssumption DEF TypeOK
  <2>3. CASE ~c.exists \/ (c.exists /\ ~MarkedForDeletion(c) /\ HasFinalizer(c)
                          /\ (~fc.exists \/ HasFinalizer(fc)))
    BY <2>1, <2>3, <1>1, <1>2 DEF processItem, server
  <2>4. CASE c.exists /\ MarkedForDeletion(c)
    <3>1. RemoveFinalizer(c) \in Obj
      BY <2>2, <2>4, ObjOps
    <3>2. UpdateHTTPTriggerCustomResource(t, c, RemoveFinalizer(c), err) /\ FnSame
      BY <2>1, <2>4 DEF processItem
    <3>. QED
      BY <2>2, <2>4, <3>1, <3>2, <1>2, ControllerTriggerWrite DEF MarkedForDeletion
  <2>5. CASE c.exists /\ ~MarkedForDeletion(c) /\ ~HasFinalizer(c)
    <3>1. AddFinalizer(c) \in Obj /\ HasFinalizer(AddFinalizer(c))
      BY <2>2, <2>5, ObjOps DEF HasFinalizer, AddFinalizer, Obj
    <3>2. UpdateHTTPTriggerCustomResource(t, c, AddFinalizer(c), err) /\ FnSame
      BY <2>1, <2>5 DEF processItem
    <3>. QED
      BY <2>2, <2>5, <3>1, <3>2, <1>2, ControllerTriggerWrite
  <2>6. CASE c.exists /\ ~MarkedForDeletion(c) /\ HasFinalizer(c)
             /\ fc.exists /\ ~HasFinalizer(fc)
    <3>1. PICK ferr \in BOOLEAN :
            /\ UpdateFunctionCustomResource(FunctionOf[t], fc, AddFinalizer(fc), ferr)
            /\ TrigSame
      BY <2>1, <2>6 DEF processItem
    <3>2. AddFinalizer(fc) \in Obj
      BY <2>2, <2>6, ObjOps
    <3>. QED
      BY <2>2, <2>6, <3>1, <3>2, <1>1, ControllerFunctionWrite
  <2>. QED
    BY <2>3, <2>4, <2>5, <2>6
<1>9. ASSUME NEW t \in Triggers, SyncTrigger(t) \/ RetryFire(t) PROVE TrigSame /\ FnSame
  BY <1>9 DEF SyncTrigger, RetryFire, server
<1>10. Restart \/ UNCHANGED vars => TrigSame /\ FnSame
  BY DEF Restart, vars, server
<1>. QED
  BY <1>1, <1>2, <1>3, <1>4, <1>5, <1>6, <1>7, <1>8, <1>9, <1>10 DEF Next

\* processItem takes the finalizer off a trigger only once the trigger on
\* the API server is being deleted, whatever its cache held.
THEOREM FinalizerRemovedOnlyOnDeletionThm == Spec => FinalizerRemovedOnlyOnDeletion
<1>1. TypeOK /\ [Next]_vars =>
        [\A t \in Triggers :
           (HasFinalizer(trig[t]) /\ ~HasFinalizer(trig'[t])) => trig[t].deleting]_vars
  BY ServerStep DEF TrigStepOK
<1>. QED
  BY <1>1, TypeCorrect, PTL DEF Spec, FinalizerRemovedOnlyOnDeletion

-----------------------------------------------------------------------------
(* A function is linked only on behalf of a guarded trigger.               *)

\* A trigger that the store holds live and guarded is, on the API server,
\* a trigger that exists and carries the finalizer: only the controller
\* takes the finalizer off, and only from a copy that is being deleted, and
\* the store never goes back to an earlier copy.
GuardSound ==
    \A t \in Triggers :
        (trigCache[t].exists /\ HasFinalizer(trigCache[t]) /\ ~trigCache[t].deleting)
            => trig[t].exists /\ HasFinalizer(trig[t])

\* A step that gives function f the finalizer leaves a trigger of f that
\* exists and carries its own.
LinkOK(f) ==
    (~HasFinalizer(fn[f]) /\ HasFinalizer(fn'[f]))
        => \E t \in Triggers :
               FunctionOf[t] = f /\ trig'[t].exists /\ HasFinalizer(trig'[t])

\* A trigger of the server that exists and carries the finalizer keeps both
\* through a step that does not write it from a copy being deleted.
LEMMA GuardKept ==
    ASSUME NEW o \in Obj, o.exists, HasFinalizer(o)
    PROVE  /\ Persist(MarkDeleted(o)).exists /\ HasFinalizer(Persist(MarkDeleted(o)))
           /\ Persist(AddFinalizer(o)).exists /\ HasFinalizer(Persist(AddFinalizer(o)))
BY DEF Obj, Persist, MarkDeleted, AddFinalizer, HasFinalizer, Absent

LEMMA InitGuardSound == Init => GuardSound
BY DEF Init, GuardSound, Never, HasFinalizer

LEMMA GuardSoundStep == TypeOK /\ GuardSound /\ [Next]_vars => GuardSound'
<1>. SUFFICES ASSUME TypeOK, GuardSound, [Next]_vars,
                     NEW u \in Triggers,
                     trigCache'[u].exists, HasFinalizer(trigCache'[u]), ~trigCache'[u].deleting
              PROVE  trig'[u].exists /\ HasFinalizer(trig'[u])
  BY DEF GuardSound
<1>. DEFINE Held == trigCache[u].exists /\ HasFinalizer(trigCache[u]) /\ ~trigCache[u].deleting
<1>1. trigCache'[u] = trigCache[u] => trig[u].exists /\ HasFinalizer(trig[u])
  BY DEF GuardSound
<1>2. ASSUME NEW f \in Functions, CreateFunction(f) \/ DeleteFunction(f) \/ SyncFunction(f)
      PROVE  trig'[u].exists /\ HasFinalizer(trig'[u])
  BY <1>1, <1>2 DEF CreateFunction, DeleteFunction, SyncFunction, caches
<1>3. ASSUME NEW t \in Triggers, CreateTrigger(t)
      PROVE  trig'[u].exists /\ HasFinalizer(trig'[u])
  <2>1. trigCache' = trigCache /\ trig' = [trig EXCEPT ![t] = Fresh(trig[t])]
    BY <1>3 DEF CreateTrigger, caches
  <2>2. t # u
    BY <1>1, <1>3, <2>1 DEF CreateTrigger
  <2>. QED
    BY <1>1, <2>1, <2>2 DEF TypeOK
<1>4. ASSUME NEW t \in Triggers, DeleteTrigger(t)
      PROVE  trig'[u].exists /\ HasFinalizer(trig'[u])
  <2>1. trigCache' = trigCache /\ trig' = [trig EXCEPT ![t] = Persist(MarkDeleted(trig[t]))]
    BY <1>4 DEF DeleteTrigger, caches
  <2>2. trig[u] \in Obj /\ trig[u].exists /\ HasFinalizer(trig[u])
    BY <1>1, <2>1 DEF TypeOK
  <2>3. Persist(MarkDeleted(trig[u])).exists /\ HasFinalizer(Persist(MarkDeleted(trig[u])))
    BY <2>2, GuardKept
  <2>. QED
    BY <2>1, <2>2, <2>3 DEF TypeOK
<1>5. ASSUME NEW t \in Triggers, SyncTrigger(t)
      PROVE  trig'[u].exists /\ HasFinalizer(trig'[u])
  BY <1>1, <1>5 DEF SyncTrigger, TypeOK, server
<1>6. ASSUME NEW t \in Triggers, RetryFire(t)
      PROVE  trig'[u].exists /\ HasFinalizer(trig'[u])
  BY <1>1, <1>6 DEF RetryFire, caches, server
<1>7. CASE Restart
  BY <1>7 DEF Restart, TypeOK, server
<1>8. CASE UNCHANGED vars
  BY <1>1, <1>8 DEF vars, caches, server
<1>9. ASSUME NEW t \in Triggers, ProcessNextItem(t)
      PROVE  trig'[u].exists /\ HasFinalizer(trig'[u])
  <2>. DEFINE c == trigCache[t]
  <2>1. trigCache' = trigCache /\ Held
    BY <1>9 DEF ProcessNextItem, caches
  <2>2. trig[u] \in Obj /\ trig[u].exists /\ HasFinalizer(trig[u]) /\ c \in Obj
    BY <1>1, <2>1 DEF TypeOK
  <2>3. PICK err \in BOOLEAN : processItem(t, err)
    BY <1>9 DEF ProcessNextItem
  <2>4. CASE trig' = trig
    BY <2>2, <2>4
  <2>5. CASE c.exists /\ MarkedForDeletion(c) /\ trig' # trig
    <3>1. trig[t] = c /\ trig' = [trig EXCEPT ![t] = Persist(RemoveFinalizer(c))]
      BY <2>3, <2>5 DEF processItem, UpdateHTTPTriggerCustomResource, server
    <3>2. t # u
      BY <2>1, <2>5, <3>1 DEF MarkedForDeletion
    <3>. QED
      BY <2>2, <3>1, <3>2 DEF TypeOK
  <2>6. CASE c.exists /\ ~MarkedForDeletion(c) /\ ~HasFinalizer(c) /\ trig' # trig
    <3>1. trig[t] = c /\ trig' = [trig EXCEPT ![t] = Persist(AddFinalizer(c))]
      BY <2>3, <2>6 DEF processItem, UpdateHTTPTriggerCustomResource, server
    <3>2. t = u => Persist(AddFinalizer(c)).exists /\ HasFinalizer(Persist(AddFinalizer(c)))
      BY <2>2, <3>1, GuardKept
    <3>. QED
      BY <2>2, <3>1, <3>2 DEF TypeOK
  <2>7. CASE ~c.exists \/ (c.exists /\ ~MarkedForDeletion(c) /\ HasFinalizer(c))
    <3>1. trig' = trig
      BY <2>3, <2>7 DEF processItem, server
    <3>. QED
      BY <2>2, <3>1
  <2>. QED
    BY <2>4, <2>5, <2>6, <2>7
<1>. QED
  BY <1>2, <1>3, <1>4, <1>5, <1>6, <1>7, <1>8, <1>9 DEF Next

THEOREM GuardSoundInvariant == Spec => []GuardSound
BY InitGuardSound, GuardSoundStep, TypeCorrect, PTL DEF Spec

\* Only processItem's last branch gives a function the finalizer, and it
\* runs on a cached trigger that is live and guarded.
LEMMA LinkStep ==
    ASSUME TypeOK, GuardSound, [Next]_vars
    PROVE  \A f \in Functions : LinkOK(f)
<1>. SUFFICES ASSUME NEW f \in Functions, ~HasFinalizer(fn[f]), HasFinalizer(fn'[f])
              PROVE  \E t \in Triggers :
                       FunctionOf[t] = f /\ trig'[t].exists /\ HasFinalizer(trig'[t])
  BY DEF LinkOK
<1>1. ASSUME NEW g \in Functions, CreateFunction(g) \/ DeleteFunction(g)
      PROVE  FALSE
  <2>1. fn[f] \in Obj
    BY DEF TypeOK
  <2>2. CASE CreateFunction(g)
    BY <2>1, <2>2 DEF CreateFunction, Fresh, HasFinalizer
  <2>3. CASE DeleteFunction(g)
    <3>0. MarkDeleted(fn[g]) \in Obj
      BY <2>3, ObjOps DEF TypeOK, DeleteFunction
    <3>1. Persist(MarkDeleted(fn[g])).fin = fn[g].fin
      BY <3>0, PersistFin DEF MarkDeleted
    <3>. QED
      BY <2>1, <2>3, <3>1 DEF DeleteFunction, MarkDeleted, HasFinalizer
  <2>. QED
    BY <1>1, <2>2, <2>3
<1>2. ASSUME NEW g \in Functions, SyncFunction(g)
      PROVE  FALSE
  <2>1. CASE fn[g].exists /\ fn[g].deleting /\ HasFinalizer(fn[g])
    <3>1. PICK err \in BOOLEAN :
            UpdateFunctionCustomResource(g, fn[g], RemoveFinalizer(fn[g]), err)
      BY <1>2, <2>1 DEF SyncFunction, functionAddedDeletedUpdated
    <3>0. RemoveFinalizer(fn[g]) \in Obj
      BY <2>1, ObjOps DEF TypeOK
    <3>2. Persist(RemoveFinalizer(fn[g])).fin = 0
      BY <3>0, PersistFin DEF RemoveFinalizer
    <3>. QED
      BY <3>1, <3>2 DEF UpdateFunctionCustomResource, HasFinalizer, TypeOK
  <2>2. CASE ~(fn[g].exists /\ fn[g].deleting /\ HasFinalizer(fn[g]))
    BY <1>2, <2>2 DEF SyncFunction, functionAddedDeletedUpdated
  <2>. QED
    BY <2>1, <2>2
<1>3. ASSUME NEW t \in Triggers, ProcessNextItem(t)
      PROVE  \E u \in Triggers :
               FunctionOf[u] = f /\ trig'[u].exists /\ HasFinalizer(trig'[u])
  <2>. DEFINE c == trigCache[t]
              fc == fnCache[FunctionOf[t]]
  <2>1. PICK err \in BOOLEAN : processItem(t, err)
    BY <1>3 DEF ProcessNextItem
  <2>2. c \in Obj /\ fc \in Obj /\ FunctionOf[t] \in Functions
    BY FunctionOfAssumption DEF TypeOK
  <2>3. CASE c.exists /\ ~MarkedForDeletion(c) /\ HasFinalizer(c)
             /\ fc.exists /\ ~HasFinalizer(fc)
    <3>1. PICK ferr \in BOOLEAN :
            /\ UpdateFunctionCustomResource(FunctionOf[t], fc, AddFinalizer(fc), ferr)
            /\ trig' = trig
      BY <2>1, <2>3 DEF processItem
    <3>2. fn' # fn
      OBVIOUS
    <3>3. fn' = [fn EXCEPT ![FunctionOf[t]] = Persist(AddFinalizer(fc))]
      BY <3>1, <3>2 DEF UpdateFunctionCustomResource
    <3>4. FunctionOf[t] = f
      BY <3>3 DEF TypeOK
    <3>5. ~c.deleting
      BY <2>3 DEF MarkedForDeletion
    <3>6. trig[t].exists /\ HasFinalizer(trig[t])
      BY <2>3, <3>5 DEF GuardSound
    <3>. QED
      BY <3>1, <3>4, <3>6
  <2>4. CASE ~(c.exists /\ ~MarkedForDeletion(c) /\ HasFinalizer(c)
               /\ fc.exists /\ ~HasFinalizer(fc))
    <3>1. fn' = fn
      <4>1. CASE ~c.exists
        BY <2>1, <4>1 DEF processItem, server
      <4>2. CASE c.exists /\ MarkedForDeletion(c)
        BY <2>1, <4>2 DEF processItem
      <4>3. CASE c.exists /\ ~MarkedForDeletion(c) /\ ~HasFinalizer(c)
        BY <2>1, <4>3 DEF processItem
      <4>4. CASE c.exists /\ ~MarkedForDeletion(c) /\ HasFinalizer(c)
        <5>1. ~fc.exists \/ HasFinalizer(fc)
          BY <2>4, <4>4
        <5>. QED
          BY <2>1, <4>4, <5>1 DEF processItem, server
      <4>. QED
        BY <4>1, <4>2, <4>3, <4>4
    <3>. QED
      BY <3>1
  <2>. QED
    BY <2>3, <2>4
<1>4. ASSUME NEW t \in Triggers, CreateTrigger(t) \/ DeleteTrigger(t) \/ SyncTrigger(t)
                                  \/ RetryFire(t)
      PROVE  FALSE
  BY <1>4 DEF CreateTrigger, DeleteTrigger, SyncTrigger, RetryFire, server
<1>5. CASE Restart \/ UNCHANGED vars
  BY <1>5 DEF Restart, vars, server
<1>. QED
  BY <1>1, <1>2, <1>3, <1>4, <1>5 DEF Next

\* processItem gives a Function the trigger finalizer only while a trigger
\* of that function exists on the API server and carries its own
\* finalizer, however stale the trigger store it read.
THEOREM FunctionLinkedOnlyForGuardedTriggerThm == Spec => FunctionLinkedOnlyForGuardedTrigger
<1>1. TypeOK /\ GuardSound /\ [Next]_vars =>
        [\A f \in Functions :
           (~HasFinalizer(fn[f]) /\ HasFinalizer(fn'[f]))
              => \E t \in Triggers :
                     FunctionOf[t] = f /\ trig'[t].exists /\ HasFinalizer(trig'[t])]_vars
  BY LinkStep DEF LinkOK
<1>. QED
  BY <1>1, TypeCorrect, GuardSoundInvariant, PTL DEF Spec, FunctionLinkedOnlyForGuardedTrigger

=============================================================================
