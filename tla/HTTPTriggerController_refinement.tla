------------------- MODULE HTTPTriggerController_refinement -------------------
(***************************************************************************)
(* Proof that HTTPTriggerController implements FinalizerProtocol for its   *)
(* triggers and for its functions under the mapping StatusOf (see         *)
(* ImplementsFinalizerProtocol), for every value of the constants.         *)
(*                                                                         *)
(* The argument needs one invariant beyond TypeOK: an object on the API    *)
(* server that is being deleted still carries a finalizer (Collected),     *)
(* since every server write goes through Persist.  Without it an object    *)
(* with a deletion timestamp and no finalizer would map to "terminating"   *)
(* and the controller's AddFinalizer to it would be no protocol step.      *)
(***************************************************************************)
EXTENDS HTTPTriggerController_proofs

\* A deleted object without finalizer is gone.
Collected(o) == o.deleting => o.fin > 0

AllCollected ==
    /\ \A t \in Triggers : Collected(trig[t])
    /\ \A f \in Functions : Collected(fn[f])

-----------------------------------------------------------------------------
(* Lemmas about the objects and the status mapping.                        *)

LEMMA PersistCollected ==
    ASSUME NEW o \in Obj
    PROVE  Collected(Persist(o))
BY DEF Obj, Persist, Absent, Collected

LEMMA FreshCollected ==
    ASSUME NEW o \in Obj
    PROVE  Collected(Fresh(o))
BY DEF Fresh, Collected

\* An object created from one that is gone: absent, then live.
LEMMA StatusCreate ==
    ASSUME NEW o \in Obj, ~o.exists
    PROVE  StatusOf(o) = "absent" /\ StatusOf(Fresh(o)) = "live"
BY DEF StatusOf, Fresh, HasFinalizer

\* The user's delete of a live object: an unguarded one goes, a guarded one
\* terminates.
LEMMA StatusDelete ==
    ASSUME NEW o \in Obj, o.exists, ~o.deleting
    PROVE  \/ StatusOf(o) = "live" /\ StatusOf(Persist(MarkDeleted(o))) = "absent"
           \/ StatusOf(o) = "guarded" /\ StatusOf(Persist(MarkDeleted(o))) = "terminating"
BY DEF Obj, StatusOf, Persist, MarkDeleted, Absent, HasFinalizer

\* The controller's finalizer add to an existing collected object that has
\* none: live, then guarded.
LEMMA StatusGuard ==
    ASSUME NEW o \in Obj, Collected(o), o.exists, ~HasFinalizer(o)
    PROVE  StatusOf(o) = "live" /\ StatusOf(Persist(AddFinalizer(o))) = "guarded"
BY DEF Obj, Collected, StatusOf, Persist, AddFinalizer, HasFinalizer

\* The finalizer removal from a deleted object: terminating, then gone.
LEMMA StatusRelease ==
    ASSUME NEW o \in Obj, o.exists, o.deleting, HasFinalizer(o)
    PROVE  StatusOf(o) = "terminating" /\ StatusOf(Persist(RemoveFinalizer(o))) = "absent"
BY DEF Obj, StatusOf, Persist, RemoveFinalizer, Absent, HasFinalizer

\* A write of one trigger moves only that trigger's status.
LEMMA TrigMove ==
    ASSUME trig \in [Triggers -> Obj], NEW t \in Triggers, NEW new,
           trig' = [trig EXCEPT ![t] = new]
    PROVE  /\ TrigStatus[t] = StatusOf(trig[t])
           /\ TrigStatus' = [TrigStatus EXCEPT ![t] = StatusOf(new)]
BY DEF TrigStatus

\* A write of one function moves only that function's status.
LEMMA FnMove ==
    ASSUME fn \in [Functions -> Obj], NEW f \in Functions, NEW new,
           fn' = [fn EXCEPT ![f] = new]
    PROVE  /\ FnStatus[f] = StatusOf(fn[f])
           /\ FnStatus' = [FnStatus EXCEPT ![f] = StatusOf(new)]
BY DEF FnStatus

-----------------------------------------------------------------------------
(* The invariant.                                                          *)

\* A write of the controller to a trigger keeps the triggers collected.
LEMMA TriggerWriteCollected ==
    ASSUME TypeOK, \A u \in Triggers : Collected(trig[u]),
           NEW t \in Triggers, NEW c, NEW new \in Obj, NEW err \in BOOLEAN,
           UpdateHTTPTriggerCustomResource(t, c, new, err)
    PROVE  \A u \in Triggers : Collected(trig'[u])
<1>1. Collected(Persist(new))
  BY PersistCollected
<1>. QED
  BY <1>1 DEF UpdateHTTPTriggerCustomResource, TypeOK

\* A write of the controller to a function keeps the functions collected.
LEMMA FunctionWriteCollected ==
    ASSUME TypeOK, \A g \in Functions : Collected(fn[g]),
           NEW f \in Functions, NEW c, NEW new \in Obj, NEW err \in BOOLEAN,
           UpdateFunctionCustomResource(f, c, new, err)
    PROVE  \A g \in Functions : Collected(fn'[g])
<1>1. Collected(Persist(new))
  BY PersistCollected
<1>. QED
  BY <1>1 DEF UpdateFunctionCustomResource, TypeOK

THEOREM CollectedInvariant == Spec => []AllCollected
<1>1. Init => AllCollected
  BY DEF Init, AllCollected, Collected, Never
<1>2. TypeOK /\ AllCollected /\ [Next]_vars => AllCollected'
  <2> SUFFICES ASSUME TypeOK, AllCollected, [Next]_vars PROVE AllCollected'
    OBVIOUS
  <2>. USE DEF AllCollected
  <2>1. CASE UNCHANGED server
    BY <2>1 DEF server
  <2>2. ASSUME NEW f \in Functions, CreateFunction(f) PROVE AllCollected'
    BY <2>2, FreshCollected DEF CreateFunction, TypeOK
  <2>3. ASSUME NEW f \in Functions, DeleteFunction(f) PROVE AllCollected'
    <3>1. Collected(Persist(MarkDeleted(fn[f])))
      BY <2>3, ObjOps, PersistCollected DEF TypeOK, DeleteFunction
    <3>. QED
      BY <2>3, <3>1 DEF DeleteFunction, TypeOK
  <2>4. ASSUME NEW t \in Triggers, CreateTrigger(t) PROVE AllCollected'
    BY <2>4, FreshCollected DEF CreateTrigger, TypeOK
  <2>5. ASSUME NEW t \in Triggers, DeleteTrigger(t) PROVE AllCollected'
    <3>1. Collected(Persist(MarkDeleted(trig[t])))
      BY <2>5, ObjOps, PersistCollected DEF TypeOK, DeleteTrigger
    <3>. QED
      BY <2>5, <3>1 DEF DeleteTrigger, TypeOK
  <2>6. ASSUME NEW f \in Functions, SyncFunction(f) PROVE AllCollected'
    <3>1. CASE fn[f].exists /\ fn[f].deleting /\ HasFinalizer(fn[f])
      <4>1. PICK err \in BOOLEAN :
              UpdateFunctionCustomResource(f, fn[f], RemoveFinalizer(fn[f]), err)
        BY <2>6, <3>1 DEF SyncFunction, functionAddedDeletedUpdated
      <4>2. RemoveFinalizer(fn[f]) \in Obj
        BY <3>1, ObjOps DEF TypeOK
      <4>. QED
        BY <2>6, <4>1, <4>2, FunctionWriteCollected DEF SyncFunction
    <3>2. CASE ~(fn[f].exists /\ fn[f].deleting /\ HasFinalizer(fn[f]))
      BY <2>6, <3>2 DEF SyncFunction, functionAddedDeletedUpdated
    <3>. QED
      BY <3>1, <3>2
  <2>7. ASSUME NEW t \in Triggers, ProcessNextItem(t) PROVE AllCollected'
    <3>. DEFINE c == trigCache[t]
                fc == fnCache[FunctionOf[t]]
    <3>1. PICK err \in BOOLEAN : processItem(t, err)
      BY <2>7 DEF ProcessNextItem
    <3>2. c \in Obj /\ fc \in Obj /\ FunctionOf[t] \in Functions
      BY FunctionOfAssumption DEF TypeOK
    <3>3. CASE ~c.exists \/ (c.exists /\ ~MarkedForDeletion(c) /\ HasFinalizer(c)
                            /\ (~fc.exists \/ HasFinalizer(fc)))
      BY <3>1, <3>3, <2>1 DEF processItem, server
    <3>4. CASE c.exists /\ MarkedForDeletion(c)
      <4>1. RemoveFinalizer(c) \in Obj
        BY <3>2, <3>4, ObjOps
      <4>2. UpdateHTTPTriggerCustomResource(t, c, RemoveFinalizer(c), err) /\ UNCHANGED fn
        BY <3>1, <3>4 DEF processItem
      <4>. QED
        BY <4>1, <4>2, TriggerWriteCollected
    <3>5. CASE c.exists /\ ~MarkedForDeletion(c) /\ ~HasFinalizer(c)
      <4>1. AddFinalizer(c) \in Obj
        BY <3>2, <3>5, ObjOps
      <4>2. UpdateHTTPTriggerCustomResource(t, c, AddFinalizer(c), err) /\ UNCHANGED fn
        BY <3>1, <3>5 DEF processItem
      <4>. QED
        BY <4>1, <4>2, TriggerWriteCollected
    <3>6. CASE c.exists /\ ~MarkedForDeletion(c) /\ HasFinalizer(c)
               /\ fc.exists /\ ~HasFinalizer(fc)
      <4>1. PICK ferr \in BOOLEAN :
              /\ UpdateFunctionCustomResource(FunctionOf[t], fc, AddFinalizer(fc), ferr)
              /\ UNCHANGED trig
        BY <3>1, <3>6 DEF processItem
      <4>2. AddFinalizer(fc) \in Obj
        BY <3>2, <3>6, ObjOps
      <4>. QED
        BY <3>2, <4>1, <4>2, FunctionWriteCollected
    <3>. QED
      BY <3>3, <3>4, <3>5, <3>6
  <2>8. ASSUME NEW t \in Triggers, SyncTrigger(t) \/ RetryFire(t) PROVE AllCollected'
    BY <2>8, <2>1 DEF SyncTrigger, RetryFire, server
  <2>9. CASE Restart
    BY <2>9, <2>1 DEF Restart, server
  <2>10. CASE UNCHANGED vars
    BY <2>10, <2>1 DEF vars, server
  <2>. QED
    BY <2>2, <2>3, <2>4, <2>5, <2>6, <2>7, <2>8, <2>9, <2>10 DEF Next
<1>. QED
  BY <1>1, <1>2, TypeCorrect, PTL DEF Spec

-----------------------------------------------------------------------------
(* Every step maps to a protocol step or a stutter.                        *)

\* An update call either writes the new object over the cached copy it was
\* read from, or leaves the server's trigger alone.
LEMMA UpdateTriggerCases ==
    ASSUME NEW t, NEW c, NEW new, NEW err,
           UpdateHTTPTriggerCustomResource(t, c, new, err)
    PROVE  \/ trig[t] = c /\ trig' = [trig EXCEPT ![t] = Persist(new)]
           \/ UNCHANGED trig
BY DEF UpdateHTTPTriggerCustomResource

LEMMA UpdateFunctionCases ==
    ASSUME NEW f, NEW c, NEW new, NEW err,
           UpdateFunctionCustomResource(f, c, new, err)
    PROVE  \/ fn[f] = c /\ fn' = [fn EXCEPT ![f] = Persist(new)]
           \/ UNCHANGED fn
BY DEF UpdateFunctionCustomResource

\* A write of one trigger from status `from` to status `to` is a Move.
LEMMA TrigWriteMove ==
    ASSUME TypeOK, NEW t \in Triggers, NEW new,
           trig' = [trig EXCEPT ![t] = new],
           NEW from, NEW to, StatusOf(trig[t]) = from, StatusOf(new) = to
    PROVE  TrigProtocol!Move(t, from, to)
BY TrigMove DEF TrigProtocol!Move, TypeOK

LEMMA FnWriteMove ==
    ASSUME TypeOK, NEW f \in Functions, NEW new,
           fn' = [fn EXCEPT ![f] = new],
           NEW from, NEW to, StatusOf(fn[f]) = from, StatusOf(new) = to
    PROVE  FnProtocol!Move(f, from, to)
BY FnMove DEF FnProtocol!Move, TypeOK

LEMMA TrigSameStatus ==
    ASSUME UNCHANGED trig
    PROVE  UNCHANGED TrigStatus
BY DEF TrigStatus

LEMMA FnSameStatus ==
    ASSUME UNCHANGED fn
    PROVE  UNCHANGED FnStatus
BY DEF FnStatus

\* Every step of the controller and the user maps to a step of the
\* finalizer protocol of the triggers, or leaves their statuses alone.
LEMMA TrigRefStep ==
    ASSUME TypeOK, AllCollected, [Next]_vars
    PROVE  [TrigProtocol!Next]_TrigStatus
<1>. DEFINE Step(t) == TrigProtocol!Create(t) \/ TrigProtocol!Guard(t)
                       \/ TrigProtocol!Delete(t) \/ TrigProtocol!Release(t)
<1>1. ASSUME NEW t \in Triggers, Step(t) PROVE [TrigProtocol!Next]_TrigStatus
  BY <1>1 DEF TrigProtocol!Next
<1>2. CASE UNCHANGED trig
  BY <1>2, TrigSameStatus
<1>3. ASSUME NEW t \in Triggers, CreateTrigger(t) PROVE [TrigProtocol!Next]_TrigStatus
  <2>1. StatusOf(trig[t]) = "absent" /\ StatusOf(Fresh(trig[t])) = "live"
    BY <1>3, StatusCreate DEF CreateTrigger, TypeOK
  <2>2. TrigProtocol!Move(t, "absent", "live")
    BY <1>3, <2>1, TrigWriteMove DEF CreateTrigger
  <2>. QED
    BY <2>2, <1>1 DEF TrigProtocol!Create
<1>4. ASSUME NEW t \in Triggers, DeleteTrigger(t) PROVE [TrigProtocol!Next]_TrigStatus
  <2>1. \/ StatusOf(trig[t]) = "live" /\ StatusOf(Persist(MarkDeleted(trig[t]))) = "absent"
        \/ StatusOf(trig[t]) = "guarded" /\ StatusOf(Persist(MarkDeleted(trig[t]))) = "terminating"
    BY <1>4, StatusDelete DEF DeleteTrigger, TypeOK
  <2>2. \/ TrigProtocol!Move(t, "live", "absent")
        \/ TrigProtocol!Move(t, "guarded", "terminating")
    BY <1>4, <2>1, TrigWriteMove DEF DeleteTrigger
  <2>. QED
    BY <2>2, <1>1 DEF TrigProtocol!Delete
<1>5. ASSUME NEW t \in Triggers, ProcessNextItem(t) PROVE [TrigProtocol!Next]_TrigStatus
  <2>. DEFINE c == trigCache[t]
              fc == fnCache[FunctionOf[t]]
  <2>1. PICK err \in BOOLEAN : processItem(t, err)
    BY <1>5 DEF ProcessNextItem
  <2>2. c \in Obj /\ Collected(trig[t])
    BY DEF TypeOK, AllCollected
  <2>3. CASE ~(c.exists /\ MarkedForDeletion(c))
             /\ ~(c.exists /\ ~MarkedForDeletion(c) /\ ~HasFinalizer(c))
    BY <2>1, <2>3, <1>2 DEF processItem, server
  <2>4. CASE c.exists /\ MarkedForDeletion(c)
    <3>1. UpdateHTTPTriggerCustomResource(t, c, RemoveFinalizer(c), err)
      BY <2>1, <2>4 DEF processItem
    <3>2. CASE trig[t] = c /\ trig' = [trig EXCEPT ![t] = Persist(RemoveFinalizer(c))]
      <4>1. StatusOf(c) = "terminating" /\ StatusOf(Persist(RemoveFinalizer(c))) = "absent"
        BY <2>2, <2>4, StatusRelease DEF MarkedForDeletion
      <4>2. TrigProtocol!Move(t, "terminating", "absent")
        BY <3>2, <4>1, TrigWriteMove
      <4>. QED
        BY <4>2, <1>1 DEF TrigProtocol!Release
    <3>. QED
      BY <3>1, <3>2, <1>2, UpdateTriggerCases
  <2>5. CASE c.exists /\ ~MarkedForDeletion(c) /\ ~HasFinalizer(c)
    <3>1. UpdateHTTPTriggerCustomResource(t, c, AddFinalizer(c), err)
      BY <2>1, <2>5 DEF processItem
    <3>2. CASE trig[t] = c /\ trig' = [trig EXCEPT ![t] = Persist(AddFinalizer(c))]
      <4>1. StatusOf(c) = "live" /\ StatusOf(Persist(AddFinalizer(c))) = "guarded"
        BY <2>2, <2>5, <3>2, StatusGuard
      <4>2. TrigProtocol!Move(t, "live", "guarded")
        BY <3>2, <4>1, TrigWriteMove
      <4>. QED
        BY <4>2, <1>1 DEF TrigProtocol!Guard
    <3>. QED
      BY <3>1, <3>2, <1>2, UpdateTriggerCases
  <2>. QED
    BY <2>3, <2>4, <2>5
<1>6. ASSUME NEW f \in Functions, CreateFunction(f) \/ DeleteFunction(f) \/ SyncFunction(f)
      PROVE  UNCHANGED trig
  BY <1>6 DEF CreateFunction, DeleteFunction, SyncFunction
<1>7. ASSUME NEW t \in Triggers, SyncTrigger(t) \/ RetryFire(t) PROVE UNCHANGED trig
  BY <1>7 DEF SyncTrigger, RetryFire, server
<1>8. Restart \/ UNCHANGED vars => UNCHANGED trig
  BY DEF Restart, vars, server
<1>. QED
  BY <1>2, <1>3, <1>4, <1>5, <1>6, <1>7, <1>8 DEF Next

\* Every step maps to a step of the finalizer protocol of the functions, or
\* leaves their statuses alone.
LEMMA FnRefStep ==
    ASSUME TypeOK, AllCollected, [Next]_vars
    PROVE  [FnProtocol!Next]_FnStatus
<1>. DEFINE Step(f) == FnProtocol!Create(f) \/ FnProtocol!Guard(f)
                       \/ FnProtocol!Delete(f) \/ FnProtocol!Release(f)
<1>1. ASSUME NEW f \in Functions, Step(f) PROVE [FnProtocol!Next]_FnStatus
  BY <1>1 DEF FnProtocol!Next
<1>2. CASE UNCHANGED fn
  BY <1>2, FnSameStatus
<1>3. ASSUME NEW f \in Functions, CreateFunction(f) PROVE [FnProtocol!Next]_FnStatus
  <2>1. StatusOf(fn[f]) = "absent" /\ StatusOf(Fresh(fn[f])) = "live"
    BY <1>3, StatusCreate DEF CreateFunction, TypeOK
  <2>2. FnProtocol!Move(f, "absent", "live")
    BY <1>3, <2>1, FnWriteMove DEF CreateFunction
  <2>. QED
    BY <2>2, <1>1 DEF FnProtocol!Create
<1>4. ASSUME NEW f \in Functions, DeleteFunction(f) PROVE [FnProtocol!Next]_FnStatus
  <2>1. \/ StatusOf(fn[f]) = "live" /\ StatusOf(Persist(MarkDeleted(fn[f]))) = "absent"
        \/ StatusOf(fn[f]) = "guarded" /\ StatusOf(Persist(MarkDeleted(fn[f]))) = "terminating"
    BY <1>4, StatusDelete DEF DeleteFunction, TypeOK
  <2>2. \/ FnProtocol!Move(f, "live", "absent")
        \/ FnProtocol!Move(f, "guarded", "terminating")
    BY <1>4, <2>1, FnWriteMove DEF DeleteFunction
  <2>. QED
    BY <2>2, <1>1 DEF FnProtocol!Delete
<1>5. ASSUME NEW f \in Functions, SyncFunction(f) PROVE [FnProtocol!Next]_FnStatus
  <2>1. CASE fn[f].exists /\ fn[f].deleting /\ HasFinalizer(fn[f])
    <3>1. PICK err \in BOOLEAN :
            UpdateFunctionCustomResource(f, fn[f], RemoveFinalizer(fn[f]), err)
      BY <1>5, <2>1 DEF SyncFunction, functionAddedDeletedUpdated
    <3>2. CASE fn' = [fn EXCEPT ![f] = Persist(RemoveFinalizer(fn[f]))]
      <4>1. StatusOf(fn[f]) = "terminating"
            /\ StatusOf(Persist(RemoveFinalizer(fn[f]))) = "absent"
        BY <2>1, StatusRelease DEF TypeOK
      <4>2. FnProtocol!Move(f, "terminating", "absent")
        BY <3>2, <4>1, FnWriteMove
      <4>. QED
        BY <4>2, <1>1 DEF FnProtocol!Release
    <3>. QED
      BY <3>1, <3>2, <1>2, UpdateFunctionCases
  <2>2. CASE ~(fn[f].exists /\ fn[f].deleting /\ HasFinalizer(fn[f]))
    BY <1>5, <2>2, <1>2 DEF SyncFunction, functionAddedDeletedUpdated
  <2>. QED
    BY <2>1, <2>2
<1>6. ASSUME NEW t \in Triggers, ProcessNextItem(t) PROVE [FnProtocol!Next]_FnStatus
  <2>. DEFINE c == trigCache[t]
              g == FunctionOf[t]
              fc == fnCache[g]
  <2>1. PICK err \in BOOLEAN : processItem(t, err)
    BY <1>6 DEF ProcessNextItem
  <2>2. g \in Functions /\ fc \in Obj /\ Collected(fn[g])
    BY FunctionOfAssumption DEF TypeOK, AllCollected
  <2>3. CASE ~(c.exists /\ ~MarkedForDeletion(c) /\ HasFinalizer(c)
               /\ fc.exists /\ ~HasFinalizer(fc))
    BY <2>1, <2>3, <1>2 DEF processItem, server
  <2>4. CASE c.exists /\ ~MarkedForDeletion(c) /\ HasFinalizer(c)
             /\ fc.exists /\ ~HasFinalizer(fc)
    <3>1. PICK ferr \in BOOLEAN : UpdateFunctionCustomResource(g, fc, AddFinalizer(fc), ferr)
      BY <2>1, <2>4 DEF processItem
    <3>2. CASE fn[g] = fc /\ fn' = [fn EXCEPT ![g] = Persist(AddFinalizer(fc))]
      <4>1. StatusOf(fc) = "live" /\ StatusOf(Persist(AddFinalizer(fc))) = "guarded"
        BY <2>2, <2>4, <3>2, StatusGuard
      <4>2. FnProtocol!Move(g, "live", "guarded")
        BY <2>2, <3>2, <4>1, FnWriteMove
      <4>. QED
        BY <2>2, <4>2, <1>1 DEF FnProtocol!Guard
    <3>. QED
      BY <3>1, <3>2, <1>2, UpdateFunctionCases
  <2>. QED
    BY <2>3, <2>4
<1>7. ASSUME NEW t \in Triggers, CreateTrigger(t) \/ DeleteTrigger(t) \/ SyncTrigger(t)
                                 \/ RetryFire(t)
      PROVE  UNCHANGED fn
  BY <1>7 DEF CreateTrigger, DeleteTrigger, SyncTrigger, RetryFire, server
<1>8. Restart \/ UNCHANGED vars => UNCHANGED fn
  BY DEF Restart, vars, server
<1>. QED
  BY <1>2, <1>3, <1>4, <1>5, <1>6, <1>7, <1>8 DEF Next

\* The controller and the user together keep to the finalizer protocol of
\* spec 3 and 4.4 (FinalizerProtocol) for the HTTPTrigger objects and for
\* the Function objects: whatever the caches hold when processItem and
\* functionAddedDeletedUpdated write, a guarded object is unguarded only
\* once it is being deleted, and nothing comes back but through a create.
THEOREM RefinementThm == Spec => ImplementsFinalizerProtocol
<1>1. Init => TrigProtocol!Init /\ FnProtocol!Init
  BY DEF Init, TrigProtocol!Init, FnProtocol!Init, TrigStatus, FnStatus,
         StatusOf, Never
<1>2. TypeOK /\ AllCollected /\ [Next]_vars
        => [TrigProtocol!Next]_TrigStatus /\ [FnProtocol!Next]_FnStatus
  BY TrigRefStep, FnRefStep
<1>. QED
  BY <1>1, <1>2, TypeCorrect, CollectedInvariant, PTL
  DEF Spec, ImplementsFinalizerProtocol, TrigProtocol!Spec, FnProtocol!Spec
=============================================================================
