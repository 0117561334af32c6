------------------------- MODULE HTTPTriggerController -------------------------
(***************************************************************************)
(* The HTTP trigger controller of kubeless                                 *)
(* (src/pkg/controller/http_trigger_controller.go) together with the parts *)
(* of its environment it interacts with:                                   *)
(*                                                                         *)
(*  - the API server's copy of every HTTPTrigger and Function object:      *)
(*    whether it exists, how many copies of the controller's finalizer it  *)
(*    carries and whether its deletion timestamp is set, with the          *)
(*    garbage-collection rule "a deleted object goes away once it carries  *)
(*    no finalizer";                                                       *)
(*  - the two informer caches the controller reads (they lag behind the    *)
(*    API server and are brought up to date by watch events, which also    *)
(*    run the event handlers);                                             *)
(*  - the rate-limited work queue of trigger keys, with its per-key        *)
(*    requeue counter and the delayed re-adds of AddRateLimited;           *)
(*  - the user, who creates and deletes functions and triggers;            *)
(*  - transient API errors and restarts of the controller.                 *)
(*                                                                         *)
(* Writes of the controller are updates of a cached copy; the API server   *)
(* refuses an update whose copy is not the current object (resource        *)
(* version conflict, or NotFound once the object is gone).  An object's    *)
(* content stands for its resource version: a write from a copy that is    *)
(* equal to the current object has the same effect as one from a fresh     *)
(* read.                                                                   *)
(***************************************************************************)
EXTENDS Naturals, FiniteSets

CONSTANTS
    Triggers,       \* names (namespace/name keys) of HTTPTrigger objects
    Functions,      \* names of Function objects
    FunctionOf,     \* httpTrigger.Spec.FunctionName of each trigger
    MaxRetries,     \* httpTriggerMaxRetries
    MaxFailures,    \* bound on transient API errors in a behaviour
    MaxUserOps,     \* bound on create/delete calls of the user
    MaxRestarts     \* bound on restarts of the controller process

ASSUME FunctionOfAssumption == FunctionOf \in [Triggers -> Functions]
ASSUME BoundsAssumption ==
    /\ MaxRetries \in Nat
    /\ MaxFailures \in Nat
    /\ MaxUserOps \in Nat
    /\ MaxRestarts \in Nat

VARIABLES
    trig,        \* API server: trig[t] is HTTPTrigger t
    fn,          \* API server: fn[f] is Function f
    trigCache,   \* httpTriggerInformer's store
    fnCache,     \* functionInformer's store (the Lister)
    queue,       \* keys waiting in the work queue (deduplicated)
    waiting,     \* keys handed to AddRateLimited whose delay has not elapsed
    requeues,    \* queue.NumRequeues(key)
    gaveUpAfter, \* attempts of the last retry series of a key that was given up
    failures,    \* transient API errors so far
    userOps,     \* user calls so far
    restarts     \* controller restarts so far

server == <<trig, fn>>
caches == <<trigCache, fnCache>>
ctrl   == <<queue, waiting, requeues, gaveUpAfter>>
budget == <<failures, userOps, restarts>>
vars   == <<server, caches, ctrl, budget>>

-----------------------------------------------------------------------------
(* Objects.  fin counts the copies of the HTTP trigger finalizer           *)
(* "kubeless.io/httptrigger" in ObjectMeta.Finalizers; inc counts the      *)
(* objects created under the name, so that a re-created object differs    *)
(* from the deleted one (its UID and resource version do).  Within one     *)
(* incarnation every write changes fin or deleting, and neither ever goes  *)
(* back to an earlier value, so equal content means equal resource version.*)

\* An object that is gone keeps nothing but its name's incarnation count.
Obj == {o \in [exists : BOOLEAN, fin : Nat, deleting : BOOLEAN, inc : Nat] :
          ~o.exists => o.fin = 0 /\ ~o.deleting}
Absent(o) == [exists |-> FALSE, fin |-> 0, deleting |-> FALSE, inc |-> o.inc]
Fresh(o)  == [exists |-> TRUE,  fin |-> 0, deleting |-> FALSE, inc |-> o.inc + 1]
Never == [exists |-> FALSE, fin |-> 0, deleting |-> FALSE, inc |-> 0]

\* httpTriggerObjHasFinalizer / utils.FunctionObjHasFinalizer
HasFinalizer(o) == o.fin > 0

\* httpTriggerObjAddFinalizer / FunctionObjAddFinalizer: append one copy
AddFinalizer(o) ==
    [exists |-> o.exists, fin |-> o.fin + 1, deleting |-> o.deleting, inc |-> o.inc]

\* httpTriggerObjRemoveFinalizer / FunctionObjRemoveFinalizer: drop every copy
RemoveFinalizer(o) ==
    [exists |-> o.exists, fin |-> 0, deleting |-> o.deleting, inc |-> o.inc]

\* The deletion timestamp is set.
MarkDeleted(o) ==
    [exists |-> o.exists, fin |-> o.fin, deleting |-> TRUE, inc |-> o.inc]

\* The API server removes a deleted object once no finalizer is left.
Persist(o) == IF o.deleting /\ o.fin = 0 THEN Absent(o) ELSE o

\* A write may fail with a transient error while the budget lasts.
TransientError == failures < MaxFailures /\ failures' = failures + 1

(***************************************************************************)
(* UpdateHTTPTriggerCustomResource(obj) from the cached copy `cached`:     *)
(* err is the error the call returns.                                      *)
(***************************************************************************)
UpdateHTTPTriggerCustomResource(t, cached, new, err) ==
    \/ /\ ~err /\ trig[t] = cached
       /\ trig' = [trig EXCEPT ![t] = Persist(new)]
       /\ UNCHANGED failures
    \/ /\ err /\ trig[t] # cached /\ UNCHANGED <<trig, failures>>
    \/ /\ err /\ trig[t] = cached /\ TransientError /\ UNCHANGED trig

\* UpdateFunctionCustomResource, used by FunctionObj{Add,Remove}Finalizer
UpdateFunctionCustomResource(f, cached, new, err) ==
    \/ /\ ~err /\ fn[f] = cached
       /\ fn' = [fn EXCEPT ![f] = Persist(new)]
       /\ UNCHANGED failures
    \/ /\ err /\ fn[f] # cached /\ UNCHANGED <<fn, failures>>
    \/ /\ err /\ fn[f] = cached /\ TransientError /\ UNCHANGED fn

-----------------------------------------------------------------------------
Init ==
    /\ trig = [t \in Triggers |-> Never]
    /\ fn = [f \in Functions |-> Never]
    /\ trigCache = trig
    /\ fnCache = fn
    /\ queue = {}
    /\ waiting = {}
    /\ requeues = [t \in Triggers |-> 0]
    /\ gaveUpAfter = [t \in Triggers |-> 0]
    /\ failures = 0
    /\ userOps = 0
    /\ restarts = 0

-----------------------------------------------------------------------------
(* The user.                                                               *)

UserCall == userOps < MaxUserOps /\ userOps' = userOps + 1

\* CreateK8sCustomResource: POST of a new Function
CreateFunction(f) ==
    /\ UserCall
    /\ ~fn[f].exists
    /\ fn' = [fn EXCEPT ![f] = Fresh(@)]
    /\ UNCHANGED <<trig, caches, ctrl, failures, restarts>>

\* `kubeless function delete`: DeleteK8sCustomResource sets the deletion
\* timestamp; the object goes at once if it carries no finalizer.
DeleteFunction(f) ==
    /\ UserCall
    /\ fn[f].exists /\ ~fn[f].deleting
    /\ fn' = [fn EXCEPT ![f] = Persist(MarkDeleted(@))]
    /\ UNCHANGED <<trig, caches, ctrl, failures, restarts>>

\* `kubeless trigger http create`: the function must exist, then the
\* trigger is created without finalizers.
CreateTrigger(t) ==
    /\ UserCall
    /\ fn[FunctionOf[t]].exists
    /\ ~trig[t].exists
    /\ trig' = [trig EXCEPT ![t] = Fresh(@)]
    /\ UNCHANGED <<fn, caches, ctrl, failures, restarts>>

\* Deletion of an HTTPTrigger object through the API.
DeleteTrigger(t) ==
    /\ UserCall
    /\ trig[t].exists /\ ~trig[t].deleting
    /\ trig' = [trig EXCEPT ![t] = Persist(MarkDeleted(@))]
    /\ UNCHANGED <<fn, caches, ctrl, failures, restarts>>

-----------------------------------------------------------------------------
(* The informers.                                                          *)

\* (mutant) UpdateFunc not registered: only additions are queued
SyncTriggerAddOnly(t) ==
    /\ trigCache[t] # trig[t]
    /\ trigCache' = [trigCache EXCEPT ![t] = trig[t]]
    /\ queue' = IF trigCache[t].exists THEN queue ELSE queue \cup {t}
    /\ UNCHANGED <<server, fnCache, waiting, requeues, gaveUpAfter, budget>>

\* (mutant) AddFunc not registered: a new trigger is not queued
SyncTriggerNoAdd(t) ==
    /\ trigCache[t] # trig[t]
    /\ trigCache' = [trigCache EXCEPT ![t] = trig[t]]
    /\ queue' = IF trigCache[t].exists THEN queue \cup {t} ELSE queue
    /\ UNCHANGED <<server, fnCache, waiting, requeues, gaveUpAfter, budget>>

\* A watch event for trigger t reaches the store; AddFunc, UpdateFunc and
\* DeleteFunc all queue.Add(key).
SyncTrigger(t) ==
    /\ trigCache[t] # trig[t]
    /\ trigCache' = [trigCache EXCEPT ![t] = trig[t]]
    /\ queue' = queue \cup {t}
    /\ UNCHANGED <<server, fnCache, waiting, requeues, gaveUpAfter, budget>>

\* (mutant) the deletion-timestamp check is dropped from the handler
functionAddedDeletedUpdatedNoDeletingCheck(f, obj, deleted) ==
    \/ /\ deleted \/ ~HasFinalizer(obj)
       /\ UNCHANGED <<fn, failures>>
    \/ /\ ~deleted /\ HasFinalizer(obj)
       /\ \E err \in BOOLEAN :
            UpdateFunctionCustomResource(f, obj, RemoveFinalizer(obj), err)

\* functionAddedDeletedUpdated(obj, deleted): the error of
\* FunctionObjRemoveFinalizer is only logged.
functionAddedDeletedUpdated(f, obj, deleted) ==
    \/ /\ deleted \/ ~obj.deleting \/ ~HasFinalizer(obj)
       /\ UNCHANGED <<fn, failures>>
    \/ /\ ~deleted /\ obj.deleting /\ HasFinalizer(obj)
       /\ \E err \in BOOLEAN :
            UpdateFunctionCustomResource(f, obj, RemoveFinalizer(obj), err)

\* A watch event for function f reaches the store and runs the handler.
SyncFunction(f) ==
    /\ fnCache[f] # fn[f]
    /\ fnCache' = [fnCache EXCEPT ![f] = fn[f]]
    /\ functionAddedDeletedUpdated(f, fn[f], ~fn[f].exists)
    /\ UNCHANGED <<trig, trigCache, ctrl, userOps, restarts>>

-----------------------------------------------------------------------------
(* The worker: processNextItem and processItem.                            *)

\* (mutant) || for && in the deletion check of processItem
MarkedForDeletionOr(c) == c.deleting \/ HasFinalizer(c)

\* processItem's "DeletionTimestamp != nil && httpTriggerObjHasFinalizer"
MarkedForDeletion(c) == c.deleting /\ HasFinalizer(c)

\* (mutant) the return after removing the trigger's finalizer is missing:
\* the call goes on to link the function
processItemNoReturn(t, err) ==
    LET c  == trigCache[t]
        fc == fnCache[FunctionOf[t]]
    IN
    \/ /\ ~c.exists /\ ~err
       /\ UNCHANGED <<server, failures>>
    \/ /\ c.exists /\ MarkedForDeletion(c)
       /\ \/ /\ UpdateHTTPTriggerCustomResource(t, c, RemoveFinalizer(c), err)
             /\ UNCHANGED fn
          \/ /\ ~err /\ trig[t] = c /\ fc.exists /\ ~HasFinalizer(fc) /\ fn[FunctionOf[t]] = fc
             /\ trig' = [trig EXCEPT ![t] = Persist(RemoveFinalizer(c))]
             /\ fn' = [fn EXCEPT ![FunctionOf[t]] = Persist(AddFinalizer(fc))]
             /\ UNCHANGED failures
    \/ /\ c.exists /\ ~MarkedForDeletion(c) /\ ~HasFinalizer(c)
       /\ UpdateHTTPTriggerCustomResource(t, c, AddFinalizer(c), err)
       /\ UNCHANGED fn
    \/ /\ c.exists /\ ~MarkedForDeletion(c) /\ HasFinalizer(c)
       /\ \/ /\ ~fc.exists /\ err
             /\ UNCHANGED <<server, failures>>
          \/ /\ fc.exists /\ HasFinalizer(fc) /\ ~err
             /\ UNCHANGED <<server, failures>>
          \/ /\ fc.exists /\ ~HasFinalizer(fc) /\ ~err
             /\ \E ferr \in BOOLEAN :
                  UpdateFunctionCustomResource(FunctionOf[t], fc,
                                               AddFinalizer(fc), ferr)
             /\ UNCHANGED trig

\* processItem(key), reading the trigger and its function from the caches
processItem(t, err) ==
    LET c  == trigCache[t]
        fc == fnCache[FunctionOf[t]]
    IN
    \/ /\ ~c.exists /\ ~err
       /\ UNCHANGED <<server, failures>>
    \/ /\ c.exists /\ MarkedForDeletion(c)
       /\ UpdateHTTPTriggerCustomResource(t, c, RemoveFinalizer(c), err)
       /\ UNCHANGED fn
    \/ /\ c.exists /\ ~MarkedForDeletion(c) /\ ~HasFinalizer(c)
       /\ UpdateHTTPTriggerCustomResource(t, c, AddFinalizer(c), err)
       /\ UNCHANGED fn
    \/ /\ c.exists /\ ~MarkedForDeletion(c) /\ HasFinalizer(c)
       /\ \/ /\ ~fc.exists /\ err
             /\ UNCHANGED <<server, failures>>
          \/ /\ fc.exists /\ HasFinalizer(fc) /\ ~err
             /\ UNCHANGED <<server, failures>>
          \/ /\ fc.exists /\ ~HasFinalizer(fc) /\ ~err
             /\ \E ferr \in BOOLEAN :
                  UpdateFunctionCustomResource(FunctionOf[t], fc,
                                               AddFinalizer(fc), ferr)
             /\ UNCHANGED trig

\* (mutant) NumRequeues(key) <= MaxRetries
RetryableOffByOne(t) == requeues[t] <= MaxRetries

\* processNextItem's "c.queue.NumRequeues(key) < triggerMaxRetries"
Retryable(t) == requeues[t] < MaxRetries

\* processNextItem: Forget on success, AddRateLimited while
\* NumRequeues(key) < httpTriggerMaxRetries, else give up and Forget.
HandleErr(t, err) ==
    \/ /\ ~err
       /\ requeues' = [requeues EXCEPT ![t] = 0]
       /\ UNCHANGED <<waiting, gaveUpAfter>>
    \/ /\ err /\ Retryable(t)
       /\ requeues' = [requeues EXCEPT ![t] = @ + 1]
       /\ waiting' = waiting \cup {t}
       /\ UNCHANGED gaveUpAfter
    \/ /\ err /\ ~Retryable(t)
       /\ requeues' = [requeues EXCEPT ![t] = 0]
       /\ gaveUpAfter' = [gaveUpAfter EXCEPT ![t] = requeues[t] + 1]
       /\ UNCHANGED waiting

ProcessNextItem(t) ==
    /\ t \in queue
    /\ queue' = queue \ {t}
    /\ \E err \in BOOLEAN : processItem(t, err) /\ HandleErr(t, err)
    /\ UNCHANGED <<caches, userOps, restarts>>

\* The rate limiter's delay for a key has elapsed: queue.Add(key).
RetryFire(t) ==
    /\ t \in waiting
    /\ waiting' = waiting \ {t}
    /\ queue' = queue \cup {t}
    /\ UNCHANGED <<server, caches, requeues, gaveUpAfter, budget>>

\* The controller process restarts: a new queue, a trigger store listed
\* and synced before the worker starts (HasSynced waits for it only), and
\* a function store that is still empty; the list queues every trigger.
Restart ==
    /\ restarts < MaxRestarts
    /\ restarts' = restarts + 1
    /\ trigCache' = trig
    /\ fnCache' = [f \in Functions |-> Absent(fn[f])]
    /\ queue' = {t \in Triggers : trig[t].exists}
    /\ waiting' = {}
    /\ requeues' = [t \in Triggers |-> 0]
    /\ UNCHANGED <<server, gaveUpAfter, failures, userOps>>

-----------------------------------------------------------------------------
Next ==
    \/ \E f \in Functions : CreateFunction(f) \/ DeleteFunction(f)
    \/ \E t \in Triggers : CreateTrigger(t) \/ DeleteTrigger(t)
    \/ \E t \in Triggers : SyncTrigger(t)
    \/ \E f \in Functions : SyncFunction(f)
    \/ \E t \in Triggers : ProcessNextItem(t) \/ RetryFire(t)
    \/ Restart

\* The watch loops, the worker (wait.Until(c.runWorker)) and the rate
\* limiter's timers keep running; the user need not do anything.
Fairness ==
    /\ \A t \in Triggers :
          /\ WF_vars(SyncTrigger(t))
          /\ WF_vars(ProcessNextItem(t))
          /\ WF_vars(RetryFire(t))
    /\ \A f \in Functions : WF_vars(SyncFunction(f))

Spec == Init /\ [][Next]_vars
FairSpec == Spec /\ Fairness

-----------------------------------------------------------------------------
(* Properties.                                                             *)

TypeOK ==
    /\ trig \in [Triggers -> Obj]
    /\ fn \in [Functions -> Obj]
    /\ trigCache \in [Triggers -> Obj]
    /\ fnCache \in [Functions -> Obj]
    /\ queue \subseteq Triggers
    /\ waiting \subseteq Triggers
    /\ requeues \in [Triggers -> 0..MaxRetries]
    /\ gaveUpAfter \in [Triggers -> Nat]
    /\ failures \in 0..MaxFailures
    /\ userOps \in 0..MaxUserOps
    /\ restarts \in 0..MaxRestarts

\* processItem reads the trigger from a store that may lag behind the API
\* server, yet a Function gains the trigger finalizer only while a trigger
\* that references it exists on the server and carries its own finalizer,
\* so that the trigger's deletion must still pass through the controller.
FunctionLinkedOnlyForGuardedTrigger ==
    [][\A f \in Functions :
         (~HasFinalizer(fn[f]) /\ HasFinalizer(fn'[f]))
            => \E t \in Triggers :
                   FunctionOf[t] = f /\ trig'[t].exists /\ HasFinalizer(trig'[t])
      ]_vars

\* The controller takes its finalizer off a trigger only once that trigger
\* is being deleted, even when the cache still holds an older incarnation
\* of a trigger of the same name.
FinalizerRemovedOnlyOnDeletion ==
    [][\A t \in Triggers :
         (HasFinalizer(trig[t]) /\ ~HasFinalizer(trig'[t])) => trig[t].deleting
      ]_vars

\* Every trigger whose deletion was requested is eventually gone.
TriggerDeletionCompletes ==
    \A t \in Triggers : trig[t].deleting ~> ~trig[t].deleting

\* Every live trigger eventually carries the controller's finalizer.
TriggerEventuallyFinalized ==
    \A t \in Triggers :
        (trig[t].exists /\ ~trig[t].deleting /\ ~HasFinalizer(trig[t]))
          ~> (HasFinalizer(trig[t]) \/ ~trig[t].exists \/ trig[t].deleting)

\* Spec 8: a Function that carries the trigger finalizer is not garbage
\* collected while a live trigger still references it.
FunctionFinalizerBlocksDeletion ==
    [][\A f \in Functions :
         (fn[f].exists /\ HasFinalizer(fn[f]) /\ ~fn'[f].exists)
            => ~\E t \in Triggers :
                   FunctionOf[t] = f /\ trig[t].exists /\ ~trig[t].deleting
      ]_vars

\* Spec 8: a key whose reconcile keeps failing is attempted at most
\* httpTriggerMaxRetries (5) times before it is dropped.
RetryCeiling == \A t \in Triggers : gaveUpAfter[t] <= MaxRetries

\* Spec 3: a Function carries a trigger finalizer for every live Trigger
\* that references it, attached by processItem: while a trigger and its
\* function both stay live, the function eventually carries the finalizer.
TriggerEventuallyLinked ==
    \A t \in Triggers :
        LET Linkable == /\ trig[t].exists /\ ~trig[t].deleting
                        /\ fn[FunctionOf[t]].exists /\ ~fn[FunctionOf[t]].deleting
        IN  Linkable ~> (~Linkable \/ HasFinalizer(fn[FunctionOf[t]]))

\* The deletion of a Function is eventually completed by the controller
\* removing its finalizer.
FunctionDeletionCompletes ==
    \A f \in Functions : fn[f].deleting ~> ~fn[f].deleting

-----------------------------------------------------------------------------
(* Refinement of the finalizer protocol.  The status of a server object   *)
(* is read off its deletion timestamp and finalizer; the triggers and the  *)
(* functions each implement FinalizerProtocol under that mapping.          *)

StatusOf(o) ==
    IF ~o.exists THEN "absent"
    ELSE IF o.deleting THEN "terminating"
    ELSE IF HasFinalizer(o) THEN "guarded"
    ELSE "live"

TrigStatus == [t \in Triggers |-> StatusOf(trig[t])]
FnStatus == [f \in Functions |-> StatusOf(fn[f])]

TrigProtocol == INSTANCE FinalizerProtocol WITH Objects <- Triggers, status <- TrigStatus
FnProtocol == INSTANCE FinalizerProtocol WITH Objects <- Functions, status <- FnStatus

\* Whatever the caches, the queue and the restarts do, every step of the
\* controller and its users moves each trigger and each function along the
\* finalizer protocol: created live, guarded by the finalizer, deleted,
\* terminating until the finalizer is released, and gone.
ImplementsFinalizerProtocol == TrigProtocol!Spec /\ FnProtocol!Spec
=============================================================================
