--------------------------- MODULE FinalizerProtocol ---------------------------
(***************************************************************************)
(* What the finalizer protocol promises about the objects of one kind, as  *)
(* the API server stores them (spec 3 and 4.4): an object is created live  *)
(* without a finalizer; a controller may guard a live object with its      *)
(* finalizer; deleting an unguarded object removes it at once, deleting a  *)
(* guarded one only sets its deletion timestamp; and a terminating object  *)
(* is removed once its finalizer is released.  Nothing else happens to an  *)
(* object: a guarded object is never unguarded while live, and an object   *)
(* that is gone only comes back through a create.                          *)
(*                                                                         *)
(* HTTPTriggerController implements this specification for its triggers   *)
(* and for its functions (HTTPTriggerController_refinement).               *)
(***************************************************************************)
CONSTANT Objects

VARIABLE status   \* status[o]: "absent", "live", "guarded" or "terminating"

Status == {"absent", "live", "guarded", "terminating"}

Init == status = [o \in Objects |-> "absent"]

Move(o, from, to) ==
    /\ status[o] = from
    /\ status' = [status EXCEPT ![o] = to]

Create(o)  == Move(o, "absent", "live")
Guard(o)   == Move(o, "live", "guarded")
Delete(o)  == Move(o, "live", "absent") \/ Move(o, "guarded", "terminating")
Release(o) == Move(o, "terminating", "absent")

Next == \E o \in Objects : Create(o) \/ Guard(o) \/ Delete(o) \/ Release(o)

Spec == Init /\ [][Next]_status

TypeOK == status \in [Objects -> Status]
=============================================================================
