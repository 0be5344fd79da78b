------------------------ MODULE ReconcilerRefinement ------------------------
(***************************************************************************)
(* Reconciler as an implementation of ManagedPolicyContract: the reflector *)
(* store is what a process knows, and the await a reconcile is at says how *)
(* far its duty has come.                                                  *)
(***************************************************************************)
EXTENDS Reconciler

Phase(r) ==
    CASE r.pc = "idle" -> "free"
      [] r.pc \in {"invalid", "pointer", "fetch"} -> "held"
      [] r.pc = "get" -> IF r.pol.deleting THEN "held" ELSE "resolved"
      [] r.pc = "collision" -> "refused"
      [] r.pc \in {"apply", "cleanupDelete"} -> "cleared"
      [] r.pc \in {"status", "event", "cleanupEvent"} -> "settled"

Duty(r) == [phase |-> Phase(r), pol |-> r.pol, cidrs |-> r.cidrs]

\* The lists a spec stands for when its final source is asked now.
ListsNow(spec, served) == UNION {Yields(served[src]) : src \in Finals(spec)}

\* Whether an object is provably the policy's own, and then reads as its rendering with a list.
NotOwn(pol, np) == ~(np.marked /\ np.owner = pol.uid)
ReadsAsDesired(pol, list, np) ==
    ~NotOwn(pol, np) /\ Returned(np.spec) = Returned(RenderSpec(pol.spec, list))

Contract ==
    INSTANCE ManagedPolicyContract
    WITH known <- store, duty <- [i \in Instances |-> Duty(rec[i])],
         Lists <- ListsNow, Foreign <- NotOwn, InForce <- ReadsAsDesired

\* The controller changes the NetworkPolicy only in the way of the contract: a process acts on the
\* policy it was told of, with one whole list a source of that policy served, after it made sure that
\* the object is its own, once for each time it made sure; a policy under deletion leads to a deletion
\* and to nothing else (reconcile, cleanup).
ImplementsContract == Contract!Spec
=============================================================================
