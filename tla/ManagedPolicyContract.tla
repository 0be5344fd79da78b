------------------------ MODULE ManagedPolicyContract ------------------------
(***************************************************************************)
(* What the processes of the controller may do to the managed              *)
(* NetworkPolicy, whatever way their calls are arranged: each takes up the *)
(* policy as it knows it, settles on one whole list of CIDRs, makes sure   *)
(* that the object is its own, and only then brings the object in line,    *)
(* once. It may give up at any point and start over.                       *)
(*                                                                         *)
(* The duty of a process is the policy it took up, the list it settled on, *)
(* and how far it has come.                                                *)
(***************************************************************************)

CONSTANTS
    None,
    Instances,          \* the processes
    Lists(_, _),        \* the lists a spec stands for while the sources serve what they do
    Foreign(_, _),      \* whether an object is not the policy's own
    InForce(_, _, _)    \* whether an object is what a policy asks for with a list

VARIABLES
    policy,     \* the policy in the cluster
    netpol,     \* the object of the managed name
    remote,     \* what the sources serve
    known,      \* the policy as each process knows it
    duty        \* what each process is doing

vars == <<policy, netpol, remote, known, duty>>
world == <<policy, netpol, remote>>

Free == [phase |-> "free", pol |-> None, cidrs |-> <<>>]

Init == known = [i \in Instances |-> None] /\ duty = [i \in Instances |-> Free]

Become(i, phase) == duty' = [duty EXCEPT ![i].phase = phase]

\* A policy under deletion needs no list.
Prepared(i) ==
    /\ duty[i].phase \in {"held", "resolved"}
    /\ duty[i].pol.deleting <=> duty[i].phase = "held"

TakeUp(i) ==
    /\ duty[i] = Free /\ known[i] # None
    /\ duty' = [duty EXCEPT ![i] = [phase |-> "held", pol |-> known[i], cidrs |-> <<>>]]
    /\ UNCHANGED <<world, known>>

Resolve(i) ==
    /\ duty[i].phase = "held" /\ ~duty[i].pol.deleting
    /\ \E cidrs \in Lists(duty[i].pol.spec, remote) :
          duty' = [duty EXCEPT ![i].phase = "resolved", ![i].cidrs = cidrs]
    /\ UNCHANGED <<world, known>>

\* The object is not there or the policy's own: it may be changed.
Clear(i) ==
    /\ Prepared(i) /\ (netpol # None => ~Foreign(duty[i].pol, netpol))
    /\ Become(i, "cleared")
    /\ UNCHANGED <<world, known>>

\* The object is somebody else's: this duty ends without a change.
Refuse(i) ==
    /\ Prepared(i) /\ netpol # None /\ Foreign(duty[i].pol, netpol)
    /\ Become(i, "refused")
    /\ UNCHANGED <<world, known>>

\* The object is as it should be.
Confirm(i) ==
    /\ Prepared(i)
    /\ IF duty[i].pol.deleting THEN netpol = None
       ELSE netpol # None /\ InForce(duty[i].pol, duty[i].cidrs, netpol)
    /\ Become(i, "settled")
    /\ UNCHANGED <<world, known>>

\* The one change of the object; whoever makes it may not learn that it took effect.
Enforce(i) ==
    /\ duty[i].phase = "cleared"
    /\ IF duty[i].pol.deleting THEN netpol' = None
       ELSE netpol' # None /\ InForce(duty[i].pol, duty[i].cidrs, netpol')
    /\ Become(i, "settled") \/ duty' = [duty EXCEPT ![i] = Free]
    /\ UNCHANGED <<policy, remote, known>>

GiveUp(i) ==
    /\ duty' = [duty EXCEPT ![i] = Free]
    /\ UNCHANGED <<world, known>>

Learn(i) ==
    /\ known' = [known EXCEPT ![i] = policy]
    /\ UNCHANGED <<world, duty>>

Restart(i) ==
    /\ known' = [known EXCEPT ![i] = None]
    /\ duty' = [duty EXCEPT ![i] = Free]
    /\ UNCHANGED world

\* Users, sources and the garbage collector do what they like.
Others == UNCHANGED <<known, duty>>

Next ==
    \/ \E i \in Instances :
          \/ TakeUp(i) \/ Resolve(i) \/ Clear(i) \/ Refuse(i) \/ Confirm(i) \/ Enforce(i)
          \/ GiveUp(i) \/ Learn(i) \/ Restart(i)
    \/ Others

Spec == Init /\ [][Next]_vars
=============================================================================
