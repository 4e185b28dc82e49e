----------------------------- MODULE Admission -----------------------------
(***************************************************************************)
(* What the session registry promises to a tenant: max_sessions_total      *)
(* slots.  A connection takes a slot or is turned away, keeps the slot     *)
(* until it ends or is evicted, and a tenant that evicts turns nobody away *)
(* while it has a free slot.                                               *)
(***************************************************************************)
EXTENDS Integers, FiniteSets

CONSTANTS
    Conns,     \* connections
    Tenant,    \* the tenant of a connection
    MaxTotal,  \* slots of a tenant, 0 = unlimited
    OnExceed   \* what a tenant does about too many sessions of one user

VARIABLE status  \* "outside", "inside": with a slot, "gone"

Holders(t) == {c \in Conns : status[c] = "inside" /\ Tenant[c] = t}

Free(t) == MaxTotal[t] = 0 \/ Cardinality(Holders(t)) < MaxTotal[t]

Becomes(c, from, to) ==
    status[c] = from /\ status' = [status EXCEPT ![c] = to]

Init == status = [c \in Conns |-> "outside"]

Enter(c) == Free(Tenant[c]) /\ Becomes(c, "outside", "inside")

TurnAway(c) ==
    /\ OnExceed[Tenant[c]] = "Deny" \/ ~Free(Tenant[c])
    /\ Becomes(c, "outside", "gone")

Release(c) == Becomes(c, "inside", "gone")

Next == \E c \in Conns : Enter(c) \/ TurnAway(c) \/ Release(c)

Spec == Init /\ [][Next]_status
=============================================================================
