------------------------- MODULE MCSessionRegistry -------------------------
(***************************************************************************)
(* Instances of SessionRegistry: connections of one user of one tenant,    *)
(* with a session key each or with c1 and c2 sharing a sid; or of a user   *)
(* in each of two tenants, both with a sid that two connections share.     *)
(***************************************************************************)
EXTENDS SessionRegistry, TLC

CONSTANTS c1, c2, c3, c4, k1, k2, k3, k4, u1, u2, t1, t2

OwnKeyOf == [c \in Conns |->
    CASE c = c1 -> k1 [] c = c2 -> k2 [] c = c3 -> k3 [] c = c4 -> k4]
SharedKeyOf == [c \in Conns |-> IF c \in {c1, c2} THEN k1 ELSE OwnKeyOf[c]]

\* Connections are alike, each together with its own session key.
WithOwnKey(p) == [x \in Conns \cup Keys |->
    IF x \in Conns THEN p[x]
    ELSE OwnKeyOf[p[CHOOSE c \in Conns : OwnKeyOf[c] = x]]]
Symmetry == {WithOwnKey(p) : p \in Permutations(Conns)}

OneUserOf == [k \in Keys |-> u1]
OneTenantOf == [u \in Users |-> t1]

\* c1 and c2 in t1, which evicts; c3 and c4 in t2, which denies.
TwoKeyOf == [c \in Conns |-> IF c \in {c1, c2} THEN k1 ELSE k2]
TwoUserOf == [k \in Keys |-> IF k = k2 THEN u2 ELSE u1]
TwoTenantOf == [u \in Users |-> IF u = u2 THEN t2 ELSE t1]
KickOrDeny == [t \in Tenants |-> IF t = t2 THEN "Deny" ELSE "KickOldest"]

Of(n) == [t \in Tenants |-> n]
Cap2 == Of(2)
PerUser1 == Of(1)
PerUser2 == Of(2)
Deny == Of("Deny")
Kick == Of("KickOldest")
=============================================================================
