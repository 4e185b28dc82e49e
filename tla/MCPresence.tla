----------------------------- MODULE MCPresence -----------------------------
(***************************************************************************)
(* Instances of Presence: sessions s1 and s2 of user u1, s3 of user u2.    *)
(***************************************************************************)
EXTENDS Presence

CONSTANTS s1, s2, s3, u1, u2, r1, r2, r3

MCUserOf == [s \in Sessions |-> IF s = s3 THEN u2 ELSE u1]
=============================================================================
