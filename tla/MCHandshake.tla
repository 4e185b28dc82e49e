---------------------------- MODULE MCHandshake ----------------------------
(***************************************************************************)
(* An instance of Handshake.                                               *)
(***************************************************************************)
EXTENDS Handshake, TLC

CONSTANTS r1, r2, r3, i1, i2

\* Two requests from one address and one from another, whose shards differ.
MCIpOf == r1 :> i1 @@ r2 :> i1 @@ r3 :> i2
MCShardOf == i1 :> 1 @@ i2 :> 2
=============================================================================
