--------------------------- MODULE MCSessionLoop ---------------------------
(***************************************************************************)
(* Instances of SessionLoop.                                               *)
(***************************************************************************)
EXTENDS SessionLoop

\* One session per user, the older one evicted; two sessions side by side with
\* queues of one message.
KickOrShare ==
    {[capacity |-> 2, max_per_user |-> 1, on_exceed |-> "KickOldest",
      hot_sys_error |-> FALSE, needs_room |-> FALSE],
     [capacity |-> 1, max_per_user |-> 2, on_exceed |-> "Deny",
      hot_sys_error |-> TRUE, needs_room |-> TRUE]}

Alone ==
    {[capacity |-> 2, max_per_user |-> 1, on_exceed |-> "Deny",
      hot_sys_error |-> TRUE, needs_room |-> TRUE]}
=============================================================================
