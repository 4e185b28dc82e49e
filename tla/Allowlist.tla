----------------------------- MODULE Allowlist -----------------------------
(***************************************************************************)
(* Allowlists (policy/allowlist.rs).  An entry as it is written is the     *)
(* sequence of what stands before and after its first colon.               *)
(***************************************************************************)
EXTENDS Naturals, Sequences

CONSTANTS
    ParseU8,  \* str::parse: from the texts of numbers below 256 to these
    None

\* compile_ext_rules, compile_hot_rules: an entry without a colon, and a hot
\* entry that is not made of numbers, is an error.
Colon(raw) == Len(raw) = 2
Number(s) == s \in DOMAIN ParseU8
ExtCompiles(list) == \A raw \in list : Colon(raw)
HotCompiles(list) ==
    \A raw \in list :
        Colon(raw) /\ Number(raw[1]) /\ (raw[2] = "*" \/ Number(raw[2]))

ExtRule(raw) == [svc |-> raw[1], type |-> IF raw[2] = "*" THEN None ELSE raw[2]]
HotRule(raw) ==
    [svc |-> ParseU8[raw[1]], type |-> IF raw[2] = "*" THEN None ELSE ParseU8[raw[2]]]

\* Mutant: a wildcard stands for every service.
AllowedEverywhere(rules, svc, type) ==
    \E r \in rules : (r.svc = svc /\ r.type = type) \/ r.type = None

\* is_ext_allowed, is_hot_allowed.
IsAllowed(rules, svc, type) ==
    \E r \in rules : r.svc = svc /\ (r.type = None \/ r.type = type)
=============================================================================
