----------------------------- MODULE AllowedSet -----------------------------
(***************************************************************************)
(* What an allowlist promises its owner: a set of program ids that grows   *)
(* and shrinks by the one id each call names, and never holds the program  *)
(* itself.  Nothing here knows of slots, of a count or of an order         *)
(* (programs/solora/src/lib.rs, add_allowed_program and                    *)
(* remove_allowed_program).                                                *)
(***************************************************************************)
CONSTANTS Programs, Solora

VARIABLE allowed    \* the ids a CPI may target

Init == allowed = {}

Allow(p) ==
    /\ p # Solora
    /\ p \notin allowed
    /\ allowed' = allowed \cup {p}

Disallow(p) ==
    /\ p \in allowed
    /\ allowed' = allowed \ {p}

Next == \E p \in Programs : Allow(p) \/ Disallow(p)

Spec == Init /\ [][Next]_allowed
=============================================================================
