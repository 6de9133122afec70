----------------------------- MODULE Allowlist ------------------------------
(***************************************************************************)
(* The allowlist of one wallet as a state machine: its owner calls         *)
(* add_allowed_program and remove_allowed_program in any order             *)
(* (programs/solora/src/lib.rs:156-208).  Shown to implement AllowedSet.   *)
(***************************************************************************)
EXTENDS Policy

VARIABLE policy

Init == policy = EmptyPolicy

AddAllowedProgram(p) ==
    /\ MayAdd(policy, p)
    /\ policy' = WithProgram(policy, p)

RemoveAllowedProgram(p) ==
    /\ Contains(policy, p)
    /\ policy' = WithoutProgram(policy, p)

Next == \E p \in Programs : AddAllowedProgram(p) \/ RemoveAllowedProgram(p)

Spec == Init /\ [][Next]_policy

-----------------------------------------------------------------------------

\* Type invariant: the array keeps its length and the count stays within it.
TypeOK == policy \in PolicyType

\* The array stays dense and free of duplicates through every swap-remove
\* (lib.rs:191-199), and the slots behind the count are zeroed again, whatever
\* the order of additions and removals was.
AllowlistWellFormed == WellFormed(policy)

\* The abstract set is what the membership test answers, which is not what the
\* array holds: an unused slot holds the all-zero id, and that id is the System
\* Program's.
AsSet == INSTANCE AllowedSet WITH
            allowed <- {p \in Programs : Contains(policy, p)}

\* The array implements the set: a call adds or drops exactly the id it names,
\* and the System Program is allowed only after it was added (lib.rs:156-208,
\* state.rs:50-57).
ImplementsAllowedSet == AsSet!Spec
=============================================================================
