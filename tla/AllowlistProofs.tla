-------------------------- MODULE AllowlistProofs ---------------------------
(***************************************************************************)
(* The allowlist of one wallet is well formed in every reachable state and *)
(* implements a set of program ids, for every number of slots and every    *)
(* collection of ids.                                                      *)
(***************************************************************************)
EXTENDS Allowlist, PolicyProofs

\* The inductive invariant: the type and the shape of the array.
IInv == TypeOK /\ AllowlistWellFormed

LEMMA InvInit == Init => IInv
BY EmptyPolicyCorrect DEF Init, IInv, TypeOK, AllowlistWellFormed

LEMMA InvNext == IInv /\ [Next]_policy => IInv'
<1> SUFFICES ASSUME IInv, [Next]_policy PROVE IInv'
  OBVIOUS
<1> USE DEF IInv, TypeOK, AllowlistWellFormed
<1>1. ASSUME NEW p \in Programs, AddAllowedProgram(p) PROVE IInv'
  BY <1>1, AdditionCorrect DEF AddAllowedProgram
<1>2. ASSUME NEW p \in Programs, RemoveAllowedProgram(p) PROVE IInv'
  BY <1>2, RemovalCorrect DEF RemoveAllowedProgram
<1>3. CASE UNCHANGED policy
  BY <1>3
<1>. QED  BY <1>1, <1>2, <1>3 DEF Next

\* The count of programs in use never leaves the array's bounds, and the array
\* never changes its length (state.rs:36-57, lib.rs:156-208).
THEOREM AllowlistTypeCorrect == Spec => []TypeOK
<1>1. IInv => TypeOK
  BY DEF IInv
<1>. QED  BY <1>1, InvInit, InvNext, PTL DEF Spec

\* The array stays dense, free of duplicates and zeroed behind its count,
\* through every sequence of additions and swap-removes (lib.rs:156-208).
THEOREM WellFormedAlways == Spec => []AllowlistWellFormed
<1>1. IInv => AllowlistWellFormed
  BY DEF IInv
<1>. QED  BY <1>1, InvInit, InvNext, PTL DEF Spec

\* The array implements the set: initially it is empty, and every call is one
\* of the set's operations (lib.rs:156-208, state.rs:50-57).
THEOREM AllowlistImplementsSet == Spec => AsSet!Spec
<1> DEFINE allowed == {p \in Programs : Contains(policy, p)}
<1>1. Init => AsSet!Init
  BY EmptyPolicyCorrect DEF Init, AsSet!Init
<1>2. IInv /\ [Next]_policy => [AsSet!Next]_allowed
  <2> SUFFICES ASSUME IInv, [Next]_policy PROVE [AsSet!Next]_allowed
    OBVIOUS
  <2> USE DEF IInv, TypeOK, AllowlistWellFormed
  <2>1. ASSUME NEW p \in Programs, AddAllowedProgram(p) PROVE AsSet!Allow(p)
    <3>1. \A q \in Programs : Contains(policy', q) <=> Contains(policy, q) \/ q = p
      BY <2>1, AdditionCorrect DEF AddAllowedProgram
    <3>2. p # Solora /\ ~Contains(policy, p)
      BY <2>1 DEF AddAllowedProgram, MayAdd
    <3>. QED  BY <3>1, <3>2 DEF AsSet!Allow
  <2>2. ASSUME NEW p \in Programs, RemoveAllowedProgram(p) PROVE AsSet!Disallow(p)
    <3>1. \A q \in Programs : Contains(policy', q) <=> Contains(policy, q) /\ q # p
      BY <2>2, RemovalCorrect DEF RemoveAllowedProgram
    <3>2. Contains(policy, p)
      BY <2>2 DEF RemoveAllowedProgram
    <3>. QED  BY <3>1, <3>2 DEF AsSet!Disallow
  <2>3. CASE UNCHANGED policy
    BY <2>3
  <2>. QED  BY <2>1, <2>2, <2>3 DEF Next, AsSet!Next
<1>. QED  BY <1>1, <1>2, InvInit, InvNext, PTL DEF Spec, AsSet!Spec
=============================================================================
