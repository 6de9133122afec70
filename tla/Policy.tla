------------------------------- MODULE Policy -------------------------------
(***************************************************************************)
(* The CPI allowlist held in the `policy` field of a SoloraWallet account: *)
(* a fixed array of program ids of which the first `count` are in use.     *)
(* programs/solora/src/state.rs (struct Policy) gives its shape and its    *)
(* membership test, the handlers add_allowed_program and                   *)
(* remove_allowed_program of lib.rs the two ways it changes.               *)
(*                                                                         *)
(* Only constant-level operators live here, so that the state machine of   *)
(* one allowlist (Allowlist) and the whole program (SoloraProgram) use the *)
(* same definitions.                                                       *)
(***************************************************************************)
EXTENDS Integers

CONSTANTS
    Programs,       \* program ids an authority may name
    SystemProgram,  \* the all-zero id: Pubkey::default() and the System Program
    Solora,         \* the id of this program, never a CPI target
    MaxAllowed      \* MAX_ALLOWED_PROGRAMS, 16 in the code

ASSUME ProgramsAssumption ==
    /\ SystemProgram \in Programs
    /\ Solora \in Programs
    /\ Solora # SystemProgram

ASSUME MaxAllowedAssumption == MaxAllowed \in Nat \ {0}

Slots == 1..MaxAllowed

PolicyType == [programs : [Slots -> Programs], count : 0..MaxAllowed]

\* Anchor's `init` zeroes the account: every slot holds the all-zero id.
EmptyPolicy == [programs |-> [i \in Slots |-> SystemProgram], count |-> 0]

\* Policy::contains.
Contains(pol, p) == \E i \in 1..pol.count : pol.programs[i] = p

\* Mutant of MayAdd: the array's length is not checked.
MayAddWhenFull(pol, p) == p # Solora /\ ~Contains(pol, p)

\* The guards of add_allowed_program, in the order the handler checks them.
MayAdd(pol, p) ==
    /\ p # Solora
    /\ ~Contains(pol, p)
    /\ pol.count < MaxAllowed

\* Append into the first free slot.
WithProgram(pol, p) ==
    [programs |-> [pol.programs EXCEPT ![pol.count + 1] = p],
     count    |-> pol.count + 1]

\* iter().position(..): the first index in use that holds p.
PositionOf(pol, p) ==
    CHOOSE i \in 1..pol.count :
        /\ pol.programs[i] = p
        /\ \A j \in 1..(i - 1) : pol.programs[j] # p

\* Mutants of WithoutProgram: the slot is zeroed where it stands and the last one
\* is cut off; the freed slot keeps its program id; the count stays, so that the
\* slot zeroed counts as one for the System Program.
WithoutProgramInPlace(pol, p) ==
    [programs |-> [pol.programs EXCEPT ![PositionOf(pol, p)] = SystemProgram],
     count    |-> pol.count - 1]
WithoutProgramKeepsTail(pol, p) ==
    [programs |-> [pol.programs EXCEPT
                      ![PositionOf(pol, p)] = pol.programs[pol.count]],
     count    |-> pol.count - 1]

WithoutProgramKeepsCount(pol, p) ==
    [programs |-> [pol.programs EXCEPT
                      ![PositionOf(pol, p)] = pol.programs[pol.count],
                      ![pol.count] = SystemProgram],
     count    |-> pol.count]

\* Swap with the last slot in use, then zero that slot.
WithoutProgram(pol, p) ==
    [programs |-> [pol.programs EXCEPT
                      ![PositionOf(pol, p)] = pol.programs[pol.count],
                      ![pol.count] = SystemProgram],
     count    |-> pol.count - 1]

-----------------------------------------------------------------------------

\* What every allowlist must look like: no id twice, none of them this
\* program, and nothing left behind the slots in use.
WellFormed(pol) ==
    /\ \A i, j \in 1..pol.count : pol.programs[i] = pol.programs[j] => i = j
    /\ \A i \in 1..pol.count : pol.programs[i] # Solora
    /\ \A i \in Slots : i > pol.count => pol.programs[i] = SystemProgram
=============================================================================
