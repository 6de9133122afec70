---------------------------- MODULE PolicyProofs ----------------------------
(***************************************************************************)
(* What the operators of Policy do to a well-formed allowlist.  The proofs *)
(* about one allowlist and about the whole program rest on these lemmas.   *)
(***************************************************************************)
EXTENDS Policy, TLAPS

\* A fresh account's allowlist is well formed and allows nothing, although each
\* of its slots holds the System Program's id.
LEMMA EmptyPolicyCorrect ==
    /\ EmptyPolicy \in PolicyType
    /\ WellFormed(EmptyPolicy)
    /\ \A p \in Programs : ~Contains(EmptyPolicy, p)
BY MaxAllowedAssumption, ProgramsAssumption
   DEF EmptyPolicy, PolicyType, WellFormed, Contains, Slots

\* An addition fills the first free slot and disturbs no other, so membership
\* grows by exactly the id added (add_allowed_program, lib.rs:156-184).
LEMMA AdditionCorrect ==
    ASSUME NEW pol \in PolicyType, WellFormed(pol),
           NEW p \in Programs, MayAdd(pol, p)
    PROVE  /\ WithProgram(pol, p) \in PolicyType
           /\ WellFormed(WithProgram(pol, p))
           /\ \A q \in Programs :
                 Contains(WithProgram(pol, p), q) <=> Contains(pol, q) \/ q = p
<1> DEFINE new == WithProgram(pol, p)
<1> USE MaxAllowedAssumption DEF PolicyType, Slots
<1>1. /\ pol.count \in 0..MaxAllowed /\ pol.programs \in [1..MaxAllowed -> Programs]
      /\ pol.count + 1 \in 1..MaxAllowed
  BY DEF MayAdd
<1>2. /\ new.count = pol.count + 1
      /\ new.programs = [pol.programs EXCEPT ![pol.count + 1] = p]
      /\ new = [programs |-> new.programs, count |-> new.count]
  BY DEF WithProgram
<1>3. new \in PolicyType
  BY <1>1, <1>2
<1>4. /\ \A i \in 1..MaxAllowed : i # pol.count + 1 => new.programs[i] = pol.programs[i]
      /\ new.programs[pol.count + 1] = p
  BY <1>1, <1>2
<1> HIDE DEF new
<1>5. WellFormed(new)
  <2>1. \A i \in 1..pol.count : pol.programs[i] # p
    BY DEF MayAdd, Contains
  <2>2. \A i, j \in 1..new.count : new.programs[i] = new.programs[j] => i = j
    BY <1>1, <1>2, <1>4, <2>1 DEF WellFormed
  <2>3. \A i \in 1..new.count : new.programs[i] # Solora
    BY <1>1, <1>2, <1>4 DEF WellFormed, MayAdd
  <2>4. \A i \in Slots : i > new.count => new.programs[i] = SystemProgram
    BY <1>1, <1>2, <1>4 DEF WellFormed
  <2>. QED  BY <2>2, <2>3, <2>4 DEF WellFormed
<1>6. ASSUME NEW q \in Programs
      PROVE  Contains(new, q) <=> Contains(pol, q) \/ q = p
  BY <1>1, <1>2, <1>4 DEF Contains
<1>. QED  BY <1>3, <1>5, <1>6 DEF new

\* The position search finds a slot in use that holds the id, and no duplicates
\* means no other slot does.
LEMMA PositionCorrect ==
    ASSUME NEW pol \in PolicyType, WellFormed(pol),
           NEW p \in Programs, Contains(pol, p)
    PROVE  /\ PositionOf(pol, p) \in 1..pol.count
           /\ pol.programs[PositionOf(pol, p)] = p
           /\ \A i \in 1..pol.count : pol.programs[i] = p => i = PositionOf(pol, p)
<1>1. PICK i \in 1..pol.count : pol.programs[i] = p
  BY DEF Contains
<1>2. \A j \in 1..(i - 1) : pol.programs[j] # p
  BY <1>1 DEF WellFormed, PolicyType
<1>. DEFINE First(k) == /\ pol.programs[k] = p
                        /\ \A j \in 1..(k - 1) : pol.programs[j] # p
<1>3. PositionOf(pol, p) \in 1..pol.count /\ First(PositionOf(pol, p))
  <2>1. \E k \in 1..pol.count : First(k)
    BY <1>1, <1>2
  <2>2. PositionOf(pol, p) = CHOOSE k \in 1..pol.count : First(k)
    BY DEF PositionOf
  <2>. QED  BY <2>1, <2>2
<1>. QED  BY <1>3 DEF WellFormed

\* A swap-remove keeps the array dense, without duplicates and zeroed behind
\* the count, and drops exactly the id it names (remove_allowed_program,
\* lib.rs:186-208).
LEMMA RemovalCorrect ==
    ASSUME NEW pol \in PolicyType, WellFormed(pol),
           NEW p \in Programs, Contains(pol, p)
    PROVE  /\ WithoutProgram(pol, p) \in PolicyType
           /\ WellFormed(WithoutProgram(pol, p))
           /\ \A q \in Programs :
                 Contains(WithoutProgram(pol, p), q) <=> Contains(pol, q) /\ q # p
<1> DEFINE new == WithoutProgram(pol, p)
           pos == PositionOf(pol, p)
           last == pol.count
<1> USE MaxAllowedAssumption, ProgramsAssumption DEF PolicyType, Slots
<1>1. /\ pos \in 1..last /\ last \in 1..MaxAllowed
      /\ pol.programs \in [1..MaxAllowed -> Programs]
      /\ pol.programs[pos] = p
      /\ \A i \in 1..last : pol.programs[i] = p => i = pos
  BY PositionCorrect
<1>2. /\ new.count = last - 1
      /\ new.programs = [pol.programs EXCEPT ![pos] = pol.programs[last],
                                            ![last] = SystemProgram]
      /\ new = [programs |-> new.programs, count |-> new.count]
  BY DEF WithoutProgram
<1> HIDE DEF new, pos, last
<1>3. new \in PolicyType
  BY <1>1, <1>2
<1>4. /\ new.programs[last] = SystemProgram
      /\ pos # last => new.programs[pos] = pol.programs[last]
      /\ \A i \in 1..MaxAllowed : i # pos /\ i # last => new.programs[i] = pol.programs[i]
  BY <1>1, <1>2
<1>5. WellFormed(new)
  <2>1. \A i, j \in 1..(last - 1) : new.programs[i] = new.programs[j] => i = j
    <3>1. SUFFICES ASSUME NEW i \in 1..(last - 1), NEW j \in 1..(last - 1),
                          new.programs[i] = new.programs[j]
                   PROVE  i = j
      OBVIOUS
    <3>2. \A k, l \in 1..last : pol.programs[k] = pol.programs[l] => k = l
      BY DEF WellFormed, last
    <3>. QED  BY <1>1, <1>4, <3>1, <3>2
  <2>2. \A i \in 1..(last - 1) : new.programs[i] # Solora
    <3>1. \A k \in 1..last : pol.programs[k] # Solora
      BY DEF WellFormed, last
    <3>. QED  BY <1>1, <1>4, <3>1
  <2>3. \A i \in Slots : i > last - 1 => new.programs[i] = SystemProgram
    <3>1. \A k \in Slots : k > last => pol.programs[k] = SystemProgram
      BY DEF WellFormed, last
    <3>. QED  BY <1>1, <1>4, <3>1
  <2>. QED  BY <1>2, <2>1, <2>2, <2>3 DEF WellFormed
<1>6. ASSUME NEW q \in Programs, Contains(new, q)
      PROVE  Contains(pol, q) /\ q # p
  <2>1. PICK i \in 1..(last - 1) : new.programs[i] = q
    BY <1>2, <1>6 DEF Contains
  <2>2. CASE i = pos
    BY <1>1, <1>4, <2>1, <2>2 DEF Contains, last
  <2>3. CASE i # pos
    BY <1>1, <1>4, <2>1, <2>3 DEF Contains, last
  <2>. QED  BY <2>2, <2>3
<1>7. ASSUME NEW q \in Programs, Contains(pol, q), q # p
      PROVE  Contains(new, q)
  <2>1. PICK i \in 1..last : pol.programs[i] = q
    BY <1>7 DEF Contains, last
  <2>2. i # pos
    BY <1>1, <1>7, <2>1
  <2>3. CASE i = last
    BY <1>1, <1>2, <1>4, <2>1, <2>2, <2>3 DEF Contains
  <2>4. CASE i # last
    BY <1>1, <1>2, <1>4, <2>1, <2>2, <2>4 DEF Contains
  <2>. QED  BY <2>3, <2>4
<1>. QED  BY <1>3, <1>5, <1>6, <1>7 DEF new
=============================================================================
