------------------------ MODULE SoloraProgramProofs -------------------------
(***************************************************************************)
(* Theorems about SoloraProgram, for any number of wallets, keys, messages *)
(* and measurements, and for any bounds: what the registry's operators do  *)
(* to a list of entries, that every state is well typed, and that a        *)
(* wallet's nonce orders what the wallet accepts.                          *)
(***************************************************************************)
EXTENDS SoloraProgram, PolicyProofs, SequenceTheorems

USE DEF clockVars, accountVars, registryVars, historyVars

-----------------------------------------------------------------------------
(* The registry's operators, on any list of entries without duplicates:    *)
(* the facts behind the finality of a revocation.                          *)

\* The handlers' lookup finds the entry for m, the only one there is.
LEMMA IndexCorrect ==
    ASSUME NEW es \in Seq(EntryType), NEW m, Distinct(es), Present(es, m)
    PROVE  /\ IndexOf(es, m) \in 1..Len(es)
           /\ es[IndexOf(es, m)].measurement = m
<1>1. PICK i \in 1..Len(es) : es[i].measurement = m
  BY DEF Present
<1>2. \A j \in 1..(i - 1) : es[j].measurement # m
  <2>1. ASSUME NEW j \in 1..(i - 1) PROVE j \in 1..Len(es) /\ j # i
    BY LenProperties
  <2>. QED  BY <1>1, <2>1 DEF Distinct
<1>. QED  BY <1>1, <1>2 DEF IndexOf

\* Appending an entry that is not there keeps the list free of duplicates.
LEMMA AddMeasurementCorrect ==
    ASSUME NEW es \in Seq(EntryType), NEW m \in Measurements, Distinct(es),
           MayAddMeasurement(es, m)
    PROVE  LET new == WithMeasurement(es, m)
           IN  /\ new \in Seq(EntryType)
               /\ Distinct(new)
               /\ Len(new) = Len(es) + 1
               /\ \A i \in 1..Len(es) : new[i] = es[i]
               /\ new[Len(es) + 1].measurement = m
<1> DEFINE e == [measurement |-> m, status |-> "active"]
           new == Append(es, e)
<1>1. e \in EntryType
  BY DEF EntryType
<1>2. /\ new \in Seq(EntryType)
      /\ Len(new) = Len(es) + 1
      /\ \A i \in 1..Len(es) : new[i] = es[i]
      /\ new[Len(es) + 1] = e
  BY <1>1, AppendProperties
<1>3. Distinct(new)
  <2>. SUFFICES ASSUME NEW i \in 1..Len(new), NEW j \in 1..Len(new),
                       new[i].measurement = new[j].measurement
                PROVE  i = j
    BY DEF Distinct
  <2>1. \A k \in 1..Len(es) : es[k].measurement # m
    BY DEF MayAddMeasurement, Present
  <2>2. Len(es) \in Nat
    BY LenProperties
  <2>3. (i \in 1..Len(es) \/ i = Len(es) + 1) /\ (j \in 1..Len(es) \/ j = Len(es) + 1)
    BY <1>2, <2>2
  <2>. HIDE DEF new
  <2>. QED  BY <1>2, <2>1, <2>3 DEF Distinct
<1>. QED  BY <1>2, <1>3 DEF WithMeasurement

\* Revoking leaves a well-typed list, even where the lookup found nothing.
LEMMA RevokeType ==
    ASSUME NEW es \in Seq(EntryType), NEW m
    PROVE  WithRevoked(es, m) \in Seq(EntryType)
<1> DEFINE k == IndexOf(es, m)
<1>. HIDE DEF k
<1>1. CASE k \in 1..Len(es)
  <2>1. es[k] \in EntryType
    BY <1>1, ElementOfSeq
  <2>2. [es[k] EXCEPT !.status = "revoked"] \in EntryType
    BY <2>1 DEF EntryType
  <2>. QED  BY <1>1, <2>2, ExceptSeq DEF WithRevoked, k
<1>2. CASE k \notin 1..Len(es)
  <2>1. WithRevoked(es, m) = es
    BY <1>2, LenProperties DEF WithRevoked, k
  <2>. QED  BY <2>1
<1>. QED  BY <1>1, <1>2

\* Revoking changes the status of m's entry and nothing else.
LEMMA RevokeCorrect ==
    ASSUME NEW es \in Seq(EntryType), NEW m, Distinct(es), Present(es, m)
    PROVE  LET new == WithRevoked(es, m)
           IN  /\ new \in Seq(EntryType)
               /\ Len(new) = Len(es)
               /\ \A i \in 1..Len(es) :
                     /\ new[i].measurement = es[i].measurement
                     /\ new[i].status = IF es[i].measurement = m THEN "revoked"
                                        ELSE es[i].status
<1> DEFINE k == IndexOf(es, m)
           e == [es[k] EXCEPT !.status = "revoked"]
<1>1. k \in 1..Len(es) /\ es[k].measurement = m
  BY IndexCorrect
<1>. HIDE DEF k
<1>2. es[k] \in EntryType
  BY <1>1, ElementOfSeq
<1>3. /\ e \in EntryType
      /\ e.measurement = m /\ e.status = "revoked"
  BY <1>1, <1>2 DEF EntryType
<1>. HIDE DEF e
<1>4. /\ [es EXCEPT ![k] = e] \in Seq(EntryType)
      /\ Len([es EXCEPT ![k] = e]) = Len(es)
      /\ \A i \in 1..Len(es) : [es EXCEPT ![k] = e][i] = IF i = k THEN e ELSE es[i]
  BY <1>1, <1>3, ExceptSeq
<1>5. WithRevoked(es, m) = [es EXCEPT ![k] = e]
  BY DEF WithRevoked, k, e
<1>6. \A i \in 1..Len(es) : es[i].measurement = m <=> i = k
  BY <1>1 DEF Distinct
<1>. QED  BY <1>1, <1>3, <1>4, <1>5, <1>6

-----------------------------------------------------------------------------
(* Types.                                                                  *)

LEMMA RecordTypes ==
    ASSUME TypeOK, NEW a \in Authorities
    PROVE  /\ \A m \in Intents : SpendOf(a, m) \in SpendType
           /\ \A m \in Proofs, payer \in Accounts :
                 RotationOf(a, m, payer) \in RotationType
<1>1. wallet[a].nonce \in Nat /\ epoch[a] \in Nat
  BY BoundsAssumption DEF TypeOK, WalletType
<1>2. ASSUME NEW m \in Intents PROVE SpendOf(a, m) \in SpendType
  BY <1>1, MessagesAssumption DEF SpendOf, SpendType
<1>3. ASSUME NEW m \in Proofs, NEW payer \in Accounts
      PROVE  RotationOf(a, m, payer) \in RotationType
  BY <1>1, MessagesAssumption DEF RotationOf, RotationType
<1>. QED  BY <1>2, <1>3

LEMMA MovedType ==
    ASSUME TypeOK, NEW a \in Authorities, NEW dest \in Destinations,
           NEW amount \in Amounts, LeavesRentMin(a, amount)
    PROVE  /\ Moved(a, dest, amount) \in [Authorities -> Nat]
           /\ Moved(a, dest, amount)[a] >= RentMin
           /\ \A b \in Authorities : b # a => Moved(a, dest, amount)[b] >= lamports[b]
BY LamportsAssumption DEF Moved, LeavesRentMin, TypeOK

\* A wallet's fields can be set one by one.
LEMMA WalletFields ==
    ASSUME NEW w \in WalletType
    PROVE  /\ w.nonce \in Nat /\ w.nonce <= MaxNonce
           /\ \A n \in 0..MaxNonce : [w EXCEPT !.nonce = n] \in WalletType
           /\ \A k \in Keys, n \in 0..MaxNonce :
                 [w EXCEPT !.signer = k, !.nonce = n] \in WalletType
           /\ \A t \in Nat : [w EXCEPT !.active = FALSE, !.unlock = t] \in WalletType
           /\ \A k \in Keys, l \in Limits :
                 [w EXCEPT !.signer = k, !.active = TRUE, !.limits = l] \in WalletType
           /\ \A l \in Limits : [w EXCEPT !.limits = l] \in WalletType
           /\ [w EXCEPT !.active = ~@] \in WalletType
<1> DEFINE R == 0..MaxNonce
<1>0. \A n \in R : n \in Nat /\ n <= MaxNonce
  BY BoundsAssumption
<1>1. WalletType = [signer : Keys \cup {NoKey}, nonce : R, active : BOOLEAN,
                    unlock : Nat, limits : Limits \cup {NoLimits}]
  BY DEF WalletType
<1> HIDE DEF R
<1>2. w.nonce \in R
  BY <1>1
<1>3. \A n \in R : [w EXCEPT !.nonce = n] \in WalletType
  BY <1>1
<1>4. \A k \in Keys, n \in R : [w EXCEPT !.signer = k, !.nonce = n] \in WalletType
  BY <1>1
<1>5. \A t \in Nat : [w EXCEPT !.active = FALSE, !.unlock = t] \in WalletType
  BY <1>1
<1>6. \A k \in Keys, l \in Limits :
         [w EXCEPT !.signer = k, !.active = TRUE, !.limits = l] \in WalletType
  BY <1>1
<1>7. \A l \in Limits : [w EXCEPT !.limits = l] \in WalletType
  BY <1>1
<1>8. [w EXCEPT !.active = ~@] \in WalletType
  BY <1>1
<1>. QED  BY <1>0, <1>2, <1>3, <1>4, <1>5, <1>6, <1>7, <1>8 DEF R

\* The guard on the nonce keeps its increment within its integer type.
LEMMA NonceAdvances ==
    ASSUME TypeOK, NEW a \in Authorities, NonceCanAdvance(a)
    PROVE  /\ wallet[a] \in WalletType
           /\ wallet[a].nonce + 1 \in 0..MaxNonce
<1>1. wallet[a] \in WalletType
  BY DEF TypeOK
<1>2. wallet[a].nonce \in Nat
  BY <1>1, WalletFields
<1>. QED  BY <1>1, <1>2, BoundsAssumption DEF NonceCanAdvance

\* Blocks are in slots of the bounded chain.
LEMMA BlockSlots ==
    /\ FirstSlot \in Blocks
    /\ \A s \in Blocks : s \in Nat /\ s <= MaxSlot
BY BlocksAssumption, BoundsAssumption

LEMMA ZeroWalletType == ZeroWallet \in WalletType
BY BoundsAssumption DEF ZeroWallet, WalletType

LEMMA TypeInit == Init => TypeOK
BY EmptyPolicyCorrect, ZeroWalletType, EmptySeq, BlockSlots DEF Init, TypeOK

LEMMA TypeOwner ==
    ASSUME TypeOK, NEW a \in Authorities, OwnerStep(a)
    PROVE  TypeOK'
<1> USE DEF TypeOK
<1>1. ASSUME NEW key \in Keys, NEW limits \in Limits, InitializeWallet(a, key, limits)
      PROVE  TypeOK'
  <2>1. [ZeroWallet EXCEPT !.signer = key, !.active = TRUE, !.limits = limits]
            \in WalletType
    BY ZeroWalletType, WalletFields
  <2>2. wallet' \in [Authorities -> WalletType]
    BY <1>1, <2>1 DEF InitializeWallet
  <2>3. lamports' \in [Authorities -> Nat] /\ epoch' \in [Authorities -> Nat]
    BY <1>1, LamportsAssumption DEF InitializeWallet
  <2>. QED  BY <1>1, <2>2, <2>3, EmptyPolicyCorrect DEF InitializeWallet
<1>2. ASSUME NEW limits \in Limits, UpdatePolicy(a, limits) PROVE TypeOK'
  <2>1. [wallet[a] EXCEPT !.limits = limits] \in WalletType
    BY WalletFields
  <2>2. wallet' \in [Authorities -> WalletType]
    BY <1>2, <2>1 DEF UpdatePolicy
  <2>. QED  BY <1>2, <2>2 DEF UpdatePolicy
<1>3. CASE TogglePause(a)
  <2>1. [wallet[a] EXCEPT !.active = ~@] \in WalletType
    BY WalletFields
  <2>2. wallet' \in [Authorities -> WalletType]
    BY <1>3, <2>1 DEF TogglePause
  <2>. QED  BY <1>3, <2>2 DEF TogglePause
<1>4. ASSUME NEW key \in Keys, RegisterEnclave(a, key) PROVE TypeOK'
  <2>1. wallet' \in [Authorities -> WalletType]
    <3>1. 0 \in 0..MaxNonce
      BY BoundsAssumption
    <3>2. [wallet[a] EXCEPT !.signer = key, !.nonce = 0] \in WalletType
      BY <3>1, WalletFields
    <3>. QED  BY <1>4, <3>2 DEF RegisterEnclave
  <2>2. epoch' \in [Authorities -> Nat] /\ baseSigner' \in [Authorities -> Keys \cup {NoKey}]
    BY <1>4 DEF RegisterEnclave
  <2>. QED  BY <1>4, <2>1, <2>2 DEF RegisterEnclave
<1>5. ASSUME NEW p \in Programs, AddAllowedProgram(a, p) PROVE TypeOK'
  BY <1>5, MaxAllowedAssumption
     DEF AddAllowedProgram, MayAdd, WithProgram, PolicyType, Slots
<1>6. ASSUME NEW p \in Programs, RemoveAllowedProgram(a, p) PROVE TypeOK'
  BY <1>6, MaxAllowedAssumption, ProgramsAssumption
     DEF RemoveAllowedProgram, Contains, WithoutProgram, PolicyType, Slots
<1>7. CASE InitiateTimelock(a)
  <2>1. now + Delay \in Nat
    BY BoundsAssumption
  <2>2. [wallet[a] EXCEPT !.active = FALSE, !.unlock = now + Delay] \in WalletType
    BY <2>1, WalletFields
  <2>3. wallet' \in [Authorities -> WalletType]
    BY <1>7, <2>2 DEF InitiateTimelock
  <2>. QED  BY <1>7, <2>3 DEF InitiateTimelock
<1>8. CASE ExecuteEscape(a)
  BY <1>8, EmptyPolicyCorrect, ZeroWalletType DEF ExecuteEscape
<1>. QED  BY <1>1, <1>2, <1>3, <1>4, <1>5, <1>6, <1>7, <1>8 DEF OwnerStep

\* What a CPI does to the balances takes from none.
LEMMA CreditsOnly ==
    ASSUME TypeOK, NEW credit \in [Authorities -> Amounts \cup {0}],
           lamports' = [b \in Authorities |-> lamports[b] + credit[b]]
    PROVE  /\ lamports' \in [Authorities -> Nat]
           /\ \A b \in Authorities : lamports'[b] >= lamports[b]
<1>1. Amounts \cup {0} \subseteq Nat
  BY LamportsAssumption
<1>2. ASSUME NEW b \in Authorities PROVE lamports[b] \in Nat /\ credit[b] \in Nat
  <2>1. lamports[b] \in Nat
    BY DEF TypeOK
  <2>2. credit[b] \in Amounts \cup {0}
    OBVIOUS
  <2>. QED  BY <1>1, <2>1, <2>2
<1>3. \A b \in Authorities : lamports'[b] = lamports[b] + credit[b]
  OBVIOUS
<1>. QED  BY <1>2, <1>3

LEMMA TypeMessage ==
    ASSUME TypeOK, NEW a \in Authorities, MessageStep(a)
    PROVE  TypeOK'
<1>1. ASSUME NEW m \in Intents, NEW dest \in Destinations, NEW amount \in Amounts,
             ExecuteTransfer(a, m, dest, amount)
      PROVE  TypeOK'
  <2>1. consumed' \subseteq SpendType \cup RotationType
    BY <1>1, RecordTypes DEF ExecuteTransfer, TransferPasses, TypeOK
  <2>2. lamports' \in [Authorities -> Nat]
    BY <1>1, MovedType DEF ExecuteTransfer, TransferPasses
  <2>3. wallet' \in [Authorities -> WalletType]
    <3>1. [wallet[a] EXCEPT !.nonce = wallet[a].nonce + 1] \in WalletType
      BY <1>1, NonceAdvances, WalletFields DEF ExecuteTransfer, TransferPasses
    <3>. QED  BY <1>1, <3>1 DEF ExecuteTransfer, TransferPasses, TypeOK
  <2>. QED  BY <1>1, <2>1, <2>2, <2>3 DEF ExecuteTransfer, TransferPasses, TypeOK
<1>2. ASSUME NEW m \in Intents, NEW target \in Programs, NEW call \in Calls,
             ExecuteArbitraryCpi(a, m, target, call)
      PROVE  TypeOK'
  <2>1. consumed' \subseteq SpendType \cup RotationType
    BY <1>2, RecordTypes DEF ExecuteArbitraryCpi, CpiPasses, TypeOK
  <2>2. wallet' \in [Authorities -> WalletType]
    <3>1. [wallet[a] EXCEPT !.nonce = wallet[a].nonce + 1] \in WalletType
      BY <1>2, NonceAdvances, WalletFields DEF ExecuteArbitraryCpi, CpiPasses
    <3>. QED  BY <1>2, <3>1 DEF ExecuteArbitraryCpi, CpiPasses, TypeOK
  <2>3. lamports' \in [Authorities -> Nat]
    BY <1>2, CreditsOnly DEF ExecuteArbitraryCpi
  <2>. QED  BY <1>2, <2>1, <2>2, <2>3 DEF ExecuteArbitraryCpi, CpiPasses, TypeOK
<1>3. ASSUME NEW m \in Proofs, NEW payer \in Accounts, RegisterEnclaveV2(a, m, payer)
      PROVE  TypeOK'
  <2>1. m.key \in Keys
    BY MessagesAssumption DEF ProofType
  <2>2. consumed' \subseteq SpendType \cup RotationType
    BY <1>3, RecordTypes DEF RegisterEnclaveV2, TypeOK
  <2>3. wallet' \in [Authorities -> WalletType]
    <3>1. [wallet[a] EXCEPT !.signer = m.key, !.nonce = wallet[a].nonce + 1]
              \in WalletType
      BY <1>3, <2>1, NonceAdvances, WalletFields DEF RegisterEnclaveV2
    <3>. QED  BY <1>3, <3>1 DEF RegisterEnclaveV2, TypeOK
  <2>. QED  BY <1>3, <2>2, <2>3 DEF RegisterEnclaveV2, TypeOK
<1>. QED  BY <1>1, <1>2, <1>3 DEF MessageStep

LEMMA TypeRegistry ==
    ASSUME TypeOK, NEW g \in Governors, RegistryStep(g)
    PROVE  TypeOK'
<1> USE DEF TypeOK
<1>0. g \in Accounts /\ Governors \subseteq Accounts
  BY AccountsAssumption
<1>1. CASE InitMeasurementRegistry(g)
  BY <1>0, <1>1, EmptySeq DEF InitMeasurementRegistry
<1>2. ASSUME NEW m \in Measurements, AddMeasurement(g, m) PROVE TypeOK'
  BY <1>2 DEF AddMeasurement, WithMeasurement, EntryType
<1>3. ASSUME NEW m \in Measurements, RevokeMeasurement(g, m) PROVE TypeOK'
  <2>1. entries' \in Seq(EntryType)
    BY <1>3, RevokeType DEF RevokeMeasurement
  <2>. QED  BY <1>3, <2>1 DEF RevokeMeasurement
<1>4. ASSUME NEW new \in Governors, TransferGovernor(g, new) PROVE TypeOK'
  BY <1>0, <1>4 DEF TransferGovernor
<1>. QED  BY <1>1, <1>2, <1>3, <1>4 DEF RegistryStep

LEMMA TypeChain == TypeOK /\ ChainStep => TypeOK'
<1> SUFFICES ASSUME TypeOK, ChainStep PROVE TypeOK'
  OBVIOUS
<1> USE DEF TypeOK
<1>1. CASE NextSlot \/ AdvanceClock
  BY <1>1, BlockSlots DEF NextSlot, AdvanceClock
<1>2. ASSUME NEW a \in Authorities, NEW amount \in Amounts, Deposit(a, amount)
      PROVE  TypeOK'
  <2>1. lamports' \in [Authorities -> Nat]
    BY <1>2, LamportsAssumption DEF Deposit
  <2>. QED  BY <1>2, <2>1 DEF Deposit
<1>. QED  BY <1>1, <1>2 DEF ChainStep

LEMMA TypeNext == TypeOK /\ [Next]_vars => TypeOK'
<1> SUFFICES ASSUME TypeOK, [Next]_vars PROVE TypeOK'
  OBVIOUS
<1>1. CASE UNCHANGED vars
  BY <1>1 DEF vars, TypeOK
<1>. QED  BY <1>1, TypeOwner, TypeMessage, TypeRegistry, TypeChain DEF Next

\* Every reachable state is well typed: in particular nonces never leave the
\* range of their integer type (checked_add, lib.rs:91-95, 257-260, 434-437).
THEOREM TypeCorrect == Spec => []TypeOK
BY TypeInit, TypeNext, PTL DEF Spec

\* Time does not go back, and passes from block to block within the bound.
LEMMA SlotGrows ==
    ASSUME TypeOK, slot <= MaxSlot, [Next]_vars
    PROVE  slot' \in Nat /\ slot <= slot' /\ slot' <= MaxSlot
<1>0. slot \in Nat
  BY DEF TypeOK
<1>1. ASSUME NEW a \in Authorities, OwnerStep(a) PROVE slot' = slot
  BY <1>1 DEF OwnerStep, InitializeWallet, UpdatePolicy, TogglePause, RegisterEnclave,
              AddAllowedProgram, RemoveAllowedProgram, InitiateTimelock, ExecuteEscape
<1>2. ASSUME NEW a \in Authorities, MessageStep(a) PROVE slot' = slot
  BY <1>2 DEF MessageStep, ExecuteTransfer, ExecuteArbitraryCpi, RegisterEnclaveV2
<1>3. ASSUME NEW g \in Governors, RegistryStep(g) PROVE slot' = slot
  BY <1>3 DEF RegistryStep, InitMeasurementRegistry, AddMeasurement,
              RevokeMeasurement, TransferGovernor
<1>4. slot' = slot \/ (slot' \in Blocks /\ slot < slot')
  BY <1>1, <1>2, <1>3 DEF Next, vars, ChainStep, NextSlot, AdvanceClock, Deposit
<1>. QED  BY <1>0, <1>4, BlockSlots

-----------------------------------------------------------------------------
(* The nonce.  Transfers, CPIs and rotations are ordered by it alike,      *)
(* whatever is submitted how often by whom.  To one wallet, every step of  *)
(* the program does one of four things (StepKinds): nothing, accept one    *)
(* message, reset the nonce, or close the account.  The invariant is shown *)
(* to survive each.                                                        *)

RecordsOf(b) == {r \in consumed : r.wallet = b}

Untouched(b) ==
    /\ b \in open' <=> b \in open
    /\ wallet'[b].nonce = wallet[b].nonce /\ wallet'[b].signer = wallet[b].signer
    /\ epoch'[b] = epoch[b] /\ baseSigner'[b] = baseSigner[b]
    /\ RecordsOf(b)' = RecordsOf(b)

\* A message signed for this wallet and this nonce; after a rotation the key it
\* names signs, after any other message the key that signed that one still does.
Consumes(b) ==
    /\ b \in open
    /\ epoch'[b] = epoch[b] /\ baseSigner'[b] = baseSigner[b]
    /\ wallet'[b].nonce = wallet[b].nonce + 1
    /\ \E r \in consumed' :
          /\ RecordsOf(b)' = RecordsOf(b) \cup {r}
          /\ r.wallet = b /\ r.epoch = epoch[b] /\ r.nonce = wallet[b].nonce
          /\ r.msg.wallet = b /\ r.msg.nonce = r.nonce
          /\ \/ /\ r.use = "spend" /\ r.msg.signer = wallet[b].signer
                /\ wallet'[b].signer = wallet[b].signer
             \/ r.use = "rotation" /\ wallet'[b].signer = r.msg.key

Resets(b) ==
    /\ epoch'[b] = epoch[b] + 1
    /\ wallet'[b].nonce = 0
    /\ baseSigner'[b] = wallet'[b].signer
    /\ RecordsOf(b)' = RecordsOf(b)

Closes(b) ==
    /\ b \notin open'
    /\ epoch'[b] = epoch[b]
    /\ RecordsOf(b)' = RecordsOf(b)

LEMMA OwnerKinds ==
    ASSUME TypeOK, NEW a \in Authorities, OwnerStep(a), NEW b \in Authorities
    PROVE  Untouched(b) \/ Resets(b) \/ Closes(b)
<1> USE DEF TypeOK, RecordsOf
<1>1. ASSUME NEW key \in Keys, NEW limits \in Limits, InitializeWallet(a, key, limits)
      PROVE  Untouched(b) \/ Resets(b)
  BY <1>1 DEF InitializeWallet, ZeroWallet, Untouched, Resets
<1>2. ASSUME NEW limits \in Limits, UpdatePolicy(a, limits) PROVE Untouched(b)
  BY <1>2 DEF UpdatePolicy, WalletType, Untouched
<1>3. CASE TogglePause(a)
  BY <1>3 DEF TogglePause, WalletType, Untouched
<1>4. ASSUME NEW key \in Keys, RegisterEnclave(a, key) PROVE Untouched(b) \/ Resets(b)
  BY <1>4 DEF RegisterEnclave, WalletType, Untouched, Resets
<1>5. ASSUME NEW p \in Programs, AddAllowedProgram(a, p) PROVE Untouched(b)
  BY <1>5 DEF AddAllowedProgram, Untouched
<1>6. ASSUME NEW p \in Programs, RemoveAllowedProgram(a, p) PROVE Untouched(b)
  BY <1>6 DEF RemoveAllowedProgram, Untouched
<1>7. CASE InitiateTimelock(a)
  BY <1>7 DEF InitiateTimelock, WalletType, Untouched
<1>8. CASE ExecuteEscape(a)
  BY <1>8 DEF ExecuteEscape, Untouched, Closes
<1>. QED  BY <1>1, <1>2, <1>3, <1>4, <1>5, <1>6, <1>7, <1>8 DEF OwnerStep

LEMMA MessageKinds ==
    ASSUME TypeOK, NEW a \in Authorities, MessageStep(a), NEW b \in Authorities
    PROVE  Untouched(b) \/ Consumes(b)
<1> USE DEF TypeOK, RecordsOf
<1>0. ASSUME NEW m \in Intents, wallet' = [wallet EXCEPT ![a].nonce = @ + 1],
             consumed' = consumed \cup {SpendOf(a, m)}, a \in open,
             UNCHANGED <<open, epoch, baseSigner>>,
             SignedByEnclave(a, m), BoundTo(a, m)
      PROVE  Untouched(b) \/ Consumes(b)
  <2>1. CASE a = b
    <3>1. RecordsOf(b)' = RecordsOf(b) \cup {SpendOf(a, m)}
      BY <1>0, <2>1 DEF SpendOf
    <3>2. /\ wallet'[b].nonce = wallet[b].nonce + 1
          /\ wallet'[b].signer = wallet[b].signer
      BY <1>0, <2>1 DEF WalletType
    <3> DEFINE r == SpendOf(a, m)
    <3>3. /\ r \in consumed'
          /\ r.wallet = b /\ r.epoch = epoch[b] /\ r.nonce = wallet[b].nonce
          /\ r.msg.wallet = b /\ r.msg.nonce = r.nonce
          /\ r.use = "spend" /\ r.msg.signer = wallet[b].signer
      BY <1>0, <2>1 DEF SpendOf, SignedByEnclave, BoundTo
    <3> HIDE DEF r
    <3>. QED  BY <1>0, <2>1, <3>1, <3>2, <3>3 DEF Consumes, r
  <2>2. CASE a # b
    <3>1. RecordsOf(b)' = RecordsOf(b)
      BY <1>0, <2>2 DEF SpendOf
    <3>. QED  BY <1>0, <2>2, <3>1 DEF Untouched
  <2>. QED  BY <2>1, <2>2
<1>1. ASSUME NEW m \in Intents, NEW dest \in Destinations, NEW amount \in Amounts,
             ExecuteTransfer(a, m, dest, amount)
      PROVE  Untouched(b) \/ Consumes(b)
  BY <1>0, <1>1 DEF ExecuteTransfer, TransferPasses, VerifyEnclaveIntent
<1>2. ASSUME NEW m \in Intents, NEW target \in Programs, NEW call \in Calls,
             ExecuteArbitraryCpi(a, m, target, call)
      PROVE  Untouched(b) \/ Consumes(b)
  BY <1>0, <1>2 DEF ExecuteArbitraryCpi, CpiPasses, VerifyEnclaveIntent
<1>3. ASSUME NEW m \in Proofs, NEW payer \in Accounts, RegisterEnclaveV2(a, m, payer)
      PROVE  Untouched(b) \/ Consumes(b)
  <2>1. CASE a = b
    <3>1. RecordsOf(b)' = RecordsOf(b) \cup {RotationOf(a, m, payer)}
      BY <1>3, <2>1 DEF RegisterEnclaveV2, RotationOf
    <3>2. /\ wallet'[b].nonce = wallet[b].nonce + 1
          /\ wallet'[b].signer = m.key
      BY <1>3, <2>1 DEF RegisterEnclaveV2, WalletType
    <3> DEFINE r == RotationOf(a, m, payer)
    <3>3. /\ r \in consumed'
          /\ r.wallet = b /\ r.epoch = epoch[b] /\ r.nonce = wallet[b].nonce
          /\ r.msg.wallet = b /\ r.msg.nonce = r.nonce
          /\ r.use = "rotation" /\ r.msg.key = m.key
      BY <1>3, <2>1 DEF RegisterEnclaveV2, RotationOf, VerifyAttestationProof
    <3>4. b \in open /\ epoch' = epoch /\ baseSigner' = baseSigner
      BY <1>3, <2>1 DEF RegisterEnclaveV2
    <3> HIDE DEF r
    <3>. QED  BY <3>1, <3>2, <3>3, <3>4 DEF Consumes, r
  <2>2. CASE a # b
    <3>1. RecordsOf(b)' = RecordsOf(b)
      BY <1>3, <2>2 DEF RegisterEnclaveV2, RotationOf
    <3>. QED  BY <1>3, <2>2, <3>1 DEF RegisterEnclaveV2, Untouched
  <2>. QED  BY <2>1, <2>2
<1>. QED  BY <1>1, <1>2, <1>3 DEF MessageStep

LEMMA StepKinds ==
    ASSUME TypeOK, [Next]_vars, NEW b \in Authorities
    PROVE  Untouched(b) \/ Consumes(b) \/ Resets(b) \/ Closes(b)
<1>1. CASE UNCHANGED vars
  BY <1>1 DEF vars, Untouched, RecordsOf
<1>2. ASSUME NEW g \in Governors, RegistryStep(g) PROVE Untouched(b)
  BY <1>2 DEF RegistryStep, InitMeasurementRegistry, AddMeasurement,
              RevokeMeasurement, TransferGovernor, Untouched, RecordsOf
<1>3. CASE ChainStep
  BY <1>3 DEF ChainStep, NextSlot, AdvanceClock, Deposit, Untouched, RecordsOf
<1>. QED  BY <1>1, <1>2, <1>3, OwnerKinds, MessageKinds DEF Next

-----------------------------------------------------------------------------
(* The invariant, wallet by wallet.                                        *)

\* No record comes from an epoch still to come, and each is of a message that
\* was signed for the wallet that accepted it.
RecordsPast(b) ==
    \A r \in RecordsOf(b) : r.epoch <= epoch[b] /\ r.msg.wallet = b

SpentInOrder(b) ==
    /\ \A r \in ThisEpoch(b) : r.nonce < wallet[b].nonce /\ r.msg.nonce = r.nonce
    /\ \A r, q \in ThisEpoch(b) : r.nonce = q.nonce => r = q
    /\ \A n \in 0..(wallet[b].nonce - 1) : \E r \in ThisEpoch(b) : r.nonce = n

SignersInForce(b) ==
    /\ InForce(b, wallet[b].nonce, wallet[b].signer)
    /\ \A r \in ThisEpoch(b) : r.use = "spend" => InForce(b, r.nonce, r.msg.signer)

WalletInv(b) ==
    /\ RecordsPast(b)
    /\ b \in open => SpentInOrder(b) /\ SignersInForce(b)

\* Beside the two invariants it implies, WalletInv says that a reset leaves no
\* record in the epoch it begins.
NonceInv == \A b \in Authorities : WalletInv(b)

LEMMA ThisEpochRecords ==
    ASSUME NEW b \in Authorities
    PROVE  /\ ThisEpoch(b) = {r \in RecordsOf(b) : r.epoch = epoch[b]}
           /\ ThisEpoch(b)' = {r \in RecordsOf(b)' : r.epoch = epoch'[b]}
BY DEF ThisEpoch, RecordsOf

LEMMA RecordFields ==
    ASSUME TypeOK, NEW b, NEW r \in RecordsOf(b)
    PROVE  r.nonce \in Nat /\ r.epoch \in Nat
BY DEF TypeOK, RecordsOf, SpendType, RotationType

LEMMA WalletNonce ==
    ASSUME TypeOK, NEW b \in Authorities
    PROVE  wallet[b].nonce \in Nat /\ epoch[b] \in Nat
BY WalletFields DEF TypeOK

LEMMA UntouchedInv ==
    ASSUME NEW b \in Authorities, WalletInv(b), Untouched(b)
    PROVE  WalletInv(b)'
<1>1. ThisEpoch(b)' = ThisEpoch(b)
  BY ThisEpochRecords DEF Untouched
<1>2. RecordsPast(b)'
  BY DEF WalletInv, RecordsPast, Untouched
<1>3. ASSUME SpentInOrder(b) PROVE SpentInOrder(b)'
  BY <1>1, <1>3 DEF SpentInOrder, Untouched
<1>4. ASSUME SignersInForce(b) PROVE SignersInForce(b)'
  BY <1>1, <1>4 DEF SignersInForce, InForce, Untouched
<1>. QED  BY <1>2, <1>3, <1>4 DEF WalletInv, Untouched

LEMMA ResetInv ==
    ASSUME TypeOK, NEW b \in Authorities, WalletInv(b), Resets(b)
    PROVE  WalletInv(b)'
<1>1. \A r \in RecordsOf(b) : r.epoch < epoch'[b]
  BY RecordFields, WalletNonce DEF WalletInv, RecordsPast, Resets
<1>2. ThisEpoch(b)' = {}
  BY <1>1, RecordFields, ThisEpochRecords DEF Resets
<1>3. RecordsPast(b)'
  <2>1. \A r \in RecordsOf(b) : r.epoch <= epoch'[b]
    BY RecordFields, WalletNonce DEF WalletInv, RecordsPast, Resets
  <2>. QED  BY <2>1 DEF WalletInv, RecordsPast, Resets
<1>4. SpentInOrder(b)'
  BY <1>2 DEF SpentInOrder, Resets
<1>5. SignersInForce(b)'
  BY <1>2 DEF SignersInForce, InForce, Resets
<1>. QED  BY <1>3, <1>4, <1>5 DEF WalletInv

LEMMA AcceptInv ==
    ASSUME TypeOK, NEW b \in Authorities, WalletInv(b), Consumes(b)
    PROVE  WalletInv(b)'
<1>1. PICK r \in consumed' :
         /\ RecordsOf(b)' = RecordsOf(b) \cup {r}
         /\ r.wallet = b /\ r.epoch = epoch[b] /\ r.nonce = wallet[b].nonce
         /\ r.msg.wallet = b /\ r.msg.nonce = r.nonce
         /\ \/ /\ r.use = "spend" /\ r.msg.signer = wallet[b].signer
               /\ wallet'[b].signer = wallet[b].signer
            \/ r.use = "rotation" /\ wallet'[b].signer = r.msg.key
  BY DEF Consumes
<1>2. /\ SpentInOrder(b) /\ SignersInForce(b)
      /\ epoch'[b] = epoch[b] /\ baseSigner'[b] = baseSigner[b]
      /\ wallet'[b].nonce = wallet[b].nonce + 1
  BY DEF WalletInv, Consumes
<1> DEFINE N == wallet[b].nonce
           T == ThisEpoch(b)
<1>3. N \in Nat /\ epoch[b] \in Nat /\ \A q \in T : q.nonce \in Nat
  BY WalletNonce, RecordFields, ThisEpochRecords
<1>4. ThisEpoch(b)' = T \cup {r}
  BY <1>1, <1>2, ThisEpochRecords
<1>5. \A q \in T : q.nonce < N
  BY <1>2 DEF SpentInOrder
<1>6. RecordsPast(b)'
  BY <1>1, <1>2, <1>3 DEF WalletInv, RecordsPast
<1>7. SpentInOrder(b)'
  <2>1. \A q \in ThisEpoch(b)' : q.nonce < wallet'[b].nonce /\ q.msg.nonce = q.nonce
    BY <1>1, <1>2, <1>3, <1>4, <1>5 DEF SpentInOrder
  <2>2. \A p, q \in ThisEpoch(b)' : p.nonce = q.nonce => p = q
    BY <1>1, <1>2, <1>3, <1>4, <1>5 DEF SpentInOrder
  <2>3. ASSUME NEW n \in 0..(wallet'[b].nonce - 1)
        PROVE  \E q \in ThisEpoch(b)' : q.nonce = n
    BY <1>1, <1>2, <1>3, <1>4 DEF SpentInOrder
  <2>. QED  BY <2>1, <2>2, <2>3 DEF SpentInOrder
<1>8. ASSUME NEW n \in 0..N, NEW k PROVE InForce(b, n, k) => InForce(b, n, k)'
  <2>1. {q \in T \cup {r} : q.use = "rotation" /\ q.nonce < n}
           = {q \in T : q.use = "rotation" /\ q.nonce < n}
    BY <1>1, <1>3
  <2>. QED  BY <1>2, <1>4, <2>1 DEF InForce
<1>9. \A q \in ThisEpoch(b)' : q.use = "spend" => InForce(b, q.nonce, q.msg.signer)'
  <2>1. ASSUME NEW q \in T, q.use = "spend" PROVE InForce(b, q.nonce, q.msg.signer)'
    <3>1. InForce(b, q.nonce, q.msg.signer)
      BY <1>2, <2>1 DEF SignersInForce
    <3>2. q.nonce \in 0..N
      BY <1>3, <1>5
    <3>. QED  BY <1>8, <3>1, <3>2
  <2>2. ASSUME r.use = "spend" PROVE InForce(b, r.nonce, r.msg.signer)'
    <3>1. InForce(b, r.nonce, r.msg.signer)
      BY <1>1, <1>2, <2>2 DEF SignersInForce
    <3>2. r.nonce \in 0..N
      BY <1>1, <1>3
    <3>. QED  BY <1>8, <3>1, <3>2
  <2>. QED  BY <1>4, <2>1, <2>2
<1>10. InForce(b, wallet[b].nonce, wallet[b].signer)'
  <2> DEFINE before == {q \in T : q.use = "rotation" /\ q.nonce < N}
             after == {q \in ThisEpoch(b)' : q.use = "rotation" /\ q.nonce < N + 1}
  <2>1. CASE r.use = "spend" /\ r.msg.signer = wallet[b].signer
                             /\ wallet'[b].signer = wallet[b].signer
    <3>1. after = before
      BY <1>1, <1>3, <1>4, <1>5, <2>1
    <3>2. InForce(b, N, wallet[b].signer)
      BY <1>2 DEF SignersInForce
    <3>. QED  BY <1>2, <2>1, <3>1, <3>2 DEF InForce
  <2>2. CASE r.use = "rotation" /\ wallet'[b].signer = r.msg.key
    <3>1. r \in after
      BY <1>1, <1>3, <1>4, <2>2
    <3>2. \A q \in after : q.nonce <= r.nonce
      BY <1>1, <1>3, <1>4, <1>5
    <3>. QED  BY <1>2, <2>2, <3>1, <3>2 DEF InForce
  <2>. QED  BY <1>1, <2>1, <2>2
<1>11. SignersInForce(b)'
  BY <1>9, <1>10 DEF SignersInForce
<1>. QED  BY <1>6, <1>7, <1>11 DEF WalletInv

LEMMA CloseInv ==
    ASSUME NEW b \in Authorities, WalletInv(b), Closes(b)
    PROVE  WalletInv(b)'
BY DEF WalletInv, RecordsPast, Closes

LEMMA NonceInit == Init => NonceInv
BY DEF Init, NonceInv, WalletInv, RecordsPast, RecordsOf

LEMMA NonceNext == TypeOK /\ NonceInv /\ [Next]_vars => NonceInv'
BY StepKinds, UntouchedInv, AcceptInv, ResetInv, CloseInv DEF NonceInv

LEMMA NonceInvAlways == Spec => []NonceInv
BY NonceInit, NonceNext, TypeCorrect, PTL DEF Spec

\* From one reset of the nonce to the next, every value below the current one was
\* used up by exactly one message, and one that was signed for that value.
THEOREM NonceOrder == Spec => []NonceSpentInOrder
<1>1. TypeOK /\ NonceInv => NonceSpentInOrder
  BY DEF TypeOK, NonceInv, WalletInv, SpentInOrder, NonceSpentInOrder
<1>. QED  BY <1>1, NonceInvAlways, TypeCorrect, PTL

\* What a wallet accepts is signed by the key its latest rotation installed, so
\* a rotation cuts off every message the key before it has signed.
THEOREM SignerOrder == Spec => []SpentUnderSignerInForce
<1>1. TypeOK /\ NonceInv => SpentUnderSignerInForce
  BY DEF TypeOK, NonceInv, WalletInv, SignersInForce, SpentUnderSignerInForce
<1>. QED  BY <1>1, NonceInvAlways, TypeCorrect, PTL

\* One signed message takes effect at most once, over all wallets, as long as
\* the nonce it was signed for has not been reset.
THEOREM EffectOnce == Spec => []MessageTakesEffectOnce
<1>1. ASSUME TypeOK, NonceInv PROVE MessageTakesEffectOnce
  <2>. SUFFICES ASSUME NEW a \in open, NEW b \in open,
                       NEW r \in ThisEpoch(a), NEW q \in ThisEpoch(b), r.msg = q.msg
                PROVE  r = q
    BY DEF MessageTakesEffectOnce
  <2>1. /\ a \in Authorities /\ b \in Authorities
        /\ r \in RecordsOf(a) /\ q \in RecordsOf(b)
    BY <1>1, ThisEpochRecords DEF TypeOK
  <2>2. a = b
    BY <1>1, <2>1 DEF NonceInv, WalletInv, RecordsPast
  <2>3. r.nonce = q.nonce
    BY <1>1, <2>1, <2>2 DEF NonceInv, WalletInv, SpentInOrder
  <2>. QED  BY <1>1, <2>1, <2>2, <2>3 DEF NonceInv, WalletInv, SpentInOrder
<1>. QED  BY <1>1, NonceInvAlways, TypeCorrect, PTL
=============================================================================
