---------------------------- MODULE FundsProofs -----------------------------
(***************************************************************************)
(* What lets lamports, calls and signers through: the rent-exempt minimum, *)
(* the two ways out of a wallet, the allowlist and the registry; and that  *)
(* messages make no lamports.                                              *)
(***************************************************************************)
EXTENDS SoloraProgramProofs, FiniteSetTheorems, WellFoundedInduction

USE DEF clockVars, accountVars, registryVars, historyVars

\* Beside RentExempt, what the four theorems need of every reachable state.

\* A timelock that runs was asked for by the owner, Delay before it ends.
TimelocksKept ==
    \A a \in open : wallet[a].unlock > 0 =>
        initiatedAt[a] \in Nat /\ wallet[a].unlock = initiatedAt[a] + Delay

\* The allowlists hold what the owners granted.
GrantsKept ==
    \A a \in Authorities :
        /\ WellFormed(policy[a])
        /\ granted[a] = {p \in Programs : Contains(policy[a], p)}

\* Entries never go away, and there is nothing to forget before the first one.
RevocationsKept ==
    /\ Distinct(entries)
    /\ governor = NoGovernor => revoked = {}
    /\ \A m \in revoked : \E i \in 1..Len(entries) :
          entries[i].measurement = m /\ entries[i].status = "revoked"

-----------------------------------------------------------------------------

\* No balance falls in a CPI.
LEMMA CpiCredits ==
    ASSUME TypeOK, NEW a, NEW m, NEW target, NEW call,
           ExecuteArbitraryCpi(a, m, target, call)
    PROVE  /\ lamports' \in [Authorities -> Nat]
           /\ \A b \in Authorities : lamports'[b] >= lamports[b]
BY CreditsOnly DEF ExecuteArbitraryCpi

\* Only these three handlers accept a message.
LEMMA NewlyConsumed ==
    ASSUME [Next]_vars, NEW r \in consumed' \ consumed
    PROVE  \/ \E a \in Authorities, m \in Intents, dest \in Destinations,
                 amount \in Amounts :
                    ExecuteTransfer(a, m, dest, amount) /\ r = SpendOf(a, m)
           \/ \E a \in Authorities, m \in Intents, target \in Programs, call \in Calls :
                    ExecuteArbitraryCpi(a, m, target, call) /\ r = SpendOf(a, m)
           \/ \E a \in Authorities, m \in Proofs, payer \in Accounts :
                    RegisterEnclaveV2(a, m, payer) /\ r = RotationOf(a, m, payer)
<1>1. CASE UNCHANGED vars
  BY <1>1 DEF vars
<1>2. ASSUME NEW a \in Authorities, OwnerStep(a) PROVE consumed' = consumed
  BY <1>2 DEF OwnerStep, InitializeWallet, UpdatePolicy, TogglePause, RegisterEnclave,
              AddAllowedProgram, RemoveAllowedProgram, InitiateTimelock, ExecuteEscape
<1>3. ASSUME NEW g \in Governors, RegistryStep(g) PROVE consumed' = consumed
  BY <1>3 DEF RegistryStep, InitMeasurementRegistry, AddMeasurement,
              RevokeMeasurement, TransferGovernor
<1>4. CASE ChainStep
  BY <1>4 DEF ChainStep, NextSlot, AdvanceClock, Deposit
<1>5. ASSUME NEW a \in Authorities, MessageStep(a)
      PROVE  \/ \E m \in Intents, dest \in Destinations, amount \in Amounts :
                    ExecuteTransfer(a, m, dest, amount) /\ r = SpendOf(a, m)
             \/ \E m \in Intents, target \in Programs, call \in Calls :
                    ExecuteArbitraryCpi(a, m, target, call) /\ r = SpendOf(a, m)
             \/ \E m \in Proofs, payer \in Accounts :
                    RegisterEnclaveV2(a, m, payer) /\ r = RotationOf(a, m, payer)
  <2>1. ASSUME NEW m \in Intents, NEW dest \in Destinations, NEW amount \in Amounts,
               ExecuteTransfer(a, m, dest, amount)
        PROVE  r = SpendOf(a, m)
    BY <2>1 DEF ExecuteTransfer, TransferPasses
  <2>2. ASSUME NEW m \in Intents, NEW target \in Programs, NEW call \in Calls,
               ExecuteArbitraryCpi(a, m, target, call)
        PROVE  r = SpendOf(a, m)
    BY <2>2 DEF ExecuteArbitraryCpi, CpiPasses
  <2>3. ASSUME NEW m \in Proofs, NEW payer \in Accounts, RegisterEnclaveV2(a, m, payer)
        PROVE  r = RotationOf(a, m, payer)
    BY <2>3 DEF RegisterEnclaveV2
  <2>. QED  BY <1>5, <2>1, <2>2, <2>3 DEF MessageStep
<1>. QED  BY <1>1, <1>2, <1>3, <1>4, <1>5 DEF Next

-----------------------------------------------------------------------------
(* The rent-exempt minimum.                                                *)

LEMMA RentNext == TypeOK /\ RentExempt /\ [Next]_vars => RentExempt'
<1> SUFFICES ASSUME TypeOK, RentExempt, [Next]_vars PROVE RentExempt'
  OBVIOUS
<1>1. CASE UNCHANGED vars
  BY <1>1 DEF vars, RentExempt
<1>2. ASSUME NEW a \in Authorities, OwnerStep(a) PROVE RentExempt'
  <2>1. ASSUME NEW key \in Keys, NEW limits \in Limits, InitializeWallet(a, key, limits)
        PROVE  RentExempt'
    BY <2>1, LamportsAssumption DEF InitializeWallet, TypeOK, RentExempt
  <2>2. CASE ExecuteEscape(a)
    BY <2>2 DEF ExecuteEscape, TypeOK, RentExempt
  <2>3. CASE UNCHANGED <<open, lamports>>
    BY <2>3 DEF RentExempt
  <2>. QED  BY <1>2, <2>1, <2>2, <2>3
            DEF OwnerStep, UpdatePolicy, TogglePause, RegisterEnclave,
                AddAllowedProgram, RemoveAllowedProgram, InitiateTimelock
<1>3. ASSUME NEW a \in Authorities, MessageStep(a) PROVE RentExempt'
  <2>1. ASSUME NEW m \in Intents, NEW dest \in Destinations, NEW amount \in Amounts,
               ExecuteTransfer(a, m, dest, amount)
        PROVE  RentExempt'
    <3>1. /\ LeavesRentMin(a, amount) /\ open' = open
          /\ lamports' = Moved(a, dest, amount)
      BY <2>1 DEF ExecuteTransfer, TransferPasses
    <3>2. ASSUME NEW b \in open PROVE Moved(a, dest, amount)[b] >= RentMin
      <4>1. /\ Moved(a, dest, amount)[a] >= RentMin
            /\ b # a => Moved(a, dest, amount)[b] >= lamports[b]
            /\ Moved(a, dest, amount)[b] \in Nat
        BY <3>1, <3>2, MovedType DEF TypeOK
      <4>2. lamports[b] >= RentMin /\ lamports[b] \in Nat
        BY <3>2 DEF TypeOK, RentExempt
      <4>. QED  BY <4>1, <4>2, LamportsAssumption
    <3>. QED  BY <3>1, <3>2 DEF RentExempt
  <2>2. ASSUME NEW m \in Intents, NEW target \in Programs, NEW call \in Calls,
               ExecuteArbitraryCpi(a, m, target, call)
        PROVE  RentExempt'
    <3>1. open' = open /\ open \subseteq Authorities
      BY <2>2 DEF ExecuteArbitraryCpi, TypeOK
    <3>2. ASSUME NEW b \in Authorities
          PROVE  lamports'[b] >= lamports[b] /\ lamports'[b] \in Nat /\ lamports[b] \in Nat
      BY <2>2, CpiCredits DEF TypeOK
    <3>. QED  BY <3>1, <3>2, LamportsAssumption DEF RentExempt
  <2>3. CASE UNCHANGED <<open, lamports>>
    BY <2>3 DEF RentExempt
  <2>. QED  BY <1>3, <2>1, <2>2, <2>3 DEF MessageStep, RegisterEnclaveV2
<1>4. ASSUME NEW g \in Governors, RegistryStep(g) PROVE RentExempt'
  BY <1>4 DEF RegistryStep, InitMeasurementRegistry, AddMeasurement,
              RevokeMeasurement, TransferGovernor, RentExempt
<1>5. CASE ChainStep
  BY <1>5, LamportsAssumption
     DEF ChainStep, NextSlot, AdvanceClock, Deposit, TypeOK, RentExempt
<1>. QED  BY <1>1, <1>2, <1>3, <1>4, <1>5 DEF Next

\* A wallet keeps its rent-exempt minimum whatever is sent, to itself or to
\* others, so only the escape ends its account (lib.rs:81-88).
THEOREM RentKept == Spec => []RentExempt
<1>1. Init => RentExempt
  BY DEF Init, RentExempt
<1>. QED  BY <1>1, RentNext, TypeCorrect, PTL DEF Spec

-----------------------------------------------------------------------------
(* Timelocks.                                                              *)

LEMMA TimelocksNext == TypeOK /\ TimelocksKept /\ [Next]_vars => TimelocksKept'
<1> SUFFICES ASSUME TypeOK, TimelocksKept, [Next]_vars PROVE TimelocksKept'
  OBVIOUS
<1>1. CASE UNCHANGED vars
  BY <1>1 DEF vars, TimelocksKept
<1>2. ASSUME NEW a \in Authorities, OwnerStep(a) PROVE TimelocksKept'
  <2>1. ASSUME NEW key \in Keys, NEW limits \in Limits, InitializeWallet(a, key, limits)
        PROVE  TimelocksKept'
    BY <2>1 DEF InitializeWallet, ZeroWallet, TypeOK, TimelocksKept
  <2>2. CASE ExecuteEscape(a)
    BY <2>2 DEF ExecuteEscape, ZeroWallet, TypeOK, TimelocksKept
  <2>3. CASE InitiateTimelock(a)
    <3>1. /\ a \in open /\ open' = open /\ now \in Nat /\ Delay \in Nat
          /\ wallet \in [Authorities -> WalletType]
          /\ initiatedAt \in [Authorities -> Nat \cup {-1}]
      BY <2>3, BoundsAssumption DEF InitiateTimelock, TypeOK
    <3>2. /\ wallet'[a].unlock = now + Delay /\ initiatedAt'[a] = now
          /\ \A b \in Authorities \ {a} :
                wallet'[b] = wallet[b] /\ initiatedAt'[b] = initiatedAt[b]
      BY <2>3, <3>1 DEF InitiateTimelock, WalletType
    <3>3. ASSUME NEW b \in open, b # a, wallet'[b].unlock > 0
          PROVE  initiatedAt'[b] \in Nat /\ wallet'[b].unlock = initiatedAt'[b] + Delay
      BY <2>3, <3>2, <3>3 DEF TimelocksKept, TypeOK
    <3>. QED  BY <3>1, <3>2, <3>3 DEF TimelocksKept
  <2>4. ASSUME NEW limits \in Limits, UpdatePolicy(a, limits) PROVE TimelocksKept'
    BY <2>4 DEF UpdatePolicy, TypeOK, WalletType, TimelocksKept
  <2>5. CASE TogglePause(a)
    BY <2>5 DEF TogglePause, TypeOK, WalletType, TimelocksKept
  <2>6. ASSUME NEW key \in Keys, RegisterEnclave(a, key) PROVE TimelocksKept'
    BY <2>6 DEF RegisterEnclave, TypeOK, WalletType, TimelocksKept
  <2>7. CASE UNCHANGED <<open, wallet, initiatedAt>>
    BY <2>7 DEF TimelocksKept
  <2>. QED  BY <1>2, <2>1, <2>2, <2>3, <2>4, <2>5, <2>6, <2>7
            DEF OwnerStep, AddAllowedProgram, RemoveAllowedProgram
<1>3. ASSUME NEW a \in Authorities, MessageStep(a) PROVE TimelocksKept'
  <2>1. /\ UNCHANGED <<open, initiatedAt>>
        /\ \A b \in Authorities : wallet'[b].unlock = wallet[b].unlock
    <3>1. ASSUME NEW m \in Intents, NEW dest \in Destinations, NEW amount \in Amounts,
                 ExecuteTransfer(a, m, dest, amount)
          PROVE  wallet' = [wallet EXCEPT ![a].nonce = @ + 1]
                 /\ UNCHANGED <<open, initiatedAt>>
      BY <3>1 DEF ExecuteTransfer, TransferPasses
    <3>2. ASSUME NEW m \in Intents, NEW target \in Programs, NEW call \in Calls,
                 ExecuteArbitraryCpi(a, m, target, call)
          PROVE  wallet' = [wallet EXCEPT ![a].nonce = @ + 1]
                 /\ UNCHANGED <<open, initiatedAt>>
      BY <3>2 DEF ExecuteArbitraryCpi, CpiPasses
    <3>3. ASSUME NEW m \in Proofs, NEW payer \in Accounts, RegisterEnclaveV2(a, m, payer)
          PROVE  wallet' = [wallet EXCEPT ![a].signer = m.key, ![a].nonce = @ + 1]
                 /\ UNCHANGED <<open, initiatedAt>>
      BY <3>3 DEF RegisterEnclaveV2
    <3>4. wallet \in [Authorities -> WalletType] /\ UNCHANGED <<open, initiatedAt>>
      BY <1>3, <3>1, <3>2, <3>3 DEF MessageStep, TypeOK
    <3>5. CASE wallet' = [wallet EXCEPT ![a].nonce = @ + 1]
      BY <3>4, <3>5 DEF WalletType
    <3>6. ASSUME NEW m \in Proofs,
                 wallet' = [wallet EXCEPT ![a].signer = m.key, ![a].nonce = @ + 1]
          PROVE  \A b \in Authorities : wallet'[b].unlock = wallet[b].unlock
      BY <3>4, <3>6 DEF WalletType
    <3>. QED  BY <1>3, <3>1, <3>2, <3>3, <3>4, <3>5, <3>6 DEF MessageStep
  <2>. QED  BY <2>1 DEF TypeOK, TimelocksKept
<1>4. ASSUME NEW g \in Governors, RegistryStep(g) PROVE TimelocksKept'
  BY <1>4 DEF RegistryStep, InitMeasurementRegistry, AddMeasurement,
              RevokeMeasurement, TransferGovernor, TimelocksKept
<1>5. CASE ChainStep
  BY <1>5 DEF ChainStep, NextSlot, AdvanceClock, Deposit, TimelocksKept
<1>. QED  BY <1>1, <1>2, <1>3, <1>4, <1>5 DEF Next

\* The message a step accepts is not one of those accepted before.
LEMMA FreshRecord ==
    ASSUME TypeOK, NonceInv, NEW a \in open, NEW m
    PROVE  SpendOf(a, m) \notin consumed /\ \A payer : RotationOf(a, m, payer) \notin consumed
<1>1. a \in Authorities
  BY DEF TypeOK
<1>2. \A r \in ThisEpoch(a) : r.nonce < wallet[a].nonce
  BY <1>1 DEF NonceInv, WalletInv, SpentInOrder
<1>3. wallet[a].nonce \in Nat
  BY <1>1, WalletNonce
<1>4. ASSUME NEW r \in consumed, r.wallet = a, r.epoch = epoch[a], r.nonce = wallet[a].nonce
      PROVE  FALSE
  BY <1>2, <1>3, <1>4 DEF ThisEpoch
<1>. QED  BY <1>4 DEF SpendOf, RotationOf

\* Lamports only leave by an accepted transfer or by the escape.
LEMMA FundsLeave ==
    ASSUME TypeOK, NonceInv, TimelocksKept, [Next]_vars, NEW a \in Authorities,
           lamports'[a] < lamports[a]
    PROVE  SpentByTransfer(a) \/ EscapedAfterDelay(a)
<1>1. lamports[a] \in Nat /\ lamports' # lamports
  BY DEF TypeOK
<1>2. ASSUME NEW b \in Authorities, ExecuteEscape(b)
      PROVE  EscapedAfterDelay(a)
  <2>1. b = a
    BY <1>1, <1>2 DEF ExecuteEscape, TypeOK
  <2>2. /\ wallet[a].unlock > 0 /\ a \in open
        /\ now >= wallet[a].unlock
    BY <1>2, <2>1 DEF ExecuteEscape, TimelockPassed
  <2>3. wallet[a].unlock = initiatedAt[a] + Delay /\ initiatedAt[a] \in Nat
    BY <2>2 DEF TimelocksKept
  <2>4. lamports'[a] = 0
    BY <1>2, <2>1 DEF ExecuteEscape, TypeOK
  <2>. QED  BY <2>2, <2>3, <2>4, BoundsAssumption DEF EscapedAfterDelay, TypeOK
<1>3. ASSUME NEW b \in Authorities, NEW m \in Intents, NEW dest \in Destinations,
             NEW amount \in Amounts, ExecuteTransfer(b, m, dest, amount)
      PROVE  SpentByTransfer(a)
  <2>1. /\ lamports'[a] = lamports[a] - (IF a = b THEN amount ELSE 0)
                                      + (IF a = dest THEN amount ELSE 0)
        /\ amount \in Nat
    BY <1>3, LamportsAssumption DEF ExecuteTransfer, TransferPasses, Moved
  <2>2. a = b /\ a # dest /\ lamports'[a] = lamports[a] - amount
    BY <1>1, <2>1
  <2>3. m.kind = "transfer" /\ m.payload.dest = dest /\ m.payload.amount = amount
    BY <1>3 DEF ExecuteTransfer, TransferPasses, VerifyEnclaveIntent, TransferPayload
  <2>4. a \in open /\ wallet[a].active /\ consumed' = consumed \cup {SpendOf(a, m)}
    BY <1>3, <2>2 DEF ExecuteTransfer, TransferPasses
  <2>5. SpendOf(a, m) \in consumed' \ consumed
    BY <2>4, FreshRecord
  <2>6. SpendOf(a, m).wallet = a /\ SpendOf(a, m).use = "spend" /\ SpendOf(a, m).msg = m
    BY DEF SpendOf
  <2>. QED  BY <2>2, <2>3, <2>4, <2>5, <2>6 DEF SpentByTransfer
<1>4. ASSUME NEW b \in Authorities, OwnerStep(b)
      PROVE  ExecuteEscape(b) \/ lamports'[a] >= lamports[a]
  <2>1. ASSUME NEW key \in Keys, NEW limits \in Limits, InitializeWallet(b, key, limits)
        PROVE  lamports'[a] >= lamports[a]
    BY <1>1, <2>1, LamportsAssumption DEF InitializeWallet, TypeOK
  <2>. QED  BY <1>1, <1>4, <2>1
            DEF OwnerStep, UpdatePolicy, TogglePause, RegisterEnclave,
                AddAllowedProgram, RemoveAllowedProgram, InitiateTimelock
<1>5. ASSUME NEW b \in Authorities, MessageStep(b)
      PROVE  \/ \E m \in Intents, dest \in Destinations, amount \in Amounts :
                    ExecuteTransfer(b, m, dest, amount)
             \/ lamports' = lamports
             \/ lamports'[a] >= lamports[a]
  BY <1>5, CpiCredits DEF MessageStep, RegisterEnclaveV2
<1>6. ASSUME NEW g \in Governors, RegistryStep(g) PROVE lamports' = lamports
  BY <1>6 DEF RegistryStep, InitMeasurementRegistry, AddMeasurement,
              RevokeMeasurement, TransferGovernor
<1>7. ASSUME ChainStep PROVE lamports'[a] >= lamports[a]
  <2>1. ASSUME NEW b \in Authorities, NEW amount \in Amounts, Deposit(b, amount)
        PROVE  lamports'[a] >= lamports[a]
    <3>1. amount \in Nat /\ lamports' = [lamports EXCEPT ![b] = @ + amount]
      BY <2>1, LamportsAssumption DEF Deposit
    <3>. QED  BY <1>1, <3>1 DEF TypeOK
  <2>. QED  BY <1>1, <1>7, <2>1 DEF ChainStep, NextSlot, AdvanceClock
<1>8. ASSUME UNCHANGED vars PROVE lamports' = lamports
  BY <1>8 DEF vars
<1>9. ~(lamports'[a] >= lamports[a])
  <2>1. lamports'[a] \in Nat
    BY TypeNext DEF TypeOK
  <2>. QED  BY <1>1, <2>1
<1>10. \/ \E b \in Authorities : ExecuteEscape(b)
       \/ \E b \in Authorities, m \in Intents, dest \in Destinations, amount \in Amounts :
             ExecuteTransfer(b, m, dest, amount)
  BY <1>1, <1>4, <1>5, <1>6, <1>7, <1>8, <1>9 DEF Next
<1>. QED  BY <1>2, <1>3, <1>10

\* Funds only leave a wallet by an intent accepted while it is not paused, or by
\* the escape, at least Delay after the owner asked for it.
THEOREM FundsGuarded == Spec => FundsLeaveByIntentOrTimelock
<1>1. Init => TimelocksKept
  BY DEF Init, TimelocksKept
<1>2. TypeOK /\ NonceInv /\ TimelocksKept /\ [Next]_vars =>
        [\A a \in Authorities : lamports'[a] < lamports[a] =>
            SpentByTransfer(a) \/ EscapedAfterDelay(a)]_vars
  BY FundsLeave
<1>. QED  BY <1>1, <1>2, TimelocksNext, NonceInvAlways, TypeCorrect, PTL
          DEF Spec, FundsLeaveByIntentOrTimelock

-----------------------------------------------------------------------------
(* The allowlist.                                                          *)

LEMMA GrantsNext == TypeOK /\ GrantsKept /\ [Next]_vars => GrantsKept'
<1> SUFFICES ASSUME TypeOK, GrantsKept, [Next]_vars PROVE GrantsKept'
  OBVIOUS
<1>0. CASE UNCHANGED <<policy, granted>>
  BY <1>0 DEF GrantsKept
<1>1. ASSUME NEW a \in Authorities, OwnerStep(a) PROVE GrantsKept'
  <2>0. policy \in [Authorities -> PolicyType] /\ granted \in [Authorities -> SUBSET Programs]
    BY DEF TypeOK
  <2>1. ASSUME NEW key \in Keys, NEW limits \in Limits, InitializeWallet(a, key, limits)
        PROVE  GrantsKept'
    BY <2>0, <2>1, EmptyPolicyCorrect DEF InitializeWallet, GrantsKept
  <2>2. CASE ExecuteEscape(a)
    BY <2>0, <2>2, EmptyPolicyCorrect DEF ExecuteEscape, GrantsKept
  <2>3. ASSUME NEW p \in Programs, AddAllowedProgram(a, p) PROVE GrantsKept'
    <3>1. policy[a] \in PolicyType /\ WellFormed(policy[a]) /\ MayAdd(policy[a], p)
      BY <2>0, <2>3 DEF AddAllowedProgram, GrantsKept
    <3>2. /\ WellFormed(WithProgram(policy[a], p))
          /\ \A q \in Programs : Contains(WithProgram(policy[a], p), q)
                                    <=> Contains(policy[a], q) \/ q = p
      BY <3>1, AdditionCorrect
    <3>3. granted[a] \cup {p} = {q \in Programs : Contains(WithProgram(policy[a], p), q)}
      BY <3>2 DEF GrantsKept
    <3>. QED  BY <2>0, <2>3, <3>2, <3>3 DEF AddAllowedProgram, GrantsKept
  <2>4. ASSUME NEW p \in Programs, RemoveAllowedProgram(a, p) PROVE GrantsKept'
    <3>1. policy[a] \in PolicyType /\ WellFormed(policy[a]) /\ Contains(policy[a], p)
      BY <2>0, <2>4 DEF RemoveAllowedProgram, GrantsKept
    <3>2. /\ WellFormed(WithoutProgram(policy[a], p))
          /\ \A q \in Programs : Contains(WithoutProgram(policy[a], p), q)
                                    <=> Contains(policy[a], q) /\ q # p
      BY <3>1, RemovalCorrect
    <3>3. granted[a] \ {p} = {q \in Programs : Contains(WithoutProgram(policy[a], p), q)}
      BY <3>2 DEF GrantsKept
    <3>. QED  BY <2>0, <2>4, <3>2, <3>3 DEF RemoveAllowedProgram, GrantsKept
  <2>. QED  BY <1>0, <1>1, <2>1, <2>2, <2>3, <2>4
            DEF OwnerStep, UpdatePolicy, TogglePause, RegisterEnclave, InitiateTimelock
<1>2. ASSUME NEW a \in Authorities, MessageStep(a) PROVE UNCHANGED <<policy, granted>>
  BY <1>2 DEF MessageStep, ExecuteTransfer, ExecuteArbitraryCpi, RegisterEnclaveV2
<1>3. ASSUME NEW g \in Governors, RegistryStep(g) PROVE UNCHANGED <<policy, granted>>
  BY <1>3 DEF RegistryStep, InitMeasurementRegistry, AddMeasurement,
              RevokeMeasurement, TransferGovernor
<1>4. ASSUME ChainStep PROVE UNCHANGED <<policy, granted>>
  BY <1>4 DEF ChainStep, NextSlot, AdvanceClock, Deposit
<1>5. ASSUME UNCHANGED vars PROVE UNCHANGED <<policy, granted>>
  BY <1>5 DEF vars
<1>. QED  BY <1>0, <1>1, <1>2, <1>3, <1>4, <1>5 DEF Next

LEMMA CpiStep ==
    ASSUME GrantsKept, [Next]_vars, NEW r \in consumed' \ consumed,
           r.use = "spend", r.msg.kind = "cpi"
    PROVE  /\ r.msg.payload.target \in granted[r.wallet] \ {Solora}
           /\ wallet[r.wallet].active
<1>1. ASSUME NEW a \in Authorities, NEW m \in Intents, NEW dest \in Destinations,
             NEW amount \in Amounts, ExecuteTransfer(a, m, dest, amount), r = SpendOf(a, m)
      PROVE  FALSE
  BY <1>1 DEF ExecuteTransfer, TransferPasses, VerifyEnclaveIntent, SpendOf
<1>2. ASSUME NEW a \in Authorities, NEW m \in Proofs, NEW payer \in Accounts,
             r = RotationOf(a, m, payer)
      PROVE  FALSE
  BY <1>2 DEF RotationOf
<1>3. PICK a \in Authorities, m \in Intents, target \in Programs, call \in Calls :
         ExecuteArbitraryCpi(a, m, target, call) /\ r = SpendOf(a, m)
  BY <1>1, <1>2, NewlyConsumed
<1>4. r.wallet = a /\ r.msg.payload.target = target
  BY <1>3 DEF ExecuteArbitraryCpi, CpiPasses, VerifyEnclaveIntent, CpiPayload, SpendOf
<1>. QED  BY <1>3, <1>4 DEF ExecuteArbitraryCpi, CpiPasses, GrantsKept

\* The target of a CPI is on the owner's list at the time, and never this
\* program: swap-with-last removals leave nothing behind that would pass.
THEOREM CpiGuarded == Spec => CpiTargetGranted
<1>1. Init => GrantsKept
  BY EmptyPolicyCorrect DEF Init, GrantsKept
<1>2. GrantsKept /\ [Next]_vars =>
        [\A r \in consumed' \ consumed :
          r.use = "spend" /\ r.msg.kind = "cpi" =>
              /\ r.msg.payload.target \in granted[r.wallet] \ {Solora}
              /\ wallet[r.wallet].active]_vars
  BY CpiStep
<1>. QED  BY <1>1, <1>2, GrantsNext, TypeCorrect, PTL DEF Spec, CpiTargetGranted

-----------------------------------------------------------------------------
(* The registry.                                                           *)

LEMMA RevocationsNext == TypeOK /\ RevocationsKept /\ [Next]_vars => RevocationsKept'
<1> SUFFICES ASSUME TypeOK, RevocationsKept, [Next]_vars PROVE RevocationsKept'
  OBVIOUS
<1>0. CASE UNCHANGED <<governor, entries, revoked>>
  BY <1>0 DEF RevocationsKept
<1>1. ASSUME NEW g \in Governors, RegistryStep(g) PROVE RevocationsKept'
  <2>0. entries \in Seq(EntryType) /\ Distinct(entries)
    BY DEF TypeOK, RevocationsKept
  <2>1. CASE InitMeasurementRegistry(g)
    BY <2>1, AccountsAssumption, EmptySeq
       DEF InitMeasurementRegistry, RegistryOpen, Distinct, RevocationsKept
  <2>2. ASSUME NEW m \in Measurements, AddMeasurement(g, m) PROVE RevocationsKept'
    <3>1. /\ Distinct(entries') /\ Len(entries') = Len(entries) + 1
          /\ \A i \in 1..Len(entries) : entries'[i] = entries[i]
      BY <2>0, <2>2, AddMeasurementCorrect DEF AddMeasurement
    <3>2. Len(entries) \in Nat
      BY <2>0, LenProperties
    <3>. QED  BY <2>2, <3>1, <3>2 DEF AddMeasurement, RevocationsKept
  <2>3. ASSUME NEW m \in Measurements, RevokeMeasurement(g, m) PROVE RevocationsKept'
    <3>1. /\ Len(entries') = Len(entries)
          /\ \A i \in 1..Len(entries) :
                /\ entries'[i].measurement = entries[i].measurement
                /\ entries'[i].status = IF entries[i].measurement = m THEN "revoked"
                                        ELSE entries[i].status
      BY <2>0, <2>3, RevokeCorrect DEF RevokeMeasurement
    <3>2. Distinct(entries')
      BY <2>0, <3>1 DEF Distinct
    <3>3. ASSUME NEW n \in revoked \cup {m}
          PROVE  \E i \in 1..Len(entries') :
                    entries'[i].measurement = n /\ entries'[i].status = "revoked"
      BY <2>3, <3>1 DEF RevokeMeasurement, Present, RevocationsKept
    <3>. QED  BY <2>3, <3>2, <3>3 DEF RevokeMeasurement, RegistryOpen, RevocationsKept
  <2>4. ASSUME NEW new \in Governors, TransferGovernor(g, new) PROVE RevocationsKept'
    BY <2>4, AccountsAssumption DEF TransferGovernor, RevocationsKept
  <2>. QED  BY <1>1, <2>1, <2>2, <2>3, <2>4 DEF RegistryStep
<1>2. ASSUME NEW a \in Authorities, OwnerStep(a)
      PROVE  UNCHANGED <<governor, entries, revoked>>
  BY <1>2 DEF OwnerStep, InitializeWallet, UpdatePolicy, TogglePause, RegisterEnclave,
              AddAllowedProgram, RemoveAllowedProgram, InitiateTimelock, ExecuteEscape
<1>3. ASSUME NEW a \in Authorities, MessageStep(a)
      PROVE  UNCHANGED <<governor, entries, revoked>>
  BY <1>3 DEF MessageStep, ExecuteTransfer, ExecuteArbitraryCpi, RegisterEnclaveV2
<1>4. ASSUME ChainStep PROVE UNCHANGED <<governor, entries, revoked>>
  BY <1>4 DEF ChainStep, NextSlot, AdvanceClock, Deposit
<1>5. ASSUME UNCHANGED vars PROVE UNCHANGED <<governor, entries, revoked>>
  BY <1>5 DEF vars
<1>. QED  BY <1>0, <1>1, <1>2, <1>3, <1>4, <1>5 DEF Next

LEMMA RotationStep ==
    ASSUME TypeOK, RevocationsKept, [Next]_vars, NEW r \in consumed' \ consumed,
           r.use = "rotation"
    PROVE  r.msg.measurement \notin revoked
<1>1. PICK a \in Authorities, m \in Proofs, payer \in Accounts :
         RegisterEnclaveV2(a, m, payer) /\ r = RotationOf(a, m, payer)
  BY NewlyConsumed DEF SpendOf
<1>2. IsActive(entries, m.measurement) /\ r.msg = m
  BY <1>1 DEF RegisterEnclaveV2, RotationOf
<1>3. entries \in Seq(EntryType) /\ Distinct(entries)
  BY DEF TypeOK, RevocationsKept
<1> DEFINE k == IndexOf(entries, m.measurement)
<1>4. /\ k \in 1..Len(entries) /\ entries[k].measurement = m.measurement
      /\ entries[k].status = "active"
  BY <1>2, <1>3, IndexCorrect DEF IsActive
<1> HIDE DEF k
<1>. QED  BY <1>2, <1>3, <1>4 DEF RevocationsKept, Distinct

\* A revoked measurement backs no rotation, whoever is governor and whatever is
\* added to the registry afterwards.
THEOREM RevocationFinal == Spec => RevocationIsFinal
<1>1. Init => RevocationsKept
  BY EmptySeq DEF Init, RevocationsKept, Distinct
<1>2. TypeOK /\ RevocationsKept /\ [Next]_vars =>
        [\A r \in consumed' \ consumed :
          r.use = "rotation" => r.msg.measurement \notin revoked]_vars
  BY RotationStep
<1>. QED  BY <1>1, <1>2, RevocationsNext, TypeCorrect, PTL DEF Spec, RevocationIsFinal

-----------------------------------------------------------------------------
(* The sum of the balances.  That the fold is one, and how it changes with *)
(* a balance, is shown by induction over the subsets of the authorities,   *)
(* on the well-foundedness of their inclusion.                             *)

\* The element that the sum takes next, and what is left for it.
NextTerm(s) == CHOOSE x \in s : TRUE
OtherTerms(s) == s \ {NextTerm(s)}

\* f holds the sum of b over every subset of U.
Sums(f, b, U) ==
    /\ f \in [SUBSET U -> Int]
    /\ \A s \in SUBSET U : f[s] = IF s = {} THEN 0 ELSE b[NextTerm(s)] + f[OtherTerms(s)]

LEMMA TermFacts ==
    ASSUME NEW s, s # {}
    PROVE  NextTerm(s) \in s /\ OtherTerms(s) \subseteq s /\ OtherTerms(s) # s
BY DEF NextTerm, OtherTerms

\* Induction over the subsets of a finite set: what holds of each that it holds of
\* all smaller ones of, holds of all.
LEMMA SubsetInduction ==
    ASSUME NEW S, IsFiniteSet(S), NEW Good \in SUBSET (SUBSET S),
           \A s \in SUBSET S : (\A t \in SUBSET s : t # s => t \in Good) => s \in Good
    PROVE  Good = SUBSET S
<1> DEFINE Bad == (SUBSET S) \ Good
<1>1. SUFFICES ASSUME Bad # {} PROVE FALSE
  OBVIOUS
<1>2. IsWellFoundedOn(StrictSubsetOrdering(S), SUBSET S)
  BY FS_StrictSubsetOrderingWellFounded, FS_FiniteSubsetsOfFinite
<1>3. Bad \subseteq SUBSET S
  OBVIOUS
<1> HIDE DEF Bad
<1>4. PICK s \in Bad : \A t \in Bad : <<t, s>> \notin StrictSubsetOrdering(S)
  BY <1>1, <1>2, <1>3, WFMin
<1>5. ASSUME NEW t \in SUBSET s, t # s PROVE t \in Good
  <2>1. <<t, s>> \in StrictSubsetOrdering(S)
    BY <1>3, <1>4, <1>5 DEF StrictSubsetOrdering
  <2> QED BY <1>3, <1>4, <1>5, <2>1 DEF Bad
<1> QED BY <1>3, <1>4, <1>5 DEF Bad

LEMMA SumsAgree ==
    ASSUME NEW A, IsFiniteSet(A), NEW b, NEW U \in SUBSET A, NEW V \in SUBSET A,
           NEW f, NEW g, Sums(f, b, U), Sums(g, b, V)
    PROVE  \A s \in SUBSET A : s \subseteq U /\ s \subseteq V => f[s] = g[s]
<1> DEFINE Good == {s \in SUBSET A : s \subseteq U /\ s \subseteq V => f[s] = g[s]}
<1>1. ASSUME NEW s \in SUBSET A, \A t \in SUBSET s : t # s => t \in Good
      PROVE  s \in Good
  <2>1. CASE s = {}
    BY <2>1 DEF Sums
  <2>2. CASE s # {}
    <3>1. OtherTerms(s) \in Good /\ OtherTerms(s) \subseteq s
      BY <1>1, <2>2, TermFacts
    <3> QED BY <2>2, <3>1 DEF Sums
  <2> QED BY <2>1, <2>2
<1>2. Good \in SUBSET (SUBSET A)
  OBVIOUS
<1> HIDE DEF Good
<1>3. Good = SUBSET A
  BY <1>1, <1>2, SubsetInduction
<1> QED BY <1>3 DEF Good

LEMMA SumsExist ==
    ASSUME NEW A, IsFiniteSet(A), NEW b \in [A -> Int]
    PROVE  \E f : Sums(f, b, A)
<1> DEFINE Good == {U \in SUBSET A : \E f : Sums(f, b, U)}
<1>1. ASSUME NEW U \in SUBSET A, \A V \in SUBSET U : V # U => V \in Good
      PROVE  U \in Good
  <2> DEFINE F(V) == CHOOSE f : Sums(f, b, V)
             sum == [s \in SUBSET U |-> IF s = {} THEN 0 ELSE b[NextTerm(s)] + F(OtherTerms(s))[OtherTerms(s)]]
  <2>1. ASSUME NEW V \in SUBSET U, V # U PROVE Sums(F(V), b, V)
    BY <1>1, <2>1
  <2> HIDE DEF F
  <2>2. ASSUME NEW s \in SUBSET U, s # {}
        PROVE  /\ OtherTerms(s) \in SUBSET U /\ OtherTerms(s) # U
               /\ NextTerm(s) \in A
               /\ Sums(F(OtherTerms(s)), b, OtherTerms(s))
               /\ F(OtherTerms(s))[OtherTerms(s)] \in Int
    <3>1. OtherTerms(s) \in SUBSET U /\ OtherTerms(s) # U /\ NextTerm(s) \in A
      BY <2>2, TermFacts
    <3>2. Sums(F(OtherTerms(s)), b, OtherTerms(s))
      BY <2>1, <3>1
    <3> QED BY <3>1, <3>2 DEF Sums
  <2>3. sum \in [SUBSET U -> Int]
    BY <2>2
  <2>4. ASSUME NEW s \in SUBSET U
        PROVE  sum[s] = IF s = {} THEN 0 ELSE b[NextTerm(s)] + sum[OtherTerms(s)]
    <3>1. CASE s = {}
      BY <3>1
    <3>2. CASE s # {}
      <4> DEFINE t == OtherTerms(s)
      <4>1. t \in SUBSET U /\ t # U /\ Sums(F(t), b, t)
        BY <2>2, <3>2
      <4>2. sum[t] = F(t)[t]
        <5>1. CASE t = {}
          <6>1. F(t)[t] = 0
            BY <4>1, <5>1 DEF Sums
          <6>2. sum[t] = 0
            BY <4>1, <5>1
          <6> QED BY <6>1, <6>2
        <5>2. CASE t # {}
          <6> DEFINE r == OtherTerms(t)
          <6>1. r \in SUBSET t /\ r \in SUBSET A /\ t \in SUBSET A /\ Sums(F(r), b, r)
            BY <2>2, <4>1, <5>2, TermFacts
          <6>2. F(t)[r] = F(r)[r]
            <7> HIDE DEF r, t
            <7> QED BY <4>1, <6>1, SumsAgree
          <6>3. F(t)[t] = b[NextTerm(t)] + F(t)[r]
            BY <4>1, <5>2 DEF Sums
          <6>4. sum[t] = b[NextTerm(t)] + F(r)[r]
            <7> HIDE DEF t
            <7> QED BY <4>1, <5>2
          <6> QED BY <6>2, <6>3, <6>4
        <5> QED BY <5>1, <5>2
      <4> QED BY <3>2, <4>2
    <3> QED BY <3>1, <3>2
  <2>5. Sums(sum, b, U)
    <3> HIDE DEF sum
    <3> QED BY <2>3, <2>4 DEF Sums
  <2> QED BY <2>5
<1>2. Good \in SUBSET (SUBSET A)
  OBVIOUS
<1> HIDE DEF Good
<1>3. Good = SUBSET A
  BY <1>1, <1>2, SubsetInduction
<1> QED BY <1>3 DEF Good

LEMMA TotalSums ==
    ASSUME NEW A, IsFiniteSet(A), NEW b \in [A -> Int]
    PROVE  \E f : Sums(f, b, A) /\ Total(b) = f[A]
<1> DEFINE Def(f) == [s \in SUBSET A |-> IF s = {} THEN 0 ELSE b[NextTerm(s)] + f[OtherTerms(s)]]
           f == CHOOSE f : f = Def(f)
<1>1. Total(b) = f[A]
  BY DEF Total, FoldFunction, FoldFunctionOnSet, MapThenFoldSet, NextTerm, OtherTerms
<1>2. PICK g : Sums(g, b, A)
  BY SumsExist
<1>3. g = Def(g)
  BY <1>2 DEF Sums
<1>4. f = Def(f)
  <2> HIDE DEF Def
  <2> QED BY <1>3
<1> HIDE DEF f
<1>5. \A s \in SUBSET A : f[s] = IF s = {} THEN 0 ELSE b[NextTerm(s)] + f[OtherTerms(s)]
  BY <1>4
<1>6. \A s \in SUBSET A : f[s] \in Int
  <2> DEFINE Good == {s \in SUBSET A : f[s] \in Int}
  <2>1. ASSUME NEW s \in SUBSET A, \A t \in SUBSET s : t # s => t \in Good
        PROVE  s \in Good
    <3>1. CASE s = {}
      <4>1. f[s] = 0
        BY <1>5, <3>1
      <4> QED BY <4>1
    <3>2. CASE s # {}
      <4>1. OtherTerms(s) \in Good /\ NextTerm(s) \in A
        BY <2>1, <3>2, TermFacts
      <4> QED BY <1>5, <3>2, <4>1
    <3> QED BY <3>1, <3>2
  <2>2. Good \in SUBSET (SUBSET A)
    OBVIOUS
  <2> HIDE DEF Good
  <2>3. Good = SUBSET A
    BY <2>1, <2>2, SubsetInduction
  <2> QED BY <2>3 DEF Good
<1>7. Sums(f, b, A)
  BY <1>4, <1>5, <1>6 DEF Sums
<1> QED BY <1>1, <1>7

\* A change of one term changes the total by as much.
LEMMA TotalOfChange ==
    ASSUME NEW A, IsFiniteSet(A), NEW b \in [A -> Int], NEW c \in [A -> Int],
           NEW a \in A, \A x \in A \ {a} : c[x] = b[x]
    PROVE  Total(b) \in Int /\ Total(c) = Total(b) + c[a] - b[a]
<1>1. PICK f : Sums(f, b, A) /\ Total(b) = f[A]
  BY TotalSums
<1>2. PICK g : Sums(g, c, A) /\ Total(c) = g[A]
  BY TotalSums
<1> DEFINE Good == {s \in SUBSET A : g[s] = IF a \in s THEN f[s] + c[a] - b[a] ELSE f[s]}
<1>3. ASSUME NEW s \in SUBSET A, \A t \in SUBSET s : t # s => t \in Good
      PROVE  s \in Good
  <2>1. CASE s = {}
    BY <1>1, <1>2, <2>1 DEF Sums
  <2>2. CASE s # {}
    <3>1. /\ NextTerm(s) \in s /\ NextTerm(s) \in A /\ OtherTerms(s) \in SUBSET A
          /\ g[OtherTerms(s)] = IF a \in OtherTerms(s) THEN f[OtherTerms(s)] + c[a] - b[a] ELSE f[OtherTerms(s)]
      BY <1>3, <2>2, TermFacts
    <3>2. a \in OtherTerms(s) <=> a \in s /\ a # NextTerm(s)
      BY DEF OtherTerms
    <3>3. /\ f[s] = b[NextTerm(s)] + f[OtherTerms(s)] /\ g[s] = c[NextTerm(s)] + g[OtherTerms(s)]
          /\ f[OtherTerms(s)] \in Int
      BY <1>1, <1>2, <2>2, <3>1 DEF Sums
    <3>4. b[NextTerm(s)] \in Int /\ c[NextTerm(s)] \in Int /\ b[a] \in Int /\ c[a] \in Int
      BY <3>1
    <3>5. CASE a = NextTerm(s)
      BY <3>1, <3>2, <3>3, <3>4, <3>5
    <3>6. CASE a # NextTerm(s)
      <4>1. c[NextTerm(s)] = b[NextTerm(s)]
        BY <3>1, <3>6
      <4> QED BY <3>1, <3>2, <3>3, <3>4, <3>6, <4>1
    <3> QED BY <3>5, <3>6
  <2> QED BY <2>1, <2>2
<1>4. Good \in SUBSET (SUBSET A)
  OBVIOUS
<1> HIDE DEF Good
<1>5. A \in Good
  BY <1>3, <1>4, SubsetInduction
<1> QED BY <1>1, <1>2, <1>5 DEF Good, Sums

\* What a transfer moves leaves the total only if it leaves the wallets.
LEMMA MovedTotal ==
    ASSUME TypeOK, NEW a \in Authorities, NEW dest \in Destinations, NEW amount \in Amounts,
           lamports' = Moved(a, dest, amount)
    PROVE  /\ Total(lamports) \in Int
           /\ Total(lamports') = Total(lamports) - (IF dest = Outside THEN amount ELSE 0)
<1> DEFINE drawn == [b \in Authorities |-> lamports[b] - (IF b = a THEN amount ELSE 0)]
<1>0. amount \in Int /\ lamports \in [Authorities -> Int] /\ IsFiniteSet(Authorities)
  BY LamportsAssumption, FiniteAssumption DEF TypeOK
<1>1. drawn \in [Authorities -> Int] /\ drawn[a] = lamports[a] - amount
  BY <1>0
<1>2. \A b \in Authorities \ {a} : drawn[b] = lamports[b]
  BY <1>0
<1>3. lamports' \in [Authorities -> Int]
  BY <1>0 DEF Moved
<1>4. \A b \in Authorities : lamports'[b] = drawn[b] + (IF b = dest THEN amount ELSE 0)
  BY <1>0 DEF Moved
<1> HIDE DEF drawn
<1>5. Total(lamports) \in Int /\ Total(drawn) = Total(lamports) + drawn[a] - lamports[a]
  BY <1>0, <1>1, <1>2, TotalOfChange
<1>6. Total(drawn) = Total(lamports) - amount
  <2>1. lamports[a] \in Int
    BY <1>0
  <2> QED BY <1>0, <1>1, <1>5, <2>1
<1>7. CASE dest = Outside
  <2>1. \A b \in Authorities : lamports'[b] = drawn[b]
    BY <1>1, <1>4, <1>7, AccountsAssumption
  <2>2. lamports' = drawn
    BY <1>1, <1>3, <2>1
  <2> QED BY <1>5, <1>6, <1>7, <2>2
<1>8. CASE dest # Outside
  <2>1. dest \in Authorities
    BY <1>8 DEF Destinations
  <2>2. lamports'[dest] = drawn[dest] + amount /\ drawn[dest] \in Int
    BY <1>1, <1>4, <2>1
  <2>3. \A b \in Authorities \ {dest} : lamports'[b] = drawn[b]
    BY <1>1, <1>4
  <2>4. Total(lamports') = Total(drawn) + lamports'[dest] - drawn[dest]
    BY <1>0, <1>1, <1>3, <2>1, <2>3, TotalOfChange
  <2> QED BY <1>0, <1>5, <1>6, <1>8, <2>2, <2>4
<1> QED BY <1>7, <1>8

\* The total follows what the message says.
TotalFollows(r) ==
    Total(lamports') = Total(lamports) -
       (IF r.msg.payload.dest = Outside THEN r.msg.payload.amount ELSE 0)

\* No transfer makes lamports or loses any: what it takes from one wallet is in
\* another or went outside, the very wallet it draws on included (lib.rs:97-98).
THEOREM LamportsAreConserved == Spec => LamportsConserved
<1>1. ASSUME TypeOK, [Next]_vars, NEW r \in consumed' \ consumed,
             r.use = "spend", r.msg.kind = "transfer"
      PROVE  TotalFollows(r)
  <2>1. ASSUME NEW a \in Authorities, NEW m \in Intents, NEW dest \in Destinations,
               NEW amount \in Amounts, ExecuteTransfer(a, m, dest, amount), r = SpendOf(a, m)
        PROVE  TotalFollows(r)
    <3>1. m.kind = "transfer" /\ m.payload.dest = dest /\ m.payload.amount = amount
      BY <2>1 DEF ExecuteTransfer, TransferPasses, VerifyEnclaveIntent, TransferPayload
    <3>2. r.msg = m
      BY <2>1 DEF SpendOf
    <3>3. lamports' = Moved(a, dest, amount)
      BY <2>1 DEF ExecuteTransfer
    <3> QED BY <1>1, <3>1, <3>2, <3>3, MovedTotal DEF TotalFollows
  <2>2. ~\E a \in Authorities, m \in Intents, target \in Programs, call \in Calls :
            ExecuteArbitraryCpi(a, m, target, call) /\ r = SpendOf(a, m)
    BY <1>1 DEF ExecuteArbitraryCpi, CpiPasses, VerifyEnclaveIntent, SpendOf
  <2>3. \A a \in Authorities, m \in Proofs, payer \in Accounts : r # RotationOf(a, m, payer)
    BY <1>1 DEF RotationOf
  <2> QED BY <1>1, <2>1, <2>2, <2>3, NewlyConsumed
<1>2. TypeOK /\ [Next]_vars =>
        [\A r \in consumed' \ consumed :
            (r.use = "spend" /\ r.msg.kind = "transfer") => TotalFollows(r)]_vars
  BY <1>1
<1>. QED  BY <1>2, TypeCorrect, PTL DEF Spec, LamportsConserved, TotalFollows
=============================================================================
