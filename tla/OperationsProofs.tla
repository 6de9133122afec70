-------------------------- MODULE OperationsProofs --------------------------
(***************************************************************************)
(* Theorems about the relayer's command line, for any number of jobs, any  *)
(* commands, keys, faults and bounds.  Whatever the jobs do, the chain     *)
(* sees a behaviour of SoloraProgram, so all that is proved of the program *)
(* holds here; a message that takes effect was signed for a nonce that is  *)
(* current still; and a demo that nobody disturbs sets its wallet up.      *)
(***************************************************************************)
EXTENDS Operations, FundsProofs

USE DEF clockVars, accountVars, registryVars, historyVars, opsVars

\* Keys that the enclave may answer with.
Served == {ServedKeys[i] : i \in 1..Len(ServedKeys)}

HasRead(j, r) == \E i \in 1..job[j].reads : ReadsOf(Op(j))[i] = r
NeedsKey(op) == \E i \in 1..Len(ReadsOf(op)) : ReadsOf(op)[i] = "key"

\* Slots that were read do not lie ahead.
Signable(rec) == rec.expiry <= slot + ExpirySlots /\ rec.hash <= slot

\* A job has what it needs by the time it sends.
JobInv(j) ==
    /\ Signable(job[j])
    /\ job[j].command # NoCommand => job[j].at \in 1..(Len(Script[job[j].command]) + 1)
    /\ Running(j) =>
          /\ job[j].reads <= Len(ReadsOf(Op(j)))
          /\ HasRead(j, "key") => job[j].key \in Served
          /\ job[j].tx # "none" => job[j].reads = Len(ReadsOf(Op(j)))

StrayInv(tx) == Signable(tx) /\ (NeedsKey(tx.op) => tx.key \in Served)

OpsInv ==
    /\ TypeOK /\ slot <= MaxSlot
    /\ OperationsTypeOK
    /\ \A j \in Jobs : JobInv(j)
    /\ \A tx \in strays : StrayInv(tx)

-----------------------------------------------------------------------------
(* Scripts, records and transactions.                                      *)

LEMMA ScriptLengths == \A c \in Commands : Len(Script[c]) \in 1..10
<1> SUFFICES ASSUME NEW c \in Commands PROVE Len(Script[c]) \in 1..10
  OBVIOUS
<1>1. CASE c = "demo-local"
  BY <1>1 DEF Script
<1>2. CASE c = "demo-devnet"
  BY <1>2 DEF Script
<1>3. CASE c = "register-oyster-enclave"
  BY <1>3 DEF Script
<1>4. CASE c \notin {"demo-local", "demo-devnet", "register-oyster-enclave"}
  BY <1>4 DEF Script
<1>. QED  BY <1>1, <1>2, <1>3, <1>4

LEMMA DemoScript ==
    ASSUME "demo-local" \in Commands
    PROVE  /\ Len(Script["demo-local"]) = 10
           /\ Script["demo-local"][1] = "initRegistry"
           /\ Script["demo-local"][2] = "addMeasurement"
           /\ Script["demo-local"][3] = "initWalletOnce"
           /\ Script["demo-local"][4] = "fundWalletPda"
           /\ Script["demo-local"][5] = "registerEnclaveV2"
           /\ Script["demo-local"][6] = "systemTransfer"
           /\ Script["demo-local"][7] = "allow"
           /\ Script["demo-local"][8] = "transfer"
           /\ Script["demo-local"][9] = "systemTransfer"
           /\ Script["demo-local"][10] = "transferReplay"
BY DEF Script

LEMMA ReadLengths == \A op : Len(ReadsOf(op)) \in 0..4
<1> SUFFICES ASSUME NEW op PROVE Len(ReadsOf(op)) \in 0..4
  OBVIOUS
<1>1. CASE op \in {"initWallet", "initWalletOnce"}
  BY <1>1 DEF ReadsOf
<1>2. CASE op \in {"fundWalletPda", "registerEnclaveV2", "addOysterMeasurement"}
  BY <1>2 DEF ReadsOf
<1>3. CASE op \in {"transfer", "transferReplay", "cpi"}
  BY <1>3 DEF ReadsOf
<1>4. CASE op \notin {"initWallet", "initWalletOnce", "fundWalletPda",
                      "registerEnclaveV2", "addOysterMeasurement",
                      "transfer", "transferReplay", "cpi"}
  BY <1>4 DEF ReadsOf
<1>. QED  BY <1>1, <1>2, <1>3, <1>4

\* All that is signed with a key of the enclave, or names one, has read it.
LEMMA KeyNeeded ==
    ASSUME NEW op \in {"initWallet", "initWalletOnce", "registerEnclaveV2",
                       "transfer", "transferReplay", "cpi"}
    PROVE  NeedsKey(op)
<1>1. CASE op \in {"initWallet", "registerEnclaveV2", "transfer", "transferReplay"}
  <2>1. 1 \in 1..Len(ReadsOf(op)) /\ ReadsOf(op)[1] = "key"
    BY <1>1 DEF ReadsOf
  <2>. QED  BY <2>1 DEF NeedsKey
<1>2. CASE op \in {"initWalletOnce", "cpi"}
  <2>1. 2 \in 1..Len(ReadsOf(op)) /\ ReadsOf(op)[2] = "key"
    BY <1>2 DEF ReadsOf
  <2>. QED  BY <2>1 DEF NeedsKey
<1>. QED  BY <1>1, <1>2

LEMMA ServedKeysTyped ==
    Served \subseteq Keys /\ \A i \in 1..Len(ServedKeys) : ServedKeys[i] \in Served
BY OperationsAssumption, ElementOfSeq DEF Served

LEMMA JobFields ==
    ASSUME NEW q \in JobType
    PROVE  /\ q.command \in Commands \cup {NoCommand} /\ q.at \in 0..11
           /\ q.reads \in 0..4 /\ q.tx \in {"none", "inflight", "landed", "failed"}
           /\ q.key \in Keys \cup {NoKey} /\ q.nonce \in 0..MaxNonce
           /\ q.expiry \in Nat /\ q.hash \in Nat /\ q.amount \in 0..Target
BY DEF JobType

\* Where a job is in its script.
LEMMA RunningFacts ==
    ASSUME OpsInv, NEW j \in Jobs, Running(j)
    PROVE  /\ job[j] \in JobType
           /\ job[j].command \in Commands
           /\ job[j].at \in 1..Len(Script[job[j].command])
           /\ Op(j) \in CommandOps
<1>1. job[j] \in JobType /\ JobInv(j)
  BY DEF OpsInv, OperationsTypeOK
<1>2. job[j].command \in Commands
  BY <1>1, JobFields DEF Running
<1>3. Len(Script[job[j].command]) \in Nat
  BY <1>2, ScriptLengths
<1>4. job[j].at \in 1..Len(Script[job[j].command])
  BY <1>1, <1>2, <1>3, OperationsAssumption DEF Running, JobInv
<1>. QED  BY <1>1, <1>2, <1>4 DEF Op, CommandOps

\* What a job sends is typed, and signed for what it has read.
LEMMA SentTyped ==
    ASSUME OpsInv, NEW j \in Jobs, Running(j)
    PROVE  /\ TxOf(j) \in TxType
           /\ job[j].tx # "none" => StrayInv(TxOf(j))
<1>1. job[j] \in JobType /\ Op(j) \in CommandOps
  BY RunningFacts
<1>2. TxOf(j) \in TxType
  <2> DEFINE N == 0..MaxNonce
             T == 0..Target
  <2>1. job[j].nonce \in N /\ job[j].amount \in T
    BY <1>1, JobFields
  <2>2. TxType = [by : Jobs, op : CommandOps, key : Keys \cup {NoKey}, nonce : N,
                  expiry : Nat, hash : Nat, amount : T]
    BY DEF TxType
  <2>3. /\ job[j].key \in Keys \cup {NoKey}
        /\ job[j].expiry \in Nat /\ job[j].hash \in Nat
    BY <1>1, JobFields
  <2> HIDE DEF N, T
  <2>. QED  BY <1>1, <2>1, <2>2, <2>3 DEF TxOf
<1>3. ASSUME job[j].tx # "none" PROVE StrayInv(TxOf(j))
  <2>1. JobInv(j)
    BY DEF OpsInv
  <2>2. /\ TxOf(j).op = Op(j) /\ TxOf(j).key = job[j].key
        /\ TxOf(j).expiry = job[j].expiry /\ TxOf(j).hash = job[j].hash
    BY DEF TxOf
  <2>3. NeedsKey(Op(j)) => job[j].key \in Served
    BY <1>3, <2>1 DEF JobInv, NeedsKey, HasRead
  <2>. QED  BY <2>1, <2>2, <2>3 DEF StrayInv, JobInv, Signable
<1>. QED  BY <1>2, <1>3

\* The messages that a transaction carries are among those that may be signed.
LEMMA SignedKnown ==
    ASSUME TypeOK, slot <= MaxSlot, NEW tx \in TxType, StrayInv(tx), NeedsKey(tx.op)
    PROVE  /\ tx.key \in Keys
           /\ ProofOf(tx) \in Proofs
           /\ IntentOf(tx, TransferPayload(Outside, Amount)) \in Intents
           /\ IntentOf(tx, CpiPayload(SystemProgram, Call)) \in Intents
<1>1. PICK i \in 1..Len(ServedKeys) : tx.key = ServedKeys[i]
  BY DEF StrayInv, Served
<1>2. tx.nonce \in 0..MaxNonce /\ tx.expiry \in Nat /\ tx.hash \in Nat
  BY DEF TxType
<1>3. /\ slot \in Nat /\ slot <= MaxSlot /\ MaxSlot \in Nat /\ ExpirySlots \in Nat
      /\ tx.expiry <= slot + ExpirySlots /\ tx.hash <= slot
  BY BoundsAssumption, OperationsAssumption DEF TypeOK, StrayInv, Signable
<1>4. tx.expiry \in 0..(MaxSlot + ExpirySlots) /\ tx.hash \in 0..MaxSlot
  BY <1>2, <1>3
<1> DEFINE m == [key |-> ServedKeys[i], nonce |-> tx.nonce, expiry |-> tx.expiry,
                 hash |-> tx.hash]
<1>5. /\ ProofOf(m) \in Proofs
      /\ IntentOf(m, TransferPayload(Outside, Amount)) \in Intents
      /\ IntentOf(m, CpiPayload(SystemProgram, Call)) \in Intents
  BY <1>1, <1>2, <1>4, SignableAssumption
<1>6. ProofOf(tx) = ProofOf(m) /\ \A p : IntentOf(tx, p) = IntentOf(m, p)
  BY <1>1 DEF ProofOf, IntentOf
<1>. QED  BY <1>1, <1>5, <1>6, ServedKeysTyped

\* A landing is a step of the program.
LEMMA EffectIsStep ==
    ASSUME TypeOK, slot <= MaxSlot, NEW tx \in TxType, StrayInv(tx), Effect(tx)
    PROVE  Next
<1>1. CASE RegistryEffect(tx)
  <2>1. Gov \in Governors /\ Successor \in Governors /\ Image \in Measurements
    BY OperationsAssumption
  <2>2. RegistryStep(Gov)
    BY <1>1, <2>1 DEF RegistryEffect, RegistryStep
  <2>. QED  BY <2>1, <2>2 DEF Next
<1>2. CASE tx.op \in {"initWallet", "initWalletOnce"} /\ InitializeWallet(Owner, tx.key, DefaultLimits)
  <2>1. tx.key \in Keys
    BY <1>2, KeyNeeded, SignedKnown
  <2>. QED  BY <1>2, <2>1, OperationsAssumption DEF Next, OwnerStep
<1>3. CASE Deposit(Owner, tx.amount)
  <2>1. tx.amount \in Amounts /\ Owner \in Authorities
    BY OperationsAssumption DEF TxType
  <2>. QED  BY <1>3, <2>1 DEF Next, ChainStep
<1>4. CASE tx.op = "registerEnclaveV2" /\ RegisterEnclaveV2(Owner, ProofOf(tx), Gov)
  <2>1. ProofOf(tx) \in Proofs
    BY <1>4, KeyNeeded, SignedKnown
  <2>2. Gov \in Accounts
    BY OperationsAssumption, AccountsAssumption
  <2>. QED  BY <1>4, <2>1, <2>2, OperationsAssumption DEF Next, MessageStep
<1>5. CASE AllowlistEffect(tx)
  BY <1>5, OperationsAssumption, ProgramsAssumption DEF AllowlistEffect, Next, OwnerStep
<1>6. CASE IntentEffect(tx)
  <2>1. NeedsKey(tx.op)
    BY <1>6, KeyNeeded DEF IntentEffect, IsTransfer
  <2>2. /\ IntentOf(tx, TransferPayload(Outside, Amount)) \in Intents
        /\ IntentOf(tx, CpiPayload(SystemProgram, Call)) \in Intents
    BY <2>1, SignedKnown
  <2>3. Outside \in Destinations /\ Amount \in Amounts /\ Call \in Calls
        /\ SystemProgram \in Programs /\ Owner \in Authorities
    BY OperationsAssumption, ProgramsAssumption DEF Destinations
  <2>4. MessageStep(Owner)
    BY <1>6, <2>2, <2>3 DEF IntentEffect, MessageStep
  <2>. QED  BY <2>3, <2>4 DEF Next
<1>. QED  BY <1>1, <1>2, <1>3, <1>4, <1>5, <1>6 DEF Effect, WalletEffect

\* To the chain, a step of the command line is a landing, a slot, or nothing.
LEMMA ChainSees ==
    ASSUME OpsInv, [OperationsNext]_allVars
    PROVE  [Next]_vars
<1>1. ASSUME NEW j \in Jobs, Lands(j) PROVE [Next]_vars
  <2>1. TxOf(j) \in TxType /\ StrayInv(TxOf(j))
    BY <1>1, SentTyped DEF Lands
  <2>. QED  BY <1>1, <2>1, EffectIsStep DEF Lands, OpsInv
<1>2. ASSUME NEW tx \in strays, StrayLands(tx) PROVE [Next]_vars
  <2>1. tx \in TxType /\ StrayInv(tx)
    BY DEF OpsInv, OperationsTypeOK
  <2>. QED  BY <1>2, <2>1, EffectIsStep DEF StrayLands, OpsInv
<1>3. ASSUME NEW j \in Jobs, JobReads(j) PROVE UNCHANGED vars
  BY <1>3 DEF JobReads, ReadsKey, ReadsNonce, ReadsSlot, ReadsHash, ReadsBalance,
              ReadsAccount, ReadsAttestation, Reads, JobMoves
<1>4. ASSUME NEW j \in Jobs,
             \/ Sends(j) \/ Refused(j) \/ Confirmed(j) \/ Replays(j)
             \/ Throws(j) \/ Crashes(j) \/ \E c \in Commands : Begins(j, c)
      PROVE  UNCHANGED vars
  BY <1>4 DEF Sends, Refused, Confirmed, Replays, Throws, Crashes, Faults, Begins, JobMoves
<1>5. SlotPasses => Next
  BY DEF SlotPasses, Next, ChainStep
<1>6. EnclaveRestarts => UNCHANGED vars
  BY DEF EnclaveRestarts
<1>7. UNCHANGED allVars => UNCHANGED vars
  BY DEF allVars
<1>. QED  BY <1>1, <1>2, <1>3, <1>4, <1>5, <1>6, <1>7 DEF OperationsNext

-----------------------------------------------------------------------------
(* Jobs.                                                                   *)

\* What a read, a transaction and the start of an operation do to a record.
WithKey(q, k) == [[q EXCEPT !.reads = @ + 1] EXCEPT !.key = k]
WithNonce(q, n) == [[q EXCEPT !.reads = @ + 1] EXCEPT !.nonce = n]
WithExpiry(q, e) == [[q EXCEPT !.reads = @ + 1] EXCEPT !.expiry = e]
WithHash(q, h) == [[q EXCEPT !.reads = @ + 1] EXCEPT !.hash = h]
WithAmount(q, x) == [[q EXCEPT !.reads = @ + 1] EXCEPT !.amount = x]
Counted(q) == [q EXCEPT !.reads = @ + 1]
WithTx(q, t) == [q EXCEPT !.tx = t]
FreshAt(c, i) == [NewJob EXCEPT !.command = c, !.at = i]

\* r is q after one read more.
ReadOn(q, r) ==
    /\ r.command = q.command /\ r.at = q.at /\ r.tx = q.tx
    /\ r.reads = q.reads + 1

LEMMA ReadFields ==
    ASSUME NEW q \in JobType, q.reads < 4
    PROVE  /\ Counted(q) \in JobType /\ ReadOn(q, Counted(q))
           /\ Counted(q).key = q.key /\ Counted(q).expiry = q.expiry
           /\ Counted(q).hash = q.hash /\ Counted(q).nonce = q.nonce
           /\ \A k \in Keys : LET r == WithKey(q, k) IN
                 /\ r \in JobType /\ ReadOn(q, r) /\ r.key = k
                 /\ r.expiry = q.expiry /\ r.hash = q.hash /\ r.nonce = q.nonce
           /\ \A n \in 0..MaxNonce : LET r == WithNonce(q, n) IN
                 /\ r \in JobType /\ ReadOn(q, r) /\ r.nonce = n
                 /\ r.expiry = q.expiry /\ r.hash = q.hash /\ r.key = q.key
           /\ \A e \in Nat : LET r == WithExpiry(q, e) IN
                 /\ r \in JobType /\ ReadOn(q, r) /\ r.expiry = e
                 /\ r.hash = q.hash /\ r.key = q.key /\ r.nonce = q.nonce
           /\ \A h \in Nat : LET r == WithHash(q, h) IN
                 /\ r \in JobType /\ ReadOn(q, r) /\ r.hash = h
                 /\ r.expiry = q.expiry /\ r.key = q.key /\ r.nonce = q.nonce
           /\ \A x \in 0..Target : LET r == WithAmount(q, x) IN
                 /\ r \in JobType /\ ReadOn(q, r) /\ r.amount = x
                 /\ r.expiry = q.expiry /\ r.hash = q.hash /\ r.key = q.key
                 /\ r.nonce = q.nonce
<1> DEFINE N == 0..MaxNonce
           T == 0..Target
           A == 0..11
           R == 0..4
<1>1. JobType =
         [command : Commands \cup {NoCommand}, at : A, reads : R,
          tx : {"none", "inflight", "landed", "failed"}, key : Keys \cup {NoKey},
          nonce : N, expiry : Nat, hash : Nat, amount : T]
  BY DEF JobType
<1>2. q.reads + 1 \in R
  BY JobFields
<1> HIDE DEF N, T, A, R
<1> USE DEF ReadOn
<1>3. /\ Counted(q) \in JobType /\ ReadOn(q, Counted(q))
      /\ Counted(q).key = q.key /\ Counted(q).expiry = q.expiry
      /\ Counted(q).hash = q.hash /\ Counted(q).nonce = q.nonce
  BY <1>1, <1>2 DEF Counted
<1>4. ASSUME NEW k \in Keys
      PROVE  LET r == WithKey(q, k) IN
                 /\ r \in JobType /\ ReadOn(q, r) /\ r.key = k
                 /\ r.expiry = q.expiry /\ r.hash = q.hash /\ r.nonce = q.nonce
  BY <1>1, <1>2 DEF WithKey
<1>5. ASSUME NEW n \in N
      PROVE  LET r == WithNonce(q, n) IN
                 /\ r \in JobType /\ ReadOn(q, r) /\ r.nonce = n
                 /\ r.expiry = q.expiry /\ r.hash = q.hash /\ r.key = q.key
  BY <1>1, <1>2 DEF WithNonce
<1>6. ASSUME NEW e \in Nat
      PROVE  LET r == WithExpiry(q, e) IN
                 /\ r \in JobType /\ ReadOn(q, r) /\ r.expiry = e
                 /\ r.hash = q.hash /\ r.key = q.key /\ r.nonce = q.nonce
  BY <1>1, <1>2 DEF WithExpiry
<1>7. ASSUME NEW h \in Nat
      PROVE  LET r == WithHash(q, h) IN
                 /\ r \in JobType /\ ReadOn(q, r) /\ r.hash = h
                 /\ r.expiry = q.expiry /\ r.key = q.key /\ r.nonce = q.nonce
  BY <1>1, <1>2 DEF WithHash
<1>8. ASSUME NEW x \in T
      PROVE  LET r == WithAmount(q, x) IN
                 /\ r \in JobType /\ ReadOn(q, r) /\ r.amount = x
                 /\ r.expiry = q.expiry /\ r.hash = q.hash /\ r.key = q.key
                 /\ r.nonce = q.nonce
  BY <1>1, <1>2 DEF WithAmount
<1> USE DEF N, T
<1>. QED  BY <1>3, <1>4, <1>5, <1>6, <1>7, <1>8

LEMMA TxFields ==
    ASSUME NEW q \in JobType, NEW t \in {"none", "inflight", "landed", "failed"}
    PROVE  LET r == WithTx(q, t)
           IN  /\ r \in JobType /\ r.tx = t
               /\ r.command = q.command /\ r.at = q.at /\ r.reads = q.reads
               /\ r.key = q.key /\ r.nonce = q.nonce /\ r.expiry = q.expiry
               /\ r.hash = q.hash /\ r.amount = q.amount
<1> DEFINE N == 0..MaxNonce
           T == 0..Target
           A == 0..11
           R == 0..4
<1>1. JobType =
         [command : Commands \cup {NoCommand}, at : A, reads : R,
          tx : {"none", "inflight", "landed", "failed"}, key : Keys \cup {NoKey},
          nonce : N, expiry : Nat, hash : Nat, amount : T]
  BY DEF JobType
<1> HIDE DEF N, T, A, R
<1>. QED  BY <1>1 DEF WithTx

LEMMA FreshFields ==
    ASSUME NEW c \in Commands, NEW i \in 1..11
    PROVE  LET r == FreshAt(c, i)
           IN  /\ r \in JobType /\ r.command = c /\ r.at = i
               /\ r.reads = 0 /\ r.tx = "none" /\ r.expiry = 0 /\ r.hash = 0
               /\ r.nonce = 0
<1> DEFINE N == 0..MaxNonce
           T == 0..Target
           A == 0..11
           R == 0..4
<1>1. JobType =
         [command : Commands \cup {NoCommand}, at : A, reads : R,
          tx : {"none", "inflight", "landed", "failed"}, key : Keys \cup {NoKey},
          nonce : N, expiry : Nat, hash : Nat, amount : T]
  BY DEF JobType
<1>2. 0 \in N /\ 0 \in T /\ 0 \in R /\ i \in A
  BY BoundsAssumption, OperationsAssumption
<1> HIDE DEF N, T, A, R
<1>. QED  BY <1>1, <1>2 DEF FreshAt, NewJob

\* What the lemmas below say of every step of a job.
JobKept(j) ==
    /\ job' = [job EXCEPT ![j] = job'[j]]
    /\ job'[j] \in JobType
    /\ JobInv(j)'

LEMMA SlotTyped ==
    ASSUME OpsInv
    PROVE  slot \in Nat /\ ExpirySlots \in Nat /\ slot + ExpirySlots \in Nat
BY OperationsAssumption DEF OpsInv, TypeOK

\* The start of an operation, and the end of a script.
LEMMA FreshKept ==
    ASSUME OpsInv, slot' = slot, NEW j \in Jobs, NEW c \in Commands,
           NEW i \in 1..(Len(Script[c]) + 1), job' = [job EXCEPT ![j] = FreshAt(c, i)]
    PROVE  JobKept(j)
<1> DEFINE r == FreshAt(c, i)
<1>1. i \in 1..11
  <2>1. PICK n \in 1..10 : Len(Script[c]) = n
    BY ScriptLengths
  <2>2. i \in 1..(n + 1)
    BY <2>1
  <2>. QED  BY <2>2
<1>2. /\ r \in JobType /\ r.command = c /\ r.at = i
      /\ r.reads = 0 /\ r.tx = "none" /\ r.expiry = 0 /\ r.hash = 0
  BY <1>1, FreshFields
<1>3. job'[j] = r
  BY DEF OpsInv, OperationsTypeOK
<1> HIDE DEF r
<1>4. Len(ReadsOf(Op(j)))' \in 0..4
  BY ReadLengths
<1>5. JobInv(j)'
  <2>1. Signable(job[j])'
    BY <1>2, <1>3, SlotTyped DEF Signable
  <2>2. ~HasRead(j, "key")'
    BY <1>2, <1>3 DEF HasRead
  <2>. QED  BY <1>2, <1>3, <1>4, <2>1, <2>2 DEF JobInv
<1>. QED  BY <1>2, <1>3, <1>5 DEF JobKept, r

LEMMA AdvancedKept ==
    ASSUME OpsInv, slot' = slot, NEW j \in Jobs, Running(j),
           job' = [job EXCEPT ![j] = Advanced(job[j])]
    PROVE  JobKept(j)
<1>1. job[j].command \in Commands /\ job[j].at \in 1..Len(Script[job[j].command])
  BY RunningFacts
<1>2. Len(Script[job[j].command]) \in Nat
  BY <1>1, ScriptLengths
<1>3. job[j].at + 1 \in 1..(Len(Script[job[j].command]) + 1)
  BY <1>1, <1>2
<1>4. Advanced(job[j]) = FreshAt(job[j].command, job[j].at + 1)
  BY DEF Advanced, FreshAt
<1>. QED  BY <1>1, <1>3, <1>4, FreshKept

LEMMA EndedKept ==
    ASSUME OpsInv, slot' = slot, NEW j \in Jobs, Running(j),
           job' = [job EXCEPT ![j] = Ended(job[j])]
    PROVE  JobKept(j)
<1>1. job[j].command \in Commands
  BY RunningFacts
<1>2. Len(Script[job[j].command]) + 1 \in 1..(Len(Script[job[j].command]) + 1)
  BY <1>1, ScriptLengths
<1>3. Ended(job[j]) = FreshAt(job[j].command, Len(Script[job[j].command]) + 1)
  BY DEF Ended, FreshAt
<1>. QED  BY <1>1, <1>2, <1>3, FreshKept

LEMMA ExceptionKept ==
    ASSUME OpsInv, slot' = slot, NEW j \in Jobs, Running(j),
           job' = [job EXCEPT ![j] = AfterException(j)]
    PROVE  JobKept(j)
BY AdvancedKept, EndedKept DEF AfterException

\* A read that was answered.
LEMMA ReadKept ==
    ASSUME OpsInv, slot' = slot, NEW j \in Jobs, NEW what, Asks(j, what),
           NEW r \in JobType, ReadOn(job[j], r), job' = [job EXCEPT ![j] = r],
           r.expiry <= slot + ExpirySlots, r.hash <= slot,
           r.key \in Served \/ (what # "key" /\ r.key = job[j].key)
    PROVE  JobKept(j)
<1>1. job'[j] = r
  BY DEF OpsInv, OperationsTypeOK
<1>2. /\ r.command = job[j].command /\ r.at = job[j].at /\ r.tx = "none"
      /\ r.reads = job[j].reads + 1
  BY DEF ReadOn, Asks
<1>3. Running(j)' = Running(j) /\ Op(j)' = Op(j)
  BY <1>1, <1>2 DEF Running, Op
<1>4. /\ job[j].reads \in Nat /\ Len(ReadsOf(Op(j))) \in Nat
      /\ job[j].reads < Len(ReadsOf(Op(j)))
      /\ ReadsOf(Op(j))[job[j].reads + 1] = what
  <2>1. job[j] \in JobType
    BY DEF OpsInv, OperationsTypeOK
  <2>2. job[j].reads \in 0..4 /\ Len(ReadsOf(Op(j))) \in 0..4
    BY <2>1, JobFields, ReadLengths
  <2>. QED  BY <2>2 DEF Asks
<1>5. HasRead(j, "key") => job[j].key \in Served
  BY DEF OpsInv, JobInv, Asks
<1>6. HasRead(j, "key")' => job'[j].key \in Served
  <2>1. HasRead(j, "key")' => HasRead(j, "key") \/ what = "key"
    BY <1>1, <1>2, <1>3, <1>4 DEF HasRead
  <2>. QED  BY <1>1, <1>5, <2>1
<1>7. job'[j].command # NoCommand =>
          job'[j].at \in 1..(Len(Script[job'[j].command]) + 1)
  BY <1>1, <1>2 DEF OpsInv, JobInv
<1>8. JobInv(j)'
  BY <1>1, <1>2, <1>3, <1>4, <1>6, <1>7 DEF JobInv, Signable
<1>. QED  BY <1>1, <1>8 DEF JobKept

LEMMA OtherReadKept ==
    ASSUME OpsInv, slot' = slot, NEW j \in Jobs,
           NEW what \in {"nonce", "slot", "hash", "balance", "account", "attestation"},
           Asks(j, what),
           NEW r \in JobType, ReadOn(job[j], r), job' = [job EXCEPT ![j] = r],
           r.expiry <= slot + ExpirySlots, r.hash <= slot, r.key = job[j].key
    PROVE  JobKept(j)
<1>1. what # "key"
  OBVIOUS
<1>. QED  BY <1>1, ReadKept

\* A transaction is sent, lands or fails.
LEMMA TxKept ==
    ASSUME OpsInv, slot' = slot, NEW j \in Jobs, Running(j),
           NEW t \in {"inflight", "landed", "failed"},
           job[j].reads = Len(ReadsOf(Op(j))),
           job' = [job EXCEPT ![j] = WithTx(job[j], t)]
    PROVE  JobKept(j)
<1>1. job[j] \in JobType
  BY DEF OpsInv, OperationsTypeOK
<1> DEFINE r == WithTx(job[j], t)
<1>2. /\ r \in JobType /\ r.tx = t
      /\ r.command = job[j].command /\ r.at = job[j].at /\ r.reads = job[j].reads
      /\ r.key = job[j].key /\ r.expiry = job[j].expiry /\ r.hash = job[j].hash
  BY <1>1, TxFields
<1>3. job'[j] = r
  BY DEF OpsInv, OperationsTypeOK
<1> HIDE DEF r
<1>4. Running(j)' = Running(j) /\ Op(j)' = Op(j) /\ (HasRead(j, "key")' <=> HasRead(j, "key"))
  BY <1>2, <1>3 DEF Running, Op, HasRead
<1>5. JobInv(j)'
  BY <1>2, <1>3, <1>4 DEF OpsInv, JobInv, Signable
<1>. QED  BY <1>2, <1>3, <1>5 DEF JobKept, r

LEMMA ReadsKept ==
    ASSUME OpsInv, NEW j \in Jobs, JobReads(j)
    PROVE  /\ UNCHANGED <<vars, strays, enclaveStart, faults>> /\ clean' \subseteq clean
           /\ Running(j) /\ JobKept(j)
<1>1. /\ UNCHANGED <<vars, strays, enclaveStart, faults>> /\ clean' \subseteq clean
      /\ Running(j)
  BY DEF JobReads, ReadsKey, ReadsNonce, ReadsSlot, ReadsHash, ReadsBalance,
         ReadsAccount, ReadsAttestation, Reads, JobMoves, Asks
<1>2. slot' = slot
  BY <1>1 DEF vars
<1> DEFINE q == job[j]
<1>3. /\ q \in JobType
      /\ q.expiry <= slot + ExpirySlots /\ q.hash <= slot
  BY DEF OpsInv, OperationsTypeOK, JobInv, Signable
<1>4. q.reads < 4
  <2>1. PICK n \in 0..4 : Len(ReadsOf(Op(j))) = n
    BY ReadLengths
  <2>2. q.reads < n /\ q.reads \in 0..4
    <3>1. q.reads < Len(ReadsOf(Op(j)))
      BY DEF JobReads, ReadsKey, ReadsNonce, ReadsSlot, ReadsHash, ReadsBalance,
             ReadsAccount, ReadsAttestation, Reads, Asks
    <3>. QED  BY <1>3, <2>1, <3>1, JobFields
  <2>. QED  BY <2>2
<1>5. slot \in Nat /\ ExpirySlots \in Nat /\ slot + ExpirySlots \in Nat
  BY SlotTyped
<1> HIDE DEF q
<1>6. CASE ReadsKey(j)
  <2> DEFINE k == ServedKeys[enclaveStart]
  <2>1. k \in Served /\ k \in Keys
    BY ServedKeysTyped DEF OpsInv, OperationsTypeOK
  <2>2. Asks(j, "key") /\ job' = [job EXCEPT ![j] = WithKey(q, k)]
    BY <1>6 DEF ReadsKey, Reads, JobMoves, OneReadMore, WithKey, q
  <2> HIDE DEF k
  <2>3. /\ WithKey(q, k) \in JobType /\ ReadOn(q, WithKey(q, k))
        /\ WithKey(q, k).key = k
        /\ WithKey(q, k).expiry = q.expiry /\ WithKey(q, k).hash = q.hash
    BY <1>3, <1>4, <2>1, ReadFields
  <2>. QED  BY <1>1, <1>2, <1>3, <2>1, <2>2, <2>3, ReadKept DEF q
<1>7. CASE ReadsNonce(j)
  <2> DEFINE n == wallet[Owner].nonce
  <2>1. n \in 0..MaxNonce
    BY OperationsAssumption DEF OpsInv, TypeOK, WalletType
  <2>2. Asks(j, "nonce") /\ job' = [job EXCEPT ![j] = WithNonce(q, n)]
    BY <1>7 DEF ReadsNonce, Reads, JobMoves, OneReadMore, WithNonce, q
  <2> HIDE DEF n
  <2>3. /\ WithNonce(q, n) \in JobType /\ ReadOn(q, WithNonce(q, n))
        /\ WithNonce(q, n).key = q.key
        /\ WithNonce(q, n).expiry = q.expiry /\ WithNonce(q, n).hash = q.hash
    BY <1>3, <1>4, <2>1, ReadFields
  <2>. QED  BY <1>1, <1>2, <1>3, <2>1, <2>2, <2>3, OtherReadKept DEF q
<1>8. CASE ReadsSlot(j)
  <2> DEFINE e == slot + ExpirySlots
  <2>1. e \in Nat /\ e <= slot + ExpirySlots
    BY <1>5
  <2>2. Asks(j, "slot") /\ job' = [job EXCEPT ![j] = WithExpiry(q, e)]
    BY <1>8 DEF ReadsSlot, Reads, JobMoves, OneReadMore, WithExpiry, q
  <2> HIDE DEF e
  <2>3. /\ WithExpiry(q, e) \in JobType /\ ReadOn(q, WithExpiry(q, e))
        /\ WithExpiry(q, e).key = q.key
        /\ WithExpiry(q, e).expiry = e /\ WithExpiry(q, e).hash = q.hash
    BY <1>3, <1>4, <2>1, ReadFields
  <2>. QED  BY <1>1, <1>2, <1>3, <2>1, <2>2, <2>3, OtherReadKept DEF q
<1>9. CASE ReadsHash(j)
  <2>2. PICK h \in NewestEntry : Asks(j, "hash") /\ job' = [job EXCEPT ![j] = WithHash(q, h)]
    BY <1>9 DEF ReadsHash, Reads, JobMoves, OneReadMore, WithHash, q
  <2>1. h \in Nat /\ h <= slot
    BY <1>5, BlockSlots DEF NewestEntry
  <2>3. /\ WithHash(q, h) \in JobType /\ ReadOn(q, WithHash(q, h))
        /\ WithHash(q, h).key = q.key
        /\ WithHash(q, h).expiry = q.expiry /\ WithHash(q, h).hash = h
    BY <1>3, <1>4, <2>1, ReadFields
  <2>. QED  BY <1>1, <1>2, <1>3, <2>1, <2>2, <2>3, OtherReadKept DEF q
<1>10. CASE ReadsBalance(j)
  <2>1. CASE lamports[Owner] >= Target
    <3>1. job' = [job EXCEPT ![j] = Advanced(job[j])]
      BY <1>10, <2>1 DEF ReadsBalance, Reads, JobMoves
    <3>. QED  BY <1>1, <1>2, <3>1, AdvancedKept
  <2>2. CASE ~(lamports[Owner] >= Target)
    <3> DEFINE x == Target - lamports[Owner]
    <3>1. x \in 0..Target
      BY <2>2, OperationsAssumption DEF OpsInv, TypeOK
    <3>2. Asks(j, "balance") /\ job' = [job EXCEPT ![j] = WithAmount(q, x)]
      BY <1>10, <2>2 DEF ReadsBalance, Reads, JobMoves, OneReadMore, WithAmount, q
    <3> HIDE DEF x
    <3>3. /\ WithAmount(q, x) \in JobType /\ ReadOn(q, WithAmount(q, x))
          /\ WithAmount(q, x).key = q.key
          /\ WithAmount(q, x).expiry = q.expiry /\ WithAmount(q, x).hash = q.hash
      BY <1>3, <1>4, <3>1, ReadFields
    <3>. QED  BY <1>1, <1>2, <1>3, <3>1, <3>2, <3>3, OtherReadKept DEF q
  <2>. QED  BY <2>1, <2>2
<1>11. ASSUME NEW what \in {"account", "attestation"}, Asks(j, what),
              job' = [job EXCEPT ![j] = OneReadMore(j)]
       PROVE  JobKept(j)
  <2>1. job' = [job EXCEPT ![j] = Counted(q)]
    BY <1>11 DEF OneReadMore, Counted, q
  <2>2. /\ Counted(q) \in JobType /\ ReadOn(q, Counted(q))
        /\ Counted(q).key = q.key
        /\ Counted(q).expiry = q.expiry /\ Counted(q).hash = q.hash
    BY <1>3, <1>4, ReadFields
  <2>. QED  BY <1>1, <1>2, <1>3, <1>11, <2>1, <2>2, OtherReadKept DEF q
<1>12. CASE ReadsAccount(j)
  BY <1>1, <1>2, <1>11, <1>12, AdvancedKept DEF ReadsAccount, Reads, JobMoves
<1>13. CASE ReadsAttestation(j)
  BY <1>1, <1>2, <1>11, <1>13, ExceptionKept DEF ReadsAttestation, Reads, JobMoves
<1>. QED  BY <1>1, <1>6, <1>7, <1>8, <1>9, <1>10, <1>12, <1>13 DEF JobReads

\* A job step that the chain does not see.
OffChain(j) ==
    \/ JobReads(j) \/ Sends(j) \/ Refused(j) \/ Confirmed(j) \/ Replays(j)
    \/ Throws(j) \/ Crashes(j) \/ \E c \in Commands : Begins(j, c)

LEMMA OffChainKept ==
    ASSUME OpsInv, NEW j \in Jobs, OffChain(j)
    PROVE  /\ UNCHANGED <<vars, enclaveStart>>
           /\ faults' \in 0..MaxFaults
           /\ clean' \subseteq Jobs
           /\ JobKept(j)
           /\ \/ strays' = strays
              \/ /\ strays' = strays \cup {TxOf(j)}
                 /\ Running(j) /\ job[j].tx # "none"
<1>0. /\ faults \in 0..MaxFaults /\ clean \subseteq Jobs /\ MaxFaults \in Nat
      /\ JobInv(j)
  BY OperationsAssumption DEF OpsInv, OperationsTypeOK
<1>1. CASE JobReads(j)
  BY <1>0, <1>1, ReadsKept
<1>2. CASE Sends(j)
  <2>1. /\ UNCHANGED <<vars, strays, enclaveStart, faults, clean>>
        /\ Running(j) /\ job[j].reads = Len(ReadsOf(Op(j)))
        /\ job' = [job EXCEPT ![j] = WithTx(job[j], "inflight")]
    BY <1>2 DEF Sends, ReadAll, JobMoves, WithTx
  <2>2. slot' = slot
    BY <2>1 DEF vars
  <2>. QED  BY <1>0, <2>1, <2>2, TxKept
<1>3. CASE Refused(j)
  <2>1. /\ UNCHANGED <<vars, strays, enclaveStart, faults, clean>>
        /\ Running(j) /\ job' = [job EXCEPT ![j] = AfterException(j)]
    BY <1>3 DEF Refused, ReadAll, Asks, JobMoves
  <2>2. slot' = slot
    BY <2>1 DEF vars
  <2>. QED  BY <1>0, <2>1, <2>2, ExceptionKept
<1>4. CASE Confirmed(j)
  <2>1. /\ UNCHANGED <<vars, strays, enclaveStart, faults, clean>>
        /\ Running(j) /\ job' = [job EXCEPT ![j] = Advanced(job[j])]
    BY <1>4 DEF Confirmed, JobMoves
  <2>2. slot' = slot
    BY <2>1 DEF vars
  <2>. QED  BY <1>0, <2>1, <2>2, AdvancedKept
<1>5. CASE Replays(j)
  <2>1. /\ UNCHANGED <<vars, enclaveStart, faults, clean>>
        /\ Running(j) /\ job' = [job EXCEPT ![j] = Advanced(job[j])]
        /\ job[j].tx # "none"
        /\ strays' = strays \/ strays' = strays \cup {TxOf(j)}
    BY <1>5 DEF Replays
  <2>2. slot' = slot
    BY <2>1 DEF vars
  <2>. QED  BY <1>0, <2>1, <2>2, AdvancedKept
<1>6. ASSUME NEW rec, Faults(j, rec)
      PROVE  /\ UNCHANGED <<vars, enclaveStart>>
             /\ Running(j) /\ slot' = slot /\ job' = [job EXCEPT ![j] = rec]
             /\ faults' \in 0..MaxFaults /\ clean' \subseteq Jobs
             /\ \/ strays' = strays
                \/ strays' = strays \cup {TxOf(j)} /\ job[j].tx # "none"
  BY <1>0, <1>6 DEF Faults, vars
<1>7. CASE Throws(j)
  <2>1. Faults(j, AfterException(j))
    BY <1>7 DEF Throws
  <2>. QED  BY <1>6, <2>1, ExceptionKept
<1>8. CASE Crashes(j)
  <2>1. Faults(j, Ended(job[j]))
    BY <1>8 DEF Crashes
  <2>. QED  BY <1>6, <2>1, EndedKept
<1>9. ASSUME NEW c \in Commands, Begins(j, c)
      PROVE  /\ UNCHANGED <<vars, enclaveStart, strays, faults>>
             /\ clean' \subseteq Jobs /\ JobKept(j)
  <2>1. /\ UNCHANGED <<vars, strays, enclaveStart, faults>>
        /\ clean' = clean \cup {j} /\ job' = [job EXCEPT ![j] = FreshAt(c, 1)]
    BY <1>9 DEF Begins, JobMoves, FreshAt
  <2>2. slot' = slot
    BY <2>1 DEF vars
  <2>3. 1 \in 1..(Len(Script[c]) + 1)
    BY ScriptLengths
  <2>. QED  BY <1>0, <2>1, <2>2, <2>3, FreshKept
<1>. QED  BY <1>0, <1>1, <1>2, <1>3, <1>4, <1>5, <1>7, <1>8, <1>9 DEF OffChain

LEMMA LandsKept ==
    ASSUME OpsInv, NEW j \in Jobs, Lands(j), slot' = slot
    PROVE  /\ UNCHANGED <<strays, enclaveStart, faults>> /\ clean' \subseteq Jobs
           /\ JobKept(j)
<1>1. /\ UNCHANGED <<strays, enclaveStart, faults>> /\ clean' \subseteq clean
      /\ Running(j) /\ job[j].tx = "inflight"
      /\ \E t \in {"landed", "failed"} : job' = [job EXCEPT ![j] = WithTx(job[j], t)]
  BY DEF Lands, WithTx
<1>2. job[j].reads = Len(ReadsOf(Op(j)))
  BY <1>1 DEF OpsInv, JobInv
<1>. QED  BY <1>1, <1>2, TxKept DEF OpsInv, OperationsTypeOK

\* Nothing that lands moves the clock.
LEMMA EffectSlot ==
    ASSUME NEW tx, Effect(tx)
    PROVE  slot' = slot
BY DEF Effect, RegistryEffect, WalletEffect, AllowlistEffect, IntentEffect,
       InitMeasurementRegistry, AddMeasurement, RevokeMeasurement, TransferGovernor,
       InitializeWallet, Deposit, RegisterEnclaveV2, AddAllowedProgram,
       RemoveAllowedProgram, ExecuteTransfer, ExecuteArbitraryCpi

LEMMA OpsInvInit == OperationsInit => OpsInv
<1> SUFFICES ASSUME OperationsInit PROVE OpsInv
  OBVIOUS
<1>1. Init /\ TypeOK
  BY TypeInit DEF OperationsInit
<1>2. slot \in Nat /\ slot <= MaxSlot
  BY <1>1, BlockSlots DEF Init
<1>3. NewJob \in JobType
  <2> DEFINE N == 0..MaxNonce
             T == 0..Target
             A == 0..11
             R == 0..4
  <2>1. JobType =
           [command : Commands \cup {NoCommand}, at : A, reads : R,
            tx : {"none", "inflight", "landed", "failed"}, key : Keys \cup {NoKey},
            nonce : N, expiry : Nat, hash : Nat, amount : T]
    BY DEF JobType
  <2>2. 0 \in N /\ 0 \in T /\ 0 \in R /\ 0 \in A
    BY BoundsAssumption, OperationsAssumption
  <2> HIDE DEF N, T, A, R
  <2>. QED  BY <2>1, <2>2 DEF NewJob
<1>4. OperationsTypeOK
  <2>1. 1 \in 1..Len(ServedKeys) /\ 0 \in 0..MaxFaults
    BY OperationsAssumption, LenProperties
  <2>. QED  BY <1>3, <2>1 DEF OperationsInit, OperationsTypeOK
<1>5. ASSUME NEW j \in Jobs PROVE JobInv(j)
  <2>1. job[j] = NewJob
    BY DEF OperationsInit
  <2>. QED  BY <1>2, <2>1, OperationsAssumption
            DEF JobInv, Signable, Running, NewJob
<1>. QED  BY <1>1, <1>2, <1>4, <1>5 DEF OpsInv, OperationsInit

LEMMA OpsInvNext == OpsInv /\ [OperationsNext]_allVars => OpsInv'
<1> SUFFICES ASSUME OpsInv, [OperationsNext]_allVars PROVE OpsInv'
  OBVIOUS
<1>1. TypeOK' /\ slot' \in Nat /\ slot <= slot' /\ slot' <= MaxSlot
  BY ChainSees, TypeNext, SlotGrows DEF OpsInv
<1>2. slot \in Nat /\ ExpirySlots \in Nat
  BY SlotTyped
<1>3. job \in [Jobs -> JobType] /\ strays \subseteq TxType
      /\ enclaveStart \in 1..Len(ServedKeys) /\ faults \in 0..MaxFaults
      /\ clean \subseteq Jobs
  BY DEF OpsInv, OperationsTypeOK
<1>4. ASSUME NEW rec, rec.expiry \in Nat, rec.hash \in Nat, Signable(rec)
      PROVE  Signable(rec)'
  BY <1>1, <1>2, <1>4 DEF Signable
<1>5. ASSUME NEW tx \in strays PROVE StrayInv(tx)'
  <2>1. StrayInv(tx) /\ tx.expiry \in Nat /\ tx.hash \in Nat
    BY <1>3 DEF OpsInv, TxType
  <2>. QED  BY <1>4, <2>1 DEF StrayInv
<1>6. ASSUME NEW i \in Jobs, job'[i] = job[i] PROVE JobInv(i)'
  <2>1. JobInv(i) /\ job[i].expiry \in Nat /\ job[i].hash \in Nat
    BY <1>3, JobFields DEF OpsInv
  <2>2. Signable(job[i])'
    BY <1>4, <1>6, <2>1 DEF JobInv, Signable
  <2>. QED  BY <1>6, <2>1, <2>2 DEF JobInv, Running, Op, HasRead
<1>7. ASSUME NEW j \in Jobs, JobKept(j)
      PROVE  job' \in [Jobs -> JobType] /\ \A i \in Jobs : JobInv(i)'
  <2>1. job' \in [Jobs -> JobType]
    BY <1>3, <1>7 DEF JobKept
  <2>2. ASSUME NEW i \in Jobs PROVE JobInv(i)'
    <3>1. i = j \/ job'[i] = job[i]
      BY <1>3, <1>7 DEF JobKept
    <3>. QED  BY <1>6, <1>7, <3>1 DEF JobKept
  <2>. QED  BY <2>1, <2>2
<1>8. ASSUME UNCHANGED job
      PROVE  job' \in [Jobs -> JobType] /\ \A i \in Jobs : JobInv(i)'
  BY <1>3, <1>6, <1>8
<1>9. ASSUME NEW j \in Jobs, OffChain(j) PROVE OpsInv'
  <2>1. /\ UNCHANGED <<vars, enclaveStart>>
        /\ faults' \in 0..MaxFaults /\ clean' \subseteq Jobs
        /\ JobKept(j)
        /\ \/ strays' = strays
           \/ /\ strays' = strays \cup {TxOf(j)}
              /\ Running(j) /\ job[j].tx # "none"
    BY <1>9, OffChainKept
  <2>2. strays' \subseteq TxType /\ \A tx \in strays' : StrayInv(tx)'
    <3>1. CASE strays' = strays
      BY <1>3, <1>5, <3>1
    <3>2. CASE /\ strays' = strays \cup {TxOf(j)}
               /\ Running(j) /\ job[j].tx # "none"
      <4>1. TxOf(j) \in TxType /\ StrayInv(TxOf(j))
        BY <3>2, SentTyped
      <4>2. TxOf(j).expiry \in Nat /\ TxOf(j).hash \in Nat
        BY <4>1 DEF TxType
      <4>3. ASSUME NEW tx, tx = TxOf(j) PROVE StrayInv(tx)'
        BY <1>4, <4>1, <4>2, <4>3 DEF StrayInv
      <4>. QED  BY <1>3, <1>5, <3>2, <4>1, <4>3
    <3>. QED  BY <2>1, <3>1, <3>2
  <2>. QED  BY <1>1, <1>3, <1>7, <2>1, <2>2 DEF OpsInv, OperationsTypeOK
<1>10. ASSUME NEW j \in Jobs, Lands(j) PROVE OpsInv'
  <2>1. slot' = slot
    BY <1>10, EffectSlot DEF Lands, vars
  <2>. QED  BY <1>1, <1>3, <1>5, <1>7, <1>10, <2>1, LandsKept DEF OpsInv, OperationsTypeOK
<1>11. ASSUME NEW tx \in strays, StrayLands(tx) PROVE OpsInv'
  <2>1. /\ UNCHANGED <<job, enclaveStart, faults>>
        /\ strays' \subseteq strays /\ clean' \subseteq clean
    BY <1>11 DEF StrayLands
  <2>. QED  BY <1>1, <1>3, <1>5, <1>8, <2>1 DEF OpsInv, OperationsTypeOK
<1>12. CASE EnclaveRestarts
  <2>1. enclaveStart' \in 1..Len(ServedKeys)
    BY <1>3, <1>12, OperationsAssumption, LenProperties DEF EnclaveRestarts
  <2>2. faults' \in 0..MaxFaults
    BY <1>3, <1>12, OperationsAssumption DEF EnclaveRestarts
  <2>3. UNCHANGED <<job, strays>> /\ clean' \subseteq Jobs
    BY <1>12 DEF EnclaveRestarts
  <2>. QED  BY <1>1, <1>3, <1>5, <1>8, <2>1, <2>2, <2>3 DEF OpsInv, OperationsTypeOK
<1>13. CASE SlotPasses
  <2>1. UNCHANGED <<job, strays, enclaveStart, faults>> /\ clean' \subseteq clean
    BY <1>13 DEF SlotPasses
  <2>. QED  BY <1>1, <1>3, <1>5, <1>8, <2>1 DEF OpsInv, OperationsTypeOK
<1>14. CASE UNCHANGED allVars
  <2>1. UNCHANGED <<job, strays, enclaveStart, faults, clean>>
    BY <1>14 DEF allVars
  <2>. QED  BY <1>1, <1>3, <1>5, <1>8, <2>1 DEF OpsInv, OperationsTypeOK
<1>. QED  BY <1>9, <1>10, <1>11, <1>12, <1>13, <1>14 DEF OperationsNext, OffChain

LEMMA OpsInvAlways == OperationsSpec => []OpsInv
BY OpsInvInit, OpsInvNext, PTL DEF OperationsSpec

\* No job, whatever has crashed or timed out around it, sends more than the
\* target or less than nothing, or signs over a slot that is not there
\* (ops.ts:250-256, intent.ts:86-97).
THEOREM OperationsTypeCorrect == OperationsSpec => []OperationsTypeOK
<1>1. OpsInv => OperationsTypeOK
  BY DEF OpsInv
<1>. QED  BY <1>1, OpsInvAlways, PTL

\* The command line implements the program: a landing is one of the program's
\* instructions, called with accounts and messages it knows, and no other step of
\* a job, the enclave or the network touches the chain (ops.ts:139-927).
THEOREM OperationsImplementProgram == OperationsSpec => Spec
<1>1. OperationsInit => Init
  BY DEF OperationsInit
<1>2. OpsInv /\ [OperationsNext]_allVars => [Next]_vars
  BY ChainSees
<1>. QED  BY <1>1, <1>2, OpsInvAlways, PTL DEF OperationsSpec, Spec
-----------------------------------------------------------------------------
(* Messages.                                                               *)

\* What takes effect by its nonce uses that nonce up.
LEMMA MessageEffect ==
    ASSUME TypeOK, NEW tx, tx.op \in Unchecked, Effect(tx)
    PROVE  /\ Owner \in open /\ open' = open
           /\ tx.nonce = wallet[Owner].nonce
           /\ wallet[Owner].nonce \in Nat
           /\ wallet'[Owner].nonce = wallet[Owner].nonce + 1
<1>1. Owner \in Authorities /\ wallet \in [Authorities -> WalletType]
      /\ wallet[Owner].nonce \in Nat
  BY OperationsAssumption, WalletNonce DEF TypeOK
<1>2. WalletEffect(tx) \/ IntentEffect(tx)
  BY DEF Effect, RegistryEffect, AllowlistEffect, Unchecked
<1>3. \A p : IntentOf(tx, p).nonce = tx.nonce
  BY DEF IntentOf
<1>4. CASE WalletEffect(tx)
  <2>1. RegisterEnclaveV2(Owner, ProofOf(tx), Gov)
    BY <1>4 DEF WalletEffect, Unchecked
  <2>2. ProofOf(tx).nonce = tx.nonce
    BY DEF ProofOf
  <2>. QED  BY <1>1, <2>1, <2>2 DEF RegisterEnclaveV2, VerifyAttestationProof, WalletType
<1>5. ASSUME NEW m, m.nonce = tx.nonce, Owner \in open, open' = open, BoundTo(Owner, m),
             wallet' = [wallet EXCEPT ![Owner].nonce = @ + 1]
      PROVE  /\ tx.nonce = wallet[Owner].nonce
             /\ wallet'[Owner].nonce = wallet[Owner].nonce + 1
  BY <1>1, <1>5 DEF BoundTo, WalletType
<1>6. CASE IntentEffect(tx)
  BY <1>1, <1>3, <1>5, <1>6
     DEF IntentEffect, ExecuteTransfer, TransferPasses, ExecuteArbitraryCpi, CpiPasses,
         VerifyEnclaveIntent
<1>. QED  BY <1>1, <1>2, <1>4, <1>6

\* Nothing that the command line sends closes a wallet or takes its nonce back.
LEMMA NonceKept ==
    ASSUME TypeOK, NEW tx, Effect(tx), Owner \in open
    PROVE  /\ Owner \in open'
           /\ wallet[Owner].nonce \in Nat
           /\ \/ wallet'[Owner].nonce = wallet[Owner].nonce
              \/ wallet'[Owner].nonce = wallet[Owner].nonce + 1
<1>1. wallet[Owner].nonce \in Nat
  BY OperationsAssumption, WalletNonce
<1>2. CASE tx.op \in Unchecked
  BY <1>2, MessageEffect
<1>3. CASE tx.op \notin Unchecked
  <2>1. CASE RegistryEffect(tx)
    BY <1>1, <2>1 DEF RegistryEffect, InitMeasurementRegistry, AddMeasurement,
                RevokeMeasurement, TransferGovernor
  <2>2. CASE AllowlistEffect(tx)
    BY <1>1, <2>2 DEF AllowlistEffect, AddAllowedProgram, RemoveAllowedProgram
  <2>3. CASE WalletEffect(tx)
    <3>1. Deposit(Owner, tx.amount)
      BY <1>3, <2>3 DEF WalletEffect, Unchecked, InitializeWallet
    <3>. QED  BY <1>1, <3>1 DEF Deposit
  <2>. QED  BY <1>3, <2>1, <2>2, <2>3 DEF Effect, IntentEffect, IsTransfer, Unchecked
<1>. QED  BY <1>1, <1>2, <1>3

\* Off the chain nothing lands, and a job goes on with its command.
LEMMA NotLanded ==
    ASSUME OpsInv, NEW j \in Jobs, OffChain(j)
    PROVE  /\ job'[j].tx \in {"none", "inflight"}
           /\ job[j].command # NoCommand => job'[j].command = job[j].command
<1>1. job \in [Jobs -> JobType] /\ job[j] \in JobType
  BY DEF OpsInv, OperationsTypeOK
<1> DEFINE Goes(r) == r.tx = "none" /\ r.command = job[j].command
<1>2. \A c, i : FreshAt(c, i).tx = "none"
  BY DEF FreshAt, NewJob
<1>3. Goes(Advanced(job[j])) /\ Goes(Ended(job[j]))
  BY DEF Advanced, Ended, NewJob
<1>4. Goes(AfterException(j))
  BY <1>3 DEF AfterException
<1>5. ASSUME job[j].tx = "none"
      PROVE  \A v : /\ Goes(Counted(job[j])) /\ Goes(WithKey(job[j], v))
                    /\ Goes(WithNonce(job[j], v)) /\ Goes(WithExpiry(job[j], v))
                    /\ Goes(WithHash(job[j], v)) /\ Goes(WithAmount(job[j], v))
  BY <1>1, <1>5
     DEF JobType, Counted, WithKey, WithNonce, WithExpiry, WithHash, WithAmount
<1> HIDE DEF Goes
<1>6. ASSUME NEW r, job' = [job EXCEPT ![j] = r], Goes(r) PROVE Goes(job'[j])
  BY <1>1, <1>6
<1>7. CASE JobReads(j)
  <2>1. job[j].tx = "none"
    BY <1>7 DEF JobReads, ReadsKey, ReadsNonce, ReadsSlot, ReadsHash, ReadsBalance,
                ReadsAccount, ReadsAttestation, Reads, Asks
  <2>2. CASE ReadsKey(j)
    <3>1. job' = [job EXCEPT ![j] = WithKey(job[j], ServedKeys[enclaveStart])]
      BY <2>2 DEF ReadsKey, Reads, JobMoves, OneReadMore, WithKey
    <3>. QED  BY <1>5, <1>6, <2>1, <3>1 DEF Goes
  <2>3. CASE ReadsNonce(j)
    <3>1. job' = [job EXCEPT ![j] = WithNonce(job[j], wallet[Owner].nonce)]
      BY <2>3 DEF ReadsNonce, Reads, JobMoves, OneReadMore, WithNonce
    <3>. QED  BY <1>5, <1>6, <2>1, <3>1 DEF Goes
  <2>4. CASE ReadsSlot(j)
    <3>1. job' = [job EXCEPT ![j] = WithExpiry(job[j], slot + ExpirySlots)]
      BY <2>4 DEF ReadsSlot, Reads, JobMoves, OneReadMore, WithExpiry
    <3>. QED  BY <1>5, <1>6, <2>1, <3>1 DEF Goes
  <2>5. CASE ReadsHash(j)
    <3>1. \E h : job' = [job EXCEPT ![j] = WithHash(job[j], h)]
      BY <2>5 DEF ReadsHash, Reads, JobMoves, OneReadMore, WithHash
    <3>. QED  BY <1>5, <1>6, <2>1, <3>1 DEF Goes
  <2>6. CASE ReadsBalance(j)
    <3>1. \/ job' = [job EXCEPT ![j] = Advanced(job[j])]
          \/ job' = [job EXCEPT ![j] = WithAmount(job[j], Target - lamports[Owner])]
      BY <2>6 DEF ReadsBalance, Reads, JobMoves, OneReadMore, WithAmount
    <3>. QED  BY <1>3, <1>5, <1>6, <2>1, <3>1 DEF Goes
  <2>7. CASE ReadsAccount(j) \/ ReadsAttestation(j)
    <3>1. \/ job' = [job EXCEPT ![j] = Advanced(job[j])]
          \/ job' = [job EXCEPT ![j] = AfterException(j)]
          \/ job' = [job EXCEPT ![j] = Counted(job[j])]
      BY <2>7 DEF ReadsAccount, ReadsAttestation, Reads, JobMoves, OneReadMore, Counted
    <3>. QED  BY <1>3, <1>4, <1>5, <1>6, <2>1, <3>1 DEF Goes
  <2>. QED  BY <1>7, <2>2, <2>3, <2>4, <2>5, <2>6, <2>7 DEF JobReads
<1>8. CASE Sends(j)
  <2>1. job' = [job EXCEPT ![j] = WithTx(job[j], "inflight")]
    BY <1>8 DEF Sends, JobMoves, WithTx
  <2>2. /\ WithTx(job[j], "inflight").tx = "inflight"
        /\ WithTx(job[j], "inflight").command = job[j].command
    BY <1>1, TxFields
  <2>. QED  BY <1>1, <2>1, <2>2
<1>9. CASE Refused(j) \/ Confirmed(j) \/ Replays(j) \/ Throws(j) \/ Crashes(j)
  <2>1. \/ job' = [job EXCEPT ![j] = Advanced(job[j])]
        \/ job' = [job EXCEPT ![j] = AfterException(j)]
        \/ job' = [job EXCEPT ![j] = Ended(job[j])]
    BY <1>9 DEF Refused, Confirmed, Replays, Throws, Crashes, Faults, JobMoves
  <2>2. Goes(job'[j])
    BY <1>3, <1>4, <1>6, <2>1
  <2>. QED  BY <2>2 DEF Goes
<1>10. ASSUME NEW c \in Commands, Begins(j, c)
       PROVE  job'[j].tx = "none" /\ job[j].command = NoCommand
  <2>1. job' = [job EXCEPT ![j] = FreshAt(c, 1)] /\ job[j].command = NoCommand
    BY <1>10 DEF Begins, JobMoves, FreshAt
  <2>. QED  BY <1>1, <1>2, <2>1
<1>. QED  BY <1>7, <1>8, <1>9, <1>10 DEF OffChain

\* A step of the command line, seen from one job.
LEMMA StepsOfJob ==
    ASSUME OpsInv, [OperationsNext]_allVars, NEW j \in Jobs
    PROVE  \/ job'[j] = job[j]
           \/ OffChain(j)
           \/ Lands(j) /\ Effect(TxOf(j)) /\ job'[j].tx = "landed"
           \/ Lands(j) /\ job'[j].tx = "failed"
<1>1. job \in [Jobs -> JobType] /\ job[j] \in JobType
  BY DEF OpsInv, OperationsTypeOK
<1>2. ASSUME NEW i \in Jobs, OffChain(i) PROVE i = j \/ job'[j] = job[j]
  BY <1>1, <1>2, OffChainKept DEF JobKept
<1>3. ASSUME NEW i \in Jobs, Lands(i)
      PROVE  IF i = j THEN \/ Effect(TxOf(j)) /\ job'[j].tx = "landed"
                           \/ job'[j].tx = "failed"
             ELSE job'[j] = job[j]
  <2>1. \/ Effect(TxOf(i)) /\ job' = [job EXCEPT ![i] = WithTx(job[i], "landed")]
        \/ job' = [job EXCEPT ![i] = WithTx(job[i], "failed")]
    BY <1>3 DEF Lands, WithTx
  <2>2. WithTx(job[j], "landed").tx = "landed" /\ WithTx(job[j], "failed").tx = "failed"
    BY <1>1, TxFields
  <2>. QED  BY <1>1, <2>1, <2>2
<1>4. ASSUME NEW tx \in strays, StrayLands(tx) PROVE job' = job
  BY <1>4 DEF StrayLands
<1>5. EnclaveRestarts \/ SlotPasses => job' = job
  BY DEF EnclaveRestarts, SlotPasses
<1>6. UNCHANGED allVars => job' = job
  BY DEF allVars
<1>. QED  BY <1>2, <1>3, <1>4, <1>5, <1>6 DEF OperationsNext, OffChain

LEMMA ChainInvAlways == OperationsSpec => [](OpsInv /\ NonceInv)
<1>1. Spec => []NonceInv
  BY NonceInvAlways
<1>. QED  BY <1>1, OperationsImplementProgram, OpsInvAlways, PTL

\* What a command has read of the nonce still holds when its message lands, or the
\* message does not: whatever jobs, replays and crashes lie between
\* (ops.ts:435-455, 688-706, 899-910).
THEOREM MessagesLandOnCurrentNonce == OperationsSpec => ReadsStillTrue
<1> DEFINE Still ==
        \A j \in Jobs :
          (job[j].tx = "inflight" /\ job'[j].tx = "landed" /\ Op(j) \in Unchecked) =>
              \A r \in ThisEpoch(Owner) : r.nonce < job[j].nonce
<1>1. ASSUME OpsInv, NonceInv, [OperationsNext]_allVars PROVE Still
  <2> SUFFICES ASSUME NEW j \in Jobs, job[j].tx = "inflight", job'[j].tx = "landed",
                      Op(j) \in Unchecked
               PROVE  \A r \in ThisEpoch(Owner) : r.nonce < job[j].nonce
    OBVIOUS
  <2>1. Effect(TxOf(j))
    BY <1>1, StepsOfJob, NotLanded
  <2>2. TypeOK /\ TxOf(j).op \in Unchecked /\ TxOf(j).nonce = job[j].nonce
    BY <1>1 DEF OpsInv, TxOf
  <2>3. Owner \in open /\ job[j].nonce = wallet[Owner].nonce
    BY <2>1, <2>2, MessageEffect
  <2>. QED  BY <1>1, <2>3, OperationsAssumption DEF NonceInv, WalletInv, SpentInOrder
<1>2. OpsInv /\ NonceInv /\ [OperationsNext]_allVars => [Still]_allVars
  BY <1>1
<1>. QED  BY <1>2, ChainInvAlways, PTL DEF OperationsSpec, ReadsStillTrue

\* A message that a job knows to have landed is spent for good.
LandedInv(j) ==
    (Running(j) /\ job[j].tx = "landed" /\ Op(j) \in Unchecked) =>
        Owner \in open /\ job[j].nonce < wallet[Owner].nonce

SpentInv == \A j \in Jobs : LandedInv(j)

\* The owner's wallet, once open, stays so and keeps its nonce or counts on.
LEMMA OwnerKept ==
    ASSUME OpsInv, [OperationsNext]_allVars, Owner \in open
    PROVE  /\ Owner \in open'
           /\ wallet[Owner].nonce \in Nat
           /\ \/ wallet'[Owner].nonce = wallet[Owner].nonce
              \/ wallet'[Owner].nonce = wallet[Owner].nonce + 1
<1>1. TypeOK /\ wallet[Owner].nonce \in Nat
  BY OperationsAssumption, WalletNonce DEF OpsInv
<1>2. ASSUME NEW j \in Jobs, OffChain(j) PROVE UNCHANGED <<open, wallet>>
  BY <1>2, OffChainKept DEF vars
<1>3. ASSUME NEW tx, Effect(tx) \/ UNCHANGED vars
      PROVE  /\ Owner \in open'
             /\ \/ wallet'[Owner].nonce = wallet[Owner].nonce
                \/ wallet'[Owner].nonce = wallet[Owner].nonce + 1
  <2>1. CASE UNCHANGED vars
    BY <2>1 DEF vars
  <2>. QED  BY <1>1, <1>3, <2>1, NonceKept
<1>4. ASSUME NEW j \in Jobs, Lands(j) PROVE Effect(TxOf(j)) \/ UNCHANGED vars
  BY <1>4 DEF Lands
<1>5. ASSUME NEW tx \in strays, StrayLands(tx) PROVE Effect(tx) \/ UNCHANGED vars
  BY <1>5 DEF StrayLands
<1>6. EnclaveRestarts \/ SlotPasses \/ UNCHANGED allVars => UNCHANGED <<open, wallet>>
  BY DEF EnclaveRestarts, SlotPasses, NextSlot, allVars, vars
<1>. QED  BY <1>1, <1>2, <1>3, <1>4, <1>5, <1>6 DEF OperationsNext, OffChain

LEMMA SpentNext == OpsInv /\ SpentInv /\ [OperationsNext]_allVars => SpentInv'
<1> SUFFICES ASSUME OpsInv, SpentInv, [OperationsNext]_allVars, NEW j \in Jobs,
                    Running(j)', job'[j].tx = "landed", Op(j)' \in Unchecked
             PROVE  Owner \in open' /\ job'[j].nonce < wallet'[Owner].nonce
  BY DEF SpentInv, LandedInv
<1>1. CASE job'[j] = job[j]
  <2>1. Running(j) /\ job[j].tx = "landed" /\ Op(j) \in Unchecked
    BY <1>1 DEF Running, Op
  <2>2. Owner \in open /\ job[j].nonce < wallet[Owner].nonce /\ job[j].nonce \in Nat
    BY <2>1, JobFields DEF SpentInv, LandedInv, OpsInv, OperationsTypeOK
  <2>. QED  BY <1>1, <2>2, OwnerKept
<1>2. CASE Lands(j) /\ Effect(TxOf(j)) /\ job'[j].tx = "landed"
  <2>1. job' = [job EXCEPT ![j] = WithTx(job[j], "landed")]
        \/ job' = [job EXCEPT ![j] = WithTx(job[j], "failed")]
    BY <1>2 DEF Lands, WithTx
  <2>2. /\ job'[j].nonce = job[j].nonce /\ job'[j].command = job[j].command
        /\ job'[j].at = job[j].at
    BY <2>1, TxFields DEF OpsInv, OperationsTypeOK
  <2>3. TypeOK /\ TxOf(j).op \in Unchecked /\ TxOf(j).nonce = job[j].nonce
    BY <2>2 DEF OpsInv, TxOf, Op
  <2>. QED  BY <1>2, <2>2, <2>3, MessageEffect
<1>. QED  BY <1>1, <1>2, StepsOfJob, NotLanded

LEMMA SpentAlways == OperationsSpec => []SpentInv
<1>1. OperationsInit => SpentInv
  BY DEF OperationsInit, SpentInv, LandedInv, NewJob
<1>. QED  BY <1>1, SpentNext, OpsInvAlways, PTL DEF OperationsSpec

\* A replay goes through only after its transfer had failed on landing: one that
\* landed has spent its nonce, whatever was sent since (ops.ts:786-810).
THEOREM ReplaysAreRefused == OperationsSpec => ReplayOnlyAfterFailure
<1> DEFINE Silent ==
        \A j \in Jobs : (job[j].tx = "landed" /\ job'[j] # job[j]) => strays' = strays
<1>1. ASSUME OpsInv, SpentInv, [OperationsNext]_allVars PROVE Silent
  <2> SUFFICES ASSUME NEW j \in Jobs, job[j].tx = "landed", job'[j] # job[j]
               PROVE  strays' = strays
    OBVIOUS
  <2>1. OffChain(j)
    BY <1>1, StepsOfJob DEF Lands
  <2>2. ASSUME Replays(j) PROVE ~Passes(TxOf(j))
    <3>1. Op(j) \in Unchecked /\ Running(j) /\ TxOf(j).op = "transferReplay"
      BY <2>2 DEF Replays, Unchecked, TxOf
    <3>2. /\ job[j].nonce < wallet[Owner].nonce
          /\ job[j].nonce \in Nat /\ wallet[Owner].nonce \in Nat
      BY <1>1, <3>1, JobFields, OperationsAssumption, WalletNonce
         DEF SpentInv, LandedInv, OpsInv, OperationsTypeOK
    <3>3. \A p : IntentOf(TxOf(j), p).nonce = job[j].nonce
      BY DEF IntentOf, TxOf
    <3>4. Passes(TxOf(j)) => job[j].nonce = wallet[Owner].nonce
      BY <3>1, <3>3 DEF Passes, IsTransfer, TransferPasses, VerifyEnclaveIntent, BoundTo
    <3>. QED  BY <3>2, <3>4
  <2>. QED
    BY <2>1, <2>2
       DEF OffChain, JobReads, ReadsKey, ReadsNonce, ReadsSlot, ReadsHash, ReadsBalance,
           ReadsAccount, ReadsAttestation, Reads, Sends, Refused, Confirmed, Replays,
           Throws, Crashes, Faults, Begins, JobMoves
<1>2. OpsInv /\ SpentInv /\ [OperationsNext]_allVars => [Silent]_allVars
  BY <1>1
<1>. QED  BY <1>2, SpentAlways, OpsInvAlways, PTL DEF OperationsSpec, ReplayOnlyAfterFailure
-----------------------------------------------------------------------------
(* What demo-local leaves behind.                                          *)

\* The relayer knows one image and one program: a list that is full, or an entry
\* that is there, is its own.
ImageOnly ==
    \A i \in 1..Len(entries) :
        /\ entries[i].measurement = Image
        /\ entries[i].status = "revoked" => Image \in revoked

OneGrant == granted[Owner] \subseteq {SystemProgram}

\* What the first d operations of the script have achieved.
Spent(d) == (IF d >= 8 THEN Amount ELSE 0) + (IF d >= 10 THEN Amount ELSE 0)

SetUp(d) ==
    /\ d >= 1 => RegistryOpen
    /\ d >= 2 => (governor = Gov /\ Image \notin revoked => IsActive(entries, Image))
    /\ d >= 3 => Owner \in open
    /\ d >= 4 => lamports[Owner] >= Target - Spent(d)
    /\ d >= 5 => (MayBeSetUp => wallet[Owner].signer = ServedKeys[enclaveStart])
    /\ d >= 7 => Contains(policy[Owner], SystemProgram)

Finished(j) ==
    IF job[j].tx \in {"landed", "failed"} THEN job[j].at ELSE job[j].at - 1

\* What it has read for the transfer to the wallet and for the rotation holds.
Prepared(j) ==
    job[j].tx \in {"none", "inflight"} =>
        /\ (job[j].at = 4 /\ job[j].reads >= 1) => job[j].amount = Target - lamports[Owner]
        /\ job[j].at = 5 =>
              /\ job[j].reads >= 1 => job[j].key = ServedKeys[enclaveStart]
              /\ job[j].reads >= 2 => job[j].nonce = wallet[Owner].nonce
              /\ job[j].reads >= 3 => slot <= job[j].expiry

DemoInv(j) == SetUp(Finished(j)) /\ Prepared(j)

CleanInv == \A j \in clean : job[j].command # NoCommand
DemosInv == \A j \in clean : job[j].command = "demo-local" => DemoInv(j)

HomeInv == GrantsKept /\ RevocationsKept /\ ImageOnly /\ OneGrant

\* A step of the command line is a landing, or leaves alone all that a demo sets up.
LEMMA EffectOrNothing ==
    ASSUME OpsInv, [OperationsNext]_allVars
    PROVE  \/ \E tx : Effect(tx)
           \/ UNCHANGED <<open, wallet, policy, lamports, governor, entries, granted, revoked>>
<1>1. ASSUME NEW j \in Jobs, OffChain(j) PROVE UNCHANGED vars
  BY <1>1, OffChainKept
<1>2. ASSUME NEW j \in Jobs, Lands(j) PROVE Effect(TxOf(j)) \/ UNCHANGED vars
  BY <1>2 DEF Lands
<1>3. ASSUME NEW tx \in strays, StrayLands(tx) PROVE Effect(tx) \/ UNCHANGED vars
  BY <1>3 DEF StrayLands
<1>4. EnclaveRestarts \/ UNCHANGED allVars => UNCHANGED vars
  BY DEF EnclaveRestarts, allVars
<1>5. SlotPasses =>
        UNCHANGED <<open, wallet, policy, lamports, governor, entries, granted, revoked>>
  BY DEF SlotPasses, NextSlot
<1>6. UNCHANGED vars =>
        UNCHANGED <<open, wallet, policy, lamports, governor, entries, granted, revoked>>
  BY DEF vars
<1>. QED  BY <1>1, <1>2, <1>3, <1>4, <1>5, <1>6 DEF OperationsNext, OffChain

LEMMA ImageOnlyKept ==
    ASSUME TypeOK, RevocationsKept, ImageOnly, NEW tx, Effect(tx)
    PROVE  ImageOnly'
<1>1. entries \in Seq(EntryType) /\ Distinct(entries) /\ Image \in Measurements
  BY OperationsAssumption DEF TypeOK, RevocationsKept
<1>2. CASE InitMeasurementRegistry(Gov)
  BY <1>2 DEF InitMeasurementRegistry, ImageOnly
<1>3. CASE AddMeasurement(Gov, Image)
  <2> DEFINE e == [measurement |-> Image, status |-> "active"]
  <2>1. /\ entries' = Append(entries, e) /\ revoked' = revoked
        /\ e.measurement = Image /\ e.status = "active"
    BY <1>3 DEF AddMeasurement, WithMeasurement
  <2> HIDE DEF e
  <2>. QED  BY <1>1, <2>1 DEF ImageOnly
<1>4. CASE RevokeMeasurement(Gov, Image)
  <2>1. /\ entries' = WithRevoked(entries, Image) /\ Present(entries, Image)
        /\ Image \in revoked'
    BY <1>4 DEF RevokeMeasurement
  <2>2. /\ Len(entries') = Len(entries)
        /\ \A i \in 1..Len(entries) : entries'[i].measurement = entries[i].measurement
    BY <1>1, <2>1, RevokeCorrect
  <2>. QED  BY <2>1, <2>2 DEF ImageOnly
<1>5. CASE UNCHANGED <<entries, revoked>>
  BY <1>5 DEF ImageOnly
<1>6. CASE RegistryEffect(tx)
  BY <1>2, <1>3, <1>4, <1>5, <1>6 DEF RegistryEffect, TransferGovernor
<1>7. CASE WalletEffect(tx) \/ AllowlistEffect(tx)
  BY <1>5, <1>7 DEF WalletEffect, AllowlistEffect, InitializeWallet, Deposit,
       RegisterEnclaveV2, AddAllowedProgram, RemoveAllowedProgram
<1>8. CASE IntentEffect(tx)
  BY <1>5, <1>8 DEF IntentEffect, ExecuteTransfer, ExecuteArbitraryCpi
<1>. QED  BY <1>6, <1>7, <1>8 DEF Effect

LEMMA OneGrantKept ==
    ASSUME TypeOK, OneGrant, NEW tx, Effect(tx)
    PROVE  OneGrant'
<1>1. granted \in [Authorities -> SUBSET Programs] /\ Owner \in Authorities
  BY OperationsAssumption DEF TypeOK
<1>2. CASE RegistryEffect(tx)
  BY <1>2 DEF RegistryEffect, InitMeasurementRegistry, AddMeasurement,
              RevokeMeasurement, TransferGovernor, OneGrant
<1>3. CASE WalletEffect(tx)
  BY <1>1, <1>3 DEF WalletEffect, InitializeWallet, Deposit, RegisterEnclaveV2, OneGrant
<1>4. CASE AllowlistEffect(tx)
  BY <1>1, <1>4 DEF AllowlistEffect, AddAllowedProgram, RemoveAllowedProgram, OneGrant
<1>5. CASE IntentEffect(tx)
  BY <1>5 DEF IntentEffect, ExecuteTransfer, ExecuteArbitraryCpi, OneGrant
<1>. QED  BY <1>2, <1>3, <1>4, <1>5 DEF Effect

LEMMA HomeNext == OpsInv /\ HomeInv /\ [OperationsNext]_allVars => HomeInv'
<1> SUFFICES ASSUME OpsInv, HomeInv, [OperationsNext]_allVars PROVE HomeInv'
  OBVIOUS
<1>1. TypeOK /\ [Next]_vars
  BY ChainSees DEF OpsInv
<1>2. GrantsKept' /\ RevocationsKept'
  BY <1>1, GrantsNext, RevocationsNext DEF HomeInv
<1>3. CASE UNCHANGED <<open, wallet, policy, lamports, governor, entries, granted, revoked>>
  BY <1>2, <1>3 DEF HomeInv, ImageOnly, OneGrant
<1>. QED  BY <1>1, <1>2, <1>3, EffectOrNothing, ImageOnlyKept, OneGrantKept DEF HomeInv

-----------------------------------------------------------------------------
(* One operation of demo-local after the other.                            *)

LEMMA DemoReads ==
    ASSUME "demo-local" \in Commands
    PROVE  /\ ReadsOf(Script["demo-local"][1]) = <<>>
           /\ ReadsOf(Script["demo-local"][2]) = <<>>
           /\ ReadsOf(Script["demo-local"][3]) = <<"account", "key">>
           /\ ReadsOf(Script["demo-local"][4]) = <<"balance">>
           /\ ReadsOf(Script["demo-local"][5]) = <<"key", "nonce", "slot">>
           /\ ReadsOf(Script["demo-local"][6]) = <<>>
           /\ ReadsOf(Script["demo-local"][7]) = <<>>
           /\ ReadsOf(Script["demo-local"][8]) = <<"key", "nonce", "slot", "hash">>
           /\ ReadsOf(Script["demo-local"][9]) = <<>>
           /\ ReadsOf(Script["demo-local"][10]) = <<"key", "nonce", "slot", "hash">>
<1>1. \A op : op \in {"initRegistry", "addMeasurement", "systemTransfer", "allow"} =>
          ReadsOf(op) = <<>>
  BY DEF ReadsOf
<1>2. ReadsOf("initWalletOnce") = <<"account", "key">>
  BY DEF ReadsOf
<1>3. ReadsOf("fundWalletPda") = <<"balance">>
  BY DEF ReadsOf
<1>4. ReadsOf("registerEnclaveV2") = <<"key", "nonce", "slot">>
  BY DEF ReadsOf
<1>5. \A op : op \in {"transfer", "transferReplay"} =>
          ReadsOf(op) = <<"key", "nonce", "slot", "hash">>
  BY DEF ReadsOf
<1>. QED  BY <1>1, <1>2, <1>3, <1>4, <1>5, DemoScript

\* Where a demo is when it asks for something.
LEMMA DemoAsks ==
    ASSUME OpsInv, NEW j \in Jobs, job[j].command = "demo-local", NEW r, Asks(j, r)
    PROVE  /\ r = "account" => job[j].at = 3
           /\ r = "balance" => job[j].at = 4 /\ job[j].reads = 0
           /\ r = "nonce" => job[j].at >= 5
           /\ r = "hash" => job[j].at >= 8
           /\ r # "attestation"
           /\ job[j].at = 4 => r = "balance"
           /\ job[j].at = 5 => \/ r = "key" /\ job[j].reads = 0
                               \/ r = "nonce" /\ job[j].reads = 1
                               \/ r = "slot" /\ job[j].reads = 2
<1> DEFINE n == job[j].at
           k == job[j].reads
<1>1. /\ n \in 1..10 /\ k \in 0..4 /\ "demo-local" \in Commands
      /\ k < Len(ReadsOf(Script["demo-local"][n]))
      /\ ReadsOf(Script["demo-local"][n])[k + 1] = r
  BY RunningFacts, DemoScript, JobFields DEF Asks, Op
<1> HIDE DEF n, k
<1>2. n \in {3, 4, 5, 8, 10}
  BY <1>1, DemoReads
<1>3. CASE n = 3
  BY <1>1, <1>3, DemoReads DEF n, k
<1>4. CASE n = 4
  BY <1>1, <1>4, DemoReads DEF n, k
<1>5. CASE n = 5
  BY <1>1, <1>5, DemoReads DEF n, k
<1>6. CASE n = 8
  BY <1>1, <1>6, DemoReads DEF n, k
<1>7. CASE n = 10
  <2>1. k < 4 /\ <<"key", "nonce", "slot", "hash">>[k + 1] = r
    BY <1>1, <1>7, DemoReads
  <2>2. k \in {0, 1, 2, 3}
    BY <1>1, <2>1
  <2>3. r \in {"key", "nonce", "slot", "hash"}
    BY <2>1, <2>2
  <2>. QED  BY <1>7, <2>3 DEF n, k
<1>. QED  BY <1>2, <1>3, <1>4, <1>5, <1>6, <1>7
\* What is so if the n-th operation is over without having landed in this step.
Met(n) ==
    /\ n = 1 => RegistryOpen
    /\ n = 2 => (governor = Gov /\ Image \notin revoked => IsActive(entries, Image))
    /\ n = 3 => Owner \in open
    /\ n = 4 => lamports[Owner] >= Target
    /\ n = 5 => (MayBeSetUp => wallet[Owner].signer = ServedKeys[enclaveStart])
    /\ n = 7 => Contains(policy[Owner], SystemProgram)

LEMMA SpentTyped ==
    \A d \in Nat : Spent(d) \in Nat /\ Spent(d) <= Spent(d + 1)
BY OperationsAssumption, LamportsAssumption DEF Spent

LEMMA SetUpGrows ==
    ASSUME TypeOK, NEW n \in 1..10, SetUp(n - 1), Met(n)
    PROVE  SetUp(n)
<1>1. lamports[Owner] \in Nat /\ Target \in Nat
  BY OperationsAssumption DEF TypeOK
<1>2. n >= 4 => lamports[Owner] >= Target - Spent(n)
  <2>1. CASE n = 4
    BY <1>1, <2>1, SpentTyped DEF Met
  <2>2. CASE n >= 5
    <3>1. lamports[Owner] >= Target - Spent(n - 1)
      BY <2>2 DEF SetUp
    <3>2. /\ Spent(n - 1) \in Nat /\ Spent(n) \in Nat /\ Spent(n - 1) <= Spent(n)
      <4>1. n - 1 \in Nat /\ (n - 1) + 1 = n /\ n \in Nat
        OBVIOUS
      <4>. QED  BY <4>1, SpentTyped
    <3>. QED  BY <1>1, <3>1, <3>2
  <2>. QED  BY <2>1, <2>2
<1>3. n >= 1 => RegistryOpen
  BY DEF SetUp, Met
<1>4. n >= 2 => (governor = Gov /\ Image \notin revoked => IsActive(entries, Image))
  <2>1. n = 2 \/ n - 1 >= 2 \/ n = 1
    OBVIOUS
  <2>. QED  BY <2>1 DEF SetUp, Met
<1>5. n >= 3 => Owner \in open
  <2>1. n >= 3 => n = 3 \/ n - 1 >= 3
    OBVIOUS
  <2>. QED  BY <2>1 DEF SetUp, Met
<1>6. n >= 5 => (MayBeSetUp => wallet[Owner].signer = ServedKeys[enclaveStart])
  <2>1. n >= 5 => n = 5 \/ n - 1 >= 5
    OBVIOUS
  <2>. QED  BY <2>1 DEF SetUp, Met
<1>7. n >= 7 => Contains(policy[Owner], SystemProgram)
  <2>1. n >= 7 => n = 7 \/ n - 1 >= 7
    OBVIOUS
  <2>. QED  BY <2>1 DEF SetUp, Met
<1>. QED  BY <1>2, <1>3, <1>4, <1>5, <1>6, <1>7 DEF SetUp

\* An image that cannot be added is there, and active unless it was revoked.
LEMMA ImageThere ==
    ASSUME TypeOK, HomeInv, Image \notin revoked, ~MayAddMeasurement(entries, Image)
    PROVE  IsActive(entries, Image)
<1>1. entries \in Seq(EntryType) /\ Distinct(entries) /\ Len(entries) \in Nat
  BY DEF TypeOK, HomeInv, RevocationsKept
<1>2. Present(entries, Image)
  <2>1. CASE Len(entries) >= MaxMeasurements
    <3>1. 1 \in 1..Len(entries)
      BY <1>1, <2>1, MaxMeasurementsAssumption
    <3>. QED  BY <3>1 DEF HomeInv, ImageOnly, Present
  <2>. QED  BY <1>1, <2>1, MaxMeasurementsAssumption DEF MayAddMeasurement
<1>3. IndexOf(entries, Image) \in 1..Len(entries)
  BY <1>1, <1>2, IndexCorrect
<1>4. entries[IndexOf(entries, Image)].status # "revoked"
  BY <1>3 DEF HomeInv, ImageOnly
<1>5. entries[IndexOf(entries, Image)].status \in {"active", "revoked"}
  <2>1. entries[IndexOf(entries, Image)] \in EntryType
    BY <1>1, <1>3, ElementOfSeq
  <2>. QED  BY <2>1 DEF EntryType
<1>. QED  BY <1>2, <1>4, <1>5 DEF IsActive

LEMMA ImageAdded ==
    ASSUME TypeOK, HomeInv, MayAddMeasurement(entries, Image)
    PROVE  IsActive(WithMeasurement(entries, Image), Image)
<1>1. entries \in Seq(EntryType) /\ Distinct(entries) /\ Image \in Measurements
      /\ Len(entries) \in Nat
  BY OperationsAssumption DEF TypeOK, HomeInv, RevocationsKept
<1> DEFINE new == WithMeasurement(entries, Image)
           k == Len(entries) + 1
<1>2. /\ new \in Seq(EntryType) /\ Distinct(new) /\ Len(new) = k
      /\ new[k].measurement = Image
  BY <1>1, AddMeasurementCorrect
<1>3. new[k].status = "active"
  <2> DEFINE e == [measurement |-> Image, status |-> "active"]
  <2>1. new = Append(entries, e) /\ e.status = "active"
    BY DEF WithMeasurement
  <2> HIDE DEF e, new
  <2>. QED  BY <1>1, <2>1
<1> HIDE DEF new
<1>4. k \in 1..Len(new)
  BY <1>1, <1>2
<1>5. Present(new, Image)
  BY <1>2, <1>4 DEF Present
<1>6. IndexOf(new, Image) \in 1..Len(new) /\ new[IndexOf(new, Image)].measurement = Image
  BY <1>1, <1>2, <1>5, IndexCorrect
<1>7. IndexOf(new, Image) = k
  BY <1>2, <1>4, <1>6 DEF Distinct
<1>8. IsActive(new, Image)
  BY <1>3, <1>5, <1>7 DEF IsActive
<1>. QED  BY <1>8 DEF new

\* The System Program cannot be added only if it is there.
LEMMA GrantThere ==
    ASSUME TypeOK, HomeInv, ~MayAdd(policy[Owner], SystemProgram)
    PROVE  Contains(policy[Owner], SystemProgram)
<1> DEFINE pol == policy[Owner]
<1>1. /\ pol \in PolicyType /\ WellFormed(pol)
      /\ \A p \in Programs : Contains(pol, p) => p = SystemProgram
  BY OperationsAssumption DEF TypeOK, HomeInv, GrantsKept, OneGrant
<1>2. pol.count \in 0..MaxAllowed /\ pol.programs \in [1..MaxAllowed -> Programs]
  BY <1>1 DEF PolicyType, Slots
<1>3. ASSUME ~Contains(pol, SystemProgram) PROVE FALSE
  <2>1. pol.count >= MaxAllowed
    BY <1>2, <1>3, ProgramsAssumption, MaxAllowedAssumption DEF MayAdd
  <2>2. 1 \in 1..pol.count /\ pol.programs[1] \in Programs
    BY <1>2, <2>1, MaxAllowedAssumption
  <2>3. Contains(pol, pol.programs[1])
    BY <2>2 DEF Contains
  <2>. QED  BY <1>1, <1>3, <2>2, <2>3
<1>. QED  BY <1>3
\* What the chain refuses of a demo was done before.
LEMMA DemoRefusal ==
    ASSUME OpsInv, HomeInv, NEW j \in Jobs, Running(j), job[j].command = "demo-local",
           job[j].tx \in {"none", "inflight"}, job[j].reads = Len(ReadsOf(Op(j))),
           ~Passes(TxOf(j)), DemoInv(j)
    PROVE  Met(job[j].at)
<1> DEFINE n == job[j].at
<1>1. /\ n \in 1..10 /\ "demo-local" \in Commands /\ Op(j) = Script["demo-local"][n]
      /\ TypeOK
  BY RunningFacts, DemoScript DEF Op, OpsInv
<1>2. SetUp(n - 1) /\ Prepared(j)
  BY DEF DemoInv, Finished
<1>3. TxOf(j).op = Op(j) /\ TxOf(j).nonce = job[j].nonce /\ TxOf(j).expiry = job[j].expiry
  BY DEF TxOf
<1>4. CASE n = 1
  BY <1>1, <1>3, <1>4, DemoScript DEF Passes, Met
<1>5. CASE n = 2
  <2>1. ASSUME governor = Gov, Image \notin revoked PROVE IsActive(entries, Image)
    <3>1. ~MayAddMeasurement(entries, Image)
      BY <1>1, <1>2, <1>3, <1>5, <2>1, DemoScript DEF Passes, IsGovernor, SetUp
    <3>. QED  BY <1>1, <2>1, <3>1, ImageThere
  <2>. QED  BY <1>5, <2>1 DEF Met
<1>6. CASE n = 3
  BY <1>1, <1>3, <1>6, DemoScript DEF Passes, Met
<1>7. CASE n = 4
  BY <1>1, <1>3, <1>7, DemoScript DEF Passes
<1>8. CASE n = 5
  <2>1. ASSUME MayBeSetUp PROVE FALSE
    <3>1. Owner \in open /\ RegistryOpen /\ IsActive(entries, Image)
      BY <1>2, <1>8, <2>1 DEF SetUp, MayBeSetUp
    <3>2. job[j].reads = 3
      BY <1>1, <1>8, DemoReads
    <3>3. job[j].nonce = wallet[Owner].nonce /\ slot <= job[j].expiry
      BY <1>2, <1>8, <3>2 DEF Prepared
    <3>4. VerifyAttestationProof(Owner, ProofOf(TxOf(j)))
      BY <1>3, <2>1, <3>3 DEF VerifyAttestationProof, ProofOf, MayBeSetUp
    <3>5. NonceCanAdvance(Owner)
      BY <2>1 DEF MayBeSetUp, NonceCanAdvance
    <3>. QED  BY <1>1, <1>3, <1>8, <3>1, <3>4, <3>5, DemoScript DEF Passes
  <2>. QED  BY <1>8, <2>1 DEF Met
<1>9. CASE n = 7
  <2>1. Owner \in open
    BY <1>2, <1>9 DEF SetUp
  <2>2. ~MayAdd(policy[Owner], SystemProgram)
    BY <1>1, <1>3, <1>9, <2>1, DemoScript DEF Passes
  <2>. QED  BY <1>1, <1>9, <2>2, GrantThere DEF Met
<1>10. CASE n \in {6, 8, 9, 10}
  BY <1>10 DEF Met
<1>. QED  BY <1>1, <1>4, <1>5, <1>6, <1>7, <1>8, <1>9, <1>10

\* What lands of a demo does its part, and undoes no other.
LEMMA DemoLands ==
    ASSUME TypeOK, HomeInv, "demo-local" \in Commands, NEW n \in 1..10, NEW tx,
           tx.op = Script["demo-local"][n], Effect(tx), enclaveStart' = enclaveStart,
           SetUp(n - 1),
           n = 4 => tx.amount = Target - lamports[Owner],
           n = 5 => tx.key = ServedKeys[enclaveStart]
    PROVE  SetUp(n)'
<1>0. /\ Owner \in Authorities /\ lamports \in [Authorities -> Nat]
      /\ wallet \in [Authorities -> WalletType] /\ policy \in [Authorities -> PolicyType]
      /\ Amount \in Nat /\ Target \in Nat /\ wallet[Owner].nonce \in Nat /\ MaxNonce \in Nat
  BY OperationsAssumption, LamportsAssumption, BoundsAssumption, WalletNonce DEF TypeOK
<1> USE DEF Effect, RegistryEffect, WalletEffect, AllowlistEffect, IntentEffect, IsTransfer
<1>1. CASE n = 1
  <2>1. InitMeasurementRegistry(Gov)
    BY <1>1, DemoScript
  <2>2. RegistryOpen'
    BY <2>1, OperationsAssumption, AccountsAssumption DEF InitMeasurementRegistry, RegistryOpen
  <2>. QED  BY <1>1, <2>2 DEF SetUp
<1>2. CASE n = 2
  <2>1. AddMeasurement(Gov, Image)
    BY <1>2, DemoScript
  <2>2. IsActive(entries', Image) /\ RegistryOpen'
    BY <2>1, ImageAdded DEF AddMeasurement, RegistryOpen
  <2>. QED  BY <1>2, <2>2 DEF SetUp
<1>3. CASE n = 3
  <2>1. InitializeWallet(Owner, tx.key, DefaultLimits)
    BY <1>3, DemoScript
  <2>2. Owner \in open' /\ UNCHANGED <<governor, entries, revoked>>
    BY <2>1 DEF InitializeWallet
  <2>. QED  BY <1>3, <2>2 DEF SetUp, RegistryOpen
<1>4. CASE n = 4
  <2>1. Deposit(Owner, tx.amount)
    BY <1>4, DemoScript
  <2>2. /\ lamports'[Owner] = Target
        /\ UNCHANGED <<open, governor, entries, revoked>>
    BY <1>0, <1>4, <2>1 DEF Deposit
  <2>3. Spent(4) = 0
    BY DEF Spent
  <2>. QED  BY <1>0, <1>4, <2>2, <2>3 DEF SetUp, RegistryOpen
<1>5. CASE n = 5
  <2>1. RegisterEnclaveV2(Owner, ProofOf(tx), Gov)
    BY <1>5, DemoScript
  <2>2. /\ wallet'[Owner].signer = ServedKeys[enclaveStart]
        /\ UNCHANGED <<open, lamports, governor, entries, revoked>>
    BY <1>0, <1>5, <2>1 DEF RegisterEnclaveV2, ProofOf, WalletType
  <2>3. Spent(4) = 0 /\ Spent(5) = 0
    BY DEF Spent
  <2>. QED  BY <1>0, <1>5, <2>2, <2>3 DEF SetUp, RegistryOpen
<1>6. CASE n \in {6, 9}
  BY <1>6, DemoScript
<1>7. CASE n = 7
  <2>1. AddAllowedProgram(Owner, SystemProgram)
    BY <1>7, DemoScript
  <2>2. Contains(policy'[Owner], SystemProgram)
    BY <1>0, <2>1, AdditionCorrect, ProgramsAssumption
       DEF AddAllowedProgram, HomeInv, GrantsKept
  <2>3. UNCHANGED <<open, wallet, lamports, governor, entries, revoked>>
    BY <2>1 DEF AddAllowedProgram
  <2>4. Spent(6) = 0 /\ Spent(7) = 0
    BY DEF Spent
  <2>. QED  BY <1>0, <1>7, <2>2, <2>3, <2>4 DEF SetUp, RegistryOpen, MayBeSetUp
<1>8. CASE n \in {8, 10}
  <2>1. PICK m : ExecuteTransfer(Owner, m, Outside, Amount)
    BY <1>8, DemoScript
  <2>2. /\ wallet' = [wallet EXCEPT ![Owner].nonce = @ + 1]
        /\ lamports' = Moved(Owner, Outside, Amount)
        /\ UNCHANGED <<open, policy, governor, entries, revoked>>
    BY <2>1 DEF ExecuteTransfer
  <2>3. /\ wallet'[Owner].signer = wallet[Owner].signer
        /\ wallet'[Owner].nonce = wallet[Owner].nonce + 1
    BY <1>0, <2>2 DEF WalletType
  <2>4. lamports'[Owner] = lamports[Owner] - Amount
    BY <1>0, <2>2, AccountsAssumption DEF Moved
  <2>5. Spent(n) = Spent(n - 1) + Amount /\ Spent(n - 1) \in Nat
    BY <1>0, <1>8 DEF Spent
  <2>6. lamports'[Owner] >= Target - Spent(n)
    <3>1. lamports[Owner] >= Target - Spent(n - 1)
      BY <1>8 DEF SetUp
    <3>. QED  BY <1>0, <2>4, <2>5, <3>1
  <2>7. /\ RegistryOpen
        /\ governor = Gov /\ Image \notin revoked => IsActive(entries, Image)
        /\ Owner \in open
        /\ MayBeSetUp => wallet[Owner].signer = ServedKeys[enclaveStart]
        /\ Contains(policy[Owner], SystemProgram)
    BY <1>8 DEF SetUp
  <2>8. MayBeSetUp' => MayBeSetUp
    BY <1>0, <2>2, <2>3 DEF MayBeSetUp
  <2>. QED  BY <2>2, <2>3, <2>6, <2>7, <2>8 DEF SetUp, RegistryOpen
<1>. QED  BY <1>1, <1>2, <1>3, <1>4, <1>5, <1>6, <1>7, <1>8
\* Nothing that a demo sets up or has read changes.
Rests ==
    /\ UNCHANGED <<open, wallet, policy, lamports, governor, entries, revoked>>
    /\ enclaveStart' = enclaveStart /\ slot' = slot

LEMMA DemoRests ==
    ASSUME Rests, NEW j, job'[j] = job[j], DemoInv(j)
    PROVE  DemoInv(j)'
<1>1. Finished(j)' = Finished(j)
  BY DEF Finished
<1>2. SetUp(Finished(j))'
  BY <1>1 DEF Rests, DemoInv, SetUp, RegistryOpen, MayBeSetUp
<1>3. Prepared(j)'
  BY DEF Rests, DemoInv, Prepared
<1>. QED  BY <1>2, <1>3 DEF DemoInv

\* From one operation to the next.
LEMMA DemoAdvances ==
    ASSUME OpsInv, Rests, NEW j \in Jobs, Running(j), job[j].command = "demo-local",
           job' = [job EXCEPT ![j] = Advanced(job[j])],
           DemoInv(j), job[j].tx \in {"landed", "failed"} \/ Met(job[j].at)
    PROVE  DemoInv(j)'
<1>1. job[j].at \in 1..10 /\ "demo-local" \in Commands
      /\ TypeOK /\ job \in [Jobs -> JobType]
  BY RunningFacts, DemoScript DEF OpsInv, OperationsTypeOK
<1>2. PICK n \in 1..10 : n = job[j].at
  BY <1>1
<1>3. SetUp(n)
  <2>1. CASE job[j].tx \in {"landed", "failed"}
    BY <1>2, <2>1 DEF DemoInv, Finished
  <2>2. CASE job[j].tx \notin {"landed", "failed"}
    <3>1. SetUp(n - 1)
      BY <1>2, <2>2 DEF DemoInv, Finished
    <3>. QED  BY <1>1, <1>2, <2>2, <3>1, SetUpGrows
  <2>. QED  BY <2>1, <2>2
<1>4. job'[j].at = n + 1 /\ job'[j].tx = "none" /\ job'[j].reads = 0
  <2>1. job'[j] = FreshAt("demo-local", n + 1)
    BY <1>1, <1>2 DEF Advanced, FreshAt
  <2>2. n + 1 \in 1..11
    OBVIOUS
  <2>. QED  BY <1>1, <2>1, <2>2, FreshFields
<1>5. Finished(j)' = n
  BY <1>4 DEF Finished
<1>6. SetUp(n)'
  BY <1>3 DEF Rests, SetUp, RegistryOpen, MayBeSetUp
<1>7. Prepared(j)'
  BY <1>4 DEF Prepared
<1>. QED  BY <1>5, <1>6, <1>7 DEF DemoInv

\* A request that was answered.
Answer(j, what, r) ==
    /\ what = "balance" => r.amount = Target - lamports[Owner]
    /\ IF what = "key" THEN r.key = ServedKeys[enclaveStart] ELSE r.key = job[j].key
    /\ IF what = "nonce" THEN r.nonce = wallet[Owner].nonce ELSE r.nonce = job[j].nonce
    /\ what = "slot" => r.expiry = slot + ExpirySlots

LEMMA DemoReadsOn ==
    ASSUME OpsInv, Rests, NEW j \in Jobs, job[j].command = "demo-local", NEW what, Asks(j, what),
           NEW r \in JobType, ReadOn(job[j], r), job' = [job EXCEPT ![j] = r],
           DemoInv(j),
           Answer(j, what, r)
    PROVE  DemoInv(j)'
<1>1. /\ job'[j] = r /\ r.at = job[j].at /\ r.tx = "none" /\ job[j].tx = "none"
      /\ r.reads = job[j].reads + 1 /\ job[j].reads \in 0..4
  BY JobFields DEF OpsInv, OperationsTypeOK, ReadOn, Asks
<1>2. SetUp(Finished(j))'
  <2>1. Finished(j)' = Finished(j)
    BY <1>1 DEF Finished
  <2>. QED  BY <2>1 DEF Rests, DemoInv, SetUp, RegistryOpen, MayBeSetUp
<1>3. CASE r.at = 4
  <2>1. r.amount = Target - lamports[Owner]
    BY <1>1, <1>3, DemoAsks DEF Answer
  <2>. QED  BY <1>1, <1>2, <1>3, <2>1 DEF Rests, DemoInv, Prepared
<1>4. CASE r.at = 5
  <2>1. \/ what = "key" /\ job[j].reads = 0
        \/ what = "nonce" /\ job[j].reads = 1
        \/ what = "slot" /\ job[j].reads = 2
    BY <1>1, <1>4, DemoAsks
  <2>2. /\ job[j].reads >= 1 => job[j].key = ServedKeys[enclaveStart]
        /\ job[j].reads >= 2 => job[j].nonce = wallet[Owner].nonce
    BY <1>1, <1>4 DEF DemoInv, Prepared
  <2>3. r.key = ServedKeys[enclaveStart]
    BY <2>1, <2>2 DEF Answer
  <2>4. r.reads >= 2 => r.nonce = wallet[Owner].nonce
    BY <1>1, <2>1, <2>2 DEF Answer
  <2>5. r.reads >= 3 => slot <= r.expiry
    BY <1>1, <2>1, SlotTyped DEF Answer
  <2>. QED  BY <1>1, <1>2, <1>4, <2>3, <2>4, <2>5 DEF Rests, DemoInv, Prepared
<1>5. CASE r.at \notin {4, 5}
  BY <1>1, <1>2, <1>5 DEF Rests, DemoInv, Prepared
<1>. QED  BY <1>3, <1>4, <1>5

LEMMA DemoRead ==
    ASSUME OpsInv, NEW j \in Jobs, JobReads(j), job[j].command = "demo-local", DemoInv(j),
           ReadsAccount(j) => ~FundedWithoutWallet
    PROVE  DemoInv(j)'
<1>1. Rests /\ Running(j)
  BY ReadsKept DEF Rests, vars
<1> DEFINE q == job[j]
<1>2. q \in JobType
  BY DEF OpsInv, OperationsTypeOK
<1>3. q.reads < 4
  <2>1. PICK k \in 0..4 : Len(ReadsOf(Op(j))) = k
    BY ReadLengths
  <2>2. q.reads < k /\ q.reads \in 0..4
    <3>1. q.reads < Len(ReadsOf(Op(j)))
      BY DEF JobReads, ReadsKey, ReadsNonce, ReadsSlot, ReadsHash, ReadsBalance,
             ReadsAccount, ReadsAttestation, Reads, Asks
    <3>. QED  BY <1>2, <2>1, <3>1, JobFields
  <2>. QED  BY <2>2
<1> HIDE DEF q
<1>4. CASE ReadsKey(j)
  <2> DEFINE k == ServedKeys[enclaveStart]
  <2>1. k \in Keys
    BY ServedKeysTyped DEF OpsInv, OperationsTypeOK
  <2>2. Asks(j, "key") /\ job' = [job EXCEPT ![j] = WithKey(q, k)]
    BY <1>4 DEF ReadsKey, Reads, JobMoves, OneReadMore, WithKey, q
  <2> HIDE DEF k
  <2>3. /\ WithKey(q, k) \in JobType /\ ReadOn(q, WithKey(q, k))
        /\ WithKey(q, k).key = k /\ WithKey(q, k).nonce = q.nonce
    BY <1>2, <1>3, <2>1, ReadFields
  <2>4. Answer(j, "key", WithKey(q, k))
    BY <2>3 DEF Answer, q, k
  <2>. QED  BY <1>1, <2>2, <2>3, <2>4, DemoReadsOn DEF q
<1>5. CASE ReadsNonce(j)
  <2> DEFINE n == wallet[Owner].nonce
  <2>1. n \in 0..MaxNonce
    BY OperationsAssumption DEF OpsInv, TypeOK, WalletType
  <2>2. Asks(j, "nonce") /\ job' = [job EXCEPT ![j] = WithNonce(q, n)]
    BY <1>5 DEF ReadsNonce, Reads, JobMoves, OneReadMore, WithNonce, q
  <2> HIDE DEF n
  <2>3. /\ WithNonce(q, n) \in JobType /\ ReadOn(q, WithNonce(q, n))
        /\ WithNonce(q, n).nonce = n /\ WithNonce(q, n).key = q.key
    BY <1>2, <1>3, <2>1, ReadFields
  <2>4. Answer(j, "nonce", WithNonce(q, n))
    BY <2>3 DEF Answer, q, n
  <2>. QED  BY <1>1, <2>2, <2>3, <2>4, DemoReadsOn DEF q
<1>6. CASE ReadsSlot(j)
  <2> DEFINE e == slot + ExpirySlots
  <2>1. e \in Nat
    BY SlotTyped
  <2>2. Asks(j, "slot") /\ job' = [job EXCEPT ![j] = WithExpiry(q, e)]
    BY <1>6 DEF ReadsSlot, Reads, JobMoves, OneReadMore, WithExpiry, q
  <2> HIDE DEF e
  <2>3. /\ WithExpiry(q, e) \in JobType /\ ReadOn(q, WithExpiry(q, e))
        /\ WithExpiry(q, e).expiry = e
        /\ WithExpiry(q, e).key = q.key /\ WithExpiry(q, e).nonce = q.nonce
    BY <1>2, <1>3, <2>1, ReadFields
  <2>4. Answer(j, "slot", WithExpiry(q, e))
    BY <2>3 DEF Answer, q, e
  <2>. QED  BY <1>1, <2>2, <2>3, <2>4, DemoReadsOn DEF q
<1>7. CASE ReadsHash(j)
  <2>2. PICK h \in NewestEntry : Asks(j, "hash") /\ job' = [job EXCEPT ![j] = WithHash(q, h)]
    BY <1>7 DEF ReadsHash, Reads, JobMoves, OneReadMore, WithHash, q
  <2>1. h \in Nat
    BY BlockSlots DEF NewestEntry
  <2>3. /\ WithHash(q, h) \in JobType /\ ReadOn(q, WithHash(q, h))
        /\ WithHash(q, h).key = q.key /\ WithHash(q, h).nonce = q.nonce
    BY <1>2, <1>3, <2>1, ReadFields
  <2>4. Answer(j, "hash", WithHash(q, h))
    BY <2>3 DEF Answer, q
  <2>. QED  BY <1>1, <2>2, <2>3, <2>4, DemoReadsOn DEF q
<1>8. CASE ReadsBalance(j)
  <2>1. CASE lamports[Owner] >= Target
    <3>1. Asks(j, "balance") /\ job' = [job EXCEPT ![j] = Advanced(job[j])]
      BY <1>8, <2>1 DEF ReadsBalance, Reads, JobMoves
    <3>2. Met(job[j].at)
      BY <2>1, <3>1, DemoAsks DEF Met
    <3>. QED  BY <1>1, <3>1, <3>2, DemoAdvances
  <2>2. CASE ~(lamports[Owner] >= Target)
    <3> DEFINE x == Target - lamports[Owner]
    <3>1. x \in 0..Target
      BY <2>2, OperationsAssumption DEF OpsInv, TypeOK
    <3>2. Asks(j, "balance") /\ job' = [job EXCEPT ![j] = WithAmount(q, x)]
      BY <1>8, <2>2 DEF ReadsBalance, Reads, JobMoves, OneReadMore, WithAmount, q
    <3> HIDE DEF x
    <3>3. /\ WithAmount(q, x) \in JobType /\ ReadOn(q, WithAmount(q, x))
          /\ WithAmount(q, x).amount = x
          /\ WithAmount(q, x).key = q.key /\ WithAmount(q, x).nonce = q.nonce
      BY <1>2, <1>3, <3>1, ReadFields
    <3>4. Answer(j, "balance", WithAmount(q, x))
      BY <3>3 DEF Answer, q, x
    <3>. QED  BY <1>1, <3>2, <3>3, <3>4, DemoReadsOn DEF q
  <2>. QED  BY <2>1, <2>2
<1>9. CASE ReadsAccount(j)
  <2>1. CASE Owner \in open
    <3>1. Asks(j, "account") /\ job' = [job EXCEPT ![j] = Advanced(job[j])]
      BY <1>9, <2>1 DEF ReadsAccount, Reads, JobMoves
    <3>2. Met(job[j].at)
      BY <2>1, <3>1, DemoAsks DEF Met
    <3>. QED  BY <1>1, <3>1, <3>2, DemoAdvances
  <2>2. CASE Owner \notin open
    <3>0. ~FundedWithoutWallet
      BY <1>9
    <3>1. Asks(j, "account") /\ job' = [job EXCEPT ![j] = Counted(q)]
      BY <1>9, <2>2, <3>0 DEF ReadsAccount, Reads, JobMoves, OneReadMore, Counted, q
    <3>2. /\ Counted(q) \in JobType /\ ReadOn(q, Counted(q))
          /\ Counted(q).key = q.key /\ Counted(q).nonce = q.nonce
      BY <1>2, <1>3, ReadFields
    <3>3. Answer(j, "account", Counted(q))
      BY <3>2 DEF Answer, q
    <3>. QED  BY <1>1, <3>1, <3>2, <3>3, DemoReadsOn DEF q
  <2>. QED  BY <2>1, <2>2
<1>10. CASE ReadsAttestation(j)
  BY <1>10, DemoAsks DEF ReadsAttestation, Reads
<1>. QED  BY <1>4, <1>5, <1>6, <1>7, <1>8, <1>9, <1>10 DEF JobReads
\* An exception, a confirmation or a replay ends an operation that is over.
LEMMA DemoException ==
    ASSUME OpsInv, HomeInv, NEW j \in Jobs, job[j].command = "demo-local", DemoInv(j),
           Refused(j) \/ Confirmed(j) \/ Replays(j)
    PROVE  DemoInv(j)'
<1>1. Running(j) /\ IsDemo(j)
  BY DEF Refused, Confirmed, Replays, Asks, ReadAll, IsDemo
<1>2. /\ job' = [job EXCEPT ![j] = Advanced(job[j])]
      /\ UNCHANGED vars /\ enclaveStart' = enclaveStart
  BY <1>1 DEF Refused, Confirmed, Replays, JobMoves, AfterException
<1>3. Rests
  BY <1>2 DEF Rests, vars
<1>4. job[j].at \in 1..10 /\ "demo-local" \in Commands /\ Op(j) = Script["demo-local"][job[j].at]
  BY <1>1, RunningFacts, DemoScript DEF Op
<1>5. job[j].tx \in {"landed", "failed"} \/ Met(job[j].at)
  <2>1. CASE job[j].tx \in {"landed", "failed"}
    BY <2>1
  <2>2. ASSUME Asks(j, "nonce"), Owner \notin open, job[j].tx = "none" PROVE Met(job[j].at)
    <3>1. job[j].at >= 5
      BY <2>2, DemoAsks
    <3>. QED  BY <1>4, <2>2, <3>1 DEF DemoInv, Finished, SetUp
  <2>3. ASSUME Asks(j, "hash") PROVE Met(job[j].at)
    <3>1. job[j].at >= 8
      BY <2>3, DemoAsks
    <3>. QED  BY <1>4, <3>1 DEF Met
  <2>4. ASSUME Op(j) \in Unsendable PROVE Met(job[j].at)
    <3>1. job[j].at \in {6, 9}
      BY <1>4, <2>4, DemoScript DEF Unsendable
    <3>. QED  BY <3>1 DEF Met
  <2>5. ASSUME ReadAll(j), ~Passes(TxOf(j)) PROVE Met(job[j].at)
    BY <1>1, <2>5, DemoRefusal DEF ReadAll
  <2>6. CASE Refused(j)
    BY <2>1, <2>2, <2>3, <2>4, <2>5, <2>6 DEF Refused, Asks
  <2>. QED  BY <2>1, <2>6 DEF Confirmed, Replays
<1>. QED  BY <1>1, <1>2, <1>3, <1>5, DemoAdvances

LEMMA DemoSends ==
    ASSUME OpsInv, NEW j \in Jobs, DemoInv(j), Sends(j)
    PROVE  DemoInv(j)'
<1>1. Rests /\ job[j].tx = "none" /\ job' = [job EXCEPT ![j] = WithTx(job[j], "inflight")]
  BY DEF Sends, ReadAll, JobMoves, WithTx, Rests, vars
<1>2. /\ job'[j].at = job[j].at /\ job'[j].tx = "inflight" /\ job'[j].reads = job[j].reads
      /\ job'[j].key = job[j].key /\ job'[j].nonce = job[j].nonce
      /\ job'[j].expiry = job[j].expiry /\ job'[j].amount = job[j].amount
  BY <1>1, TxFields DEF OpsInv, OperationsTypeOK
<1>3. Finished(j)' = Finished(j)
  BY <1>1, <1>2 DEF Finished
<1>4. SetUp(Finished(j))'
  BY <1>1, <1>3 DEF Rests, DemoInv, SetUp, RegistryOpen, MayBeSetUp
<1>5. Prepared(j)'
  BY <1>1, <1>2 DEF Rests, DemoInv, Prepared
<1>. QED  BY <1>4, <1>5 DEF DemoInv

LEMMA DemoBegins ==
    ASSUME OpsInv, NEW j \in Jobs, NEW c \in Commands, Begins(j, c)
    PROVE  DemoInv(j)'
<1>1. job'[j] = FreshAt(c, 1)
  BY DEF Begins, JobMoves, FreshAt, OpsInv, OperationsTypeOK
<1>2. job'[j].at = 1 /\ job'[j].tx = "none"
  BY <1>1, FreshFields
<1>. QED  BY <1>2 DEF DemoInv, Finished, SetUp, Prepared

\* A transaction of a demo lands, and takes effect or not.
LEMMA DemoTx ==
    ASSUME OpsInv, HomeInv, NEW j \in Jobs, job[j].command = "demo-local", DemoInv(j),
           Lands(j)
    PROVE  DemoInv(j)'
<1>1. /\ Running(j) /\ job[j].tx = "inflight" /\ enclaveStart' = enclaveStart
      /\ TypeOK /\ job \in [Jobs -> JobType] /\ job[j].reads = Len(ReadsOf(Op(j)))
  BY DEF Lands, OpsInv, OperationsTypeOK, JobInv
<1>2. /\ job[j].at \in 1..10 /\ "demo-local" \in Commands
      /\ TxOf(j).op = Script["demo-local"][job[j].at]
      /\ TxOf(j).amount = job[j].amount /\ TxOf(j).key = job[j].key
      /\ Op(j) = Script["demo-local"][job[j].at]
  BY <1>1, RunningFacts, DemoScript DEF Op, TxOf
<1>3. PICK n \in 1..10 : n = job[j].at
  BY <1>2
<1>4. SetUp(n - 1)
  BY <1>1, <1>3 DEF DemoInv, Finished
<1>5. PICK t \in {"landed", "failed"} : job' = [job EXCEPT ![j] = WithTx(job[j], t)]
  BY DEF Lands, WithTx
<1>6. job'[j].at = n /\ job'[j].tx \in {"landed", "failed"}
  BY <1>1, <1>3, <1>5, TxFields
<1>7. CASE Effect(TxOf(j))
  <2>0. Prepared(j)
    BY DEF DemoInv
  <2>1. ASSUME n = 4 PROVE TxOf(j).amount = Target - lamports[Owner]
    <3>1. job[j].at = 4 /\ job[j].reads = 1
      BY <1>1, <1>2, <1>3, <2>1, DemoReads
    <3>. QED  BY <1>1, <1>2, <2>0, <3>1 DEF Prepared
  <2>2. ASSUME n = 5 PROVE TxOf(j).key = ServedKeys[enclaveStart]
    <3>1. job[j].at = 5 /\ job[j].reads = 3
      BY <1>1, <1>2, <1>3, <2>2, DemoReads
    <3>. QED  BY <1>1, <1>2, <2>0, <3>1 DEF Prepared
  <2>3. SetUp(n)'
    BY <1>1, <1>2, <1>3, <1>4, <1>7, <2>1, <2>2, DemoLands
  <2>. QED  BY <1>6, <2>3 DEF DemoInv, Finished, Prepared
<1>8. CASE ~Passes(TxOf(j)) /\ UNCHANGED vars
  <2>1. SetUp(n)
    <3>1. Met(n)
      BY <1>1, <1>3, <1>8, DemoRefusal
    <3>. QED  BY <1>1, <1>4, <3>1, SetUpGrows
  <2>2. SetUp(n)'
    BY <1>1, <1>8, <2>1 DEF vars, SetUp, RegistryOpen, MayBeSetUp
  <2>. QED  BY <1>6, <2>2 DEF DemoInv, Finished, Prepared
<1>. QED  BY <1>7, <1>8 DEF Lands

\* A slot that leaves what the demo signs in time.
LEMMA DemoWaits ==
    ASSUME OpsInv, NEW j \in Jobs, job[j].command = "demo-local",
           job[j].command # NoCommand, DemoInv(j),
           SlotPasses, ~Expires(j)
    PROVE  DemoInv(j)'
<1>1. /\ UNCHANGED <<open, wallet, policy, lamports, governor, entries, revoked>>
      /\ UNCHANGED <<job, enclaveStart>> /\ slot' \in Nat
      /\ slot \in Nat
  BY SlotTyped, BlockSlots DEF SlotPasses, NextSlot
<1>2. SetUp(Finished(j))'
  <2>1. Finished(j)' = Finished(j)
    BY <1>1 DEF Finished
  <2>. QED  BY <1>1, <2>1 DEF DemoInv, SetUp, RegistryOpen, MayBeSetUp
<1>3. ASSUME job[j].tx \in {"none", "inflight"},
             job[j].at = 5, job[j].reads >= 3, slot <= job[j].expiry
      PROVE  slot' <= job[j].expiry
  <2>1. /\ job[j].command \in Commands /\ job[j].command # NoCommand
        /\ job[j].reads \in 0..4 /\ job[j].expiry \in Nat
    BY JobFields, OperationsAssumption DEF OpsInv, OperationsTypeOK
  <2>2. Running(j) /\ Op(j) = Script["demo-local"][5]
    <3>1. Len(Script["demo-local"]) = 10
      BY <2>1, DemoScript
    <3>. QED  BY <1>3, <2>1, <3>1 DEF Running, Op
  <2>3. 3 \in 1..job[j].reads /\ ReadsOf(Op(j))[3] = "slot"
    BY <1>3, <2>1, <2>2, DemoReads
  <2>4. ~(slot' > job[j].expiry)
    BY <1>3, <2>2, <2>3 DEF Expires
  <2>. QED  BY <1>1, <1>3, <2>1, <2>4
<1>4. Prepared(j)'
  BY <1>1, <1>3 DEF DemoInv, Prepared
<1>. QED  BY <1>2, <1>4 DEF DemoInv

LEMMA CleanNext == OpsInv /\ CleanInv /\ [OperationsNext]_allVars => CleanInv'
<1> SUFFICES ASSUME OpsInv, CleanInv, [OperationsNext]_allVars, NEW j \in clean'
             PROVE  job'[j].command # NoCommand
  BY DEF CleanInv
<1>1. job \in [Jobs -> JobType] /\ clean \subseteq Jobs
  BY DEF OpsInv, OperationsTypeOK
<1>2. CASE j \in clean
  <2>1. job[j].command # NoCommand /\ j \in Jobs
    BY <1>1, <1>2 DEF CleanInv
  <2>2. ASSUME Lands(j) PROVE job'[j].command = job[j].command
    <3>1. \E t \in {"landed", "failed"} : job' = [job EXCEPT ![j] = WithTx(job[j], t)]
      BY <2>2 DEF Lands, WithTx
    <3>. QED  BY <1>1, <2>1, <3>1, TxFields
  <2>. QED  BY <2>1, <2>2, StepsOfJob, NotLanded
<1>3. CASE j \notin clean
  <2>1. PICK c \in Commands : j \in Jobs /\ Begins(j, c)
    BY <1>1, <1>3 DEF OperationsNext, JobReads, ReadsKey, ReadsNonce, ReadsSlot, ReadsHash,
       ReadsBalance, ReadsAccount, ReadsAttestation, Reads, Sends, Refused, Confirmed,
       Replays, Throws, Crashes, Faults, Begins, Lands, StrayLands, EnclaveRestarts,
       SlotPasses, allVars
  <2>2. job' = [job EXCEPT ![j] = FreshAt(c, 1)]
    BY <2>1 DEF Begins, JobMoves, FreshAt
  <2>3. job'[j].command = c
    BY <1>1, <2>1, <2>2, FreshFields
  <2>. QED  BY <2>3, OperationsAssumption
<1>. QED  BY <1>2, <1>3

LEMMA DemosNext ==
    OpsInv /\ HomeInv /\ CleanInv /\ DemosInv /\ [OperationsNext]_allVars => DemosInv'
<1> SUFFICES ASSUME OpsInv, HomeInv, CleanInv, DemosInv, [OperationsNext]_allVars,
                    NEW j \in clean', job'[j].command = "demo-local"
             PROVE  DemoInv(j)'
  BY DEF DemosInv
<1>1. job \in [Jobs -> JobType] /\ clean \subseteq Jobs
  BY DEF OpsInv, OperationsTypeOK
<1>2. j \in clean /\ job[j].command = "demo-local" => DemoInv(j) /\ j \in Jobs
  BY <1>1 DEF DemosInv
<1>3. ASSUME Rests, j \in clean, job'[j] = job[j] PROVE DemoInv(j)'
  BY <1>2, <1>3, DemoRests
<1>4. UNCHANGED <<vars, enclaveStart>> => Rests
  BY DEF Rests, vars
<1>5. ASSUME NEW i \in Jobs, OffChain(i) PROVE DemoInv(j)'
  <2>1. Rests /\ job' = [job EXCEPT ![i] = job'[i]]
    BY <1>4, <1>5, OffChainKept DEF JobKept
  <2>2. CASE i # j
    <3>1. j \in clean
      BY <1>5, <2>2 DEF OffChain, JobReads, ReadsKey, ReadsNonce, ReadsSlot, ReadsHash,
         ReadsBalance, ReadsAccount, ReadsAttestation, Reads, Sends, Refused, Confirmed,
         Replays, Throws, Crashes, Faults, Begins
    <3>. QED  BY <1>1, <1>3, <2>1, <2>2, <3>1
  <2>3. CASE i = j /\ \E c \in Commands : Begins(j, c)
    BY <1>5, <2>3, DemoBegins
  <2>4. CASE i = j /\ (Throws(j) \/ Crashes(j))
    BY <2>4 DEF Throws, Crashes, Faults
  <2>5. CASE i = j /\ (JobReads(j) \/ Sends(j) \/ Refused(j) \/ Confirmed(j) \/ Replays(j))
    <3>1. j \in clean /\ j \in Jobs
      BY <1>1, <2>5 DEF JobReads, ReadsKey, ReadsNonce, ReadsSlot, ReadsHash,
         ReadsBalance, ReadsAccount, ReadsAttestation, Reads, Sends, Refused, Confirmed,
         Replays
    <3>2. job[j].command = "demo-local"
      <4>1. job[j].command # NoCommand
        BY <2>5 DEF JobReads, ReadsKey, ReadsNonce, ReadsSlot, ReadsHash, ReadsBalance,
           ReadsAccount, ReadsAttestation, Reads, Asks, Sends, ReadAll, Refused,
           Confirmed, Replays, Running
      <4>. QED  BY <1>5, <2>5, <4>1, NotLanded
    <3>3. ReadsAccount(j) => ~FundedWithoutWallet
      BY DEF ReadsAccount
    <3>. QED  BY <1>2, <2>5, <3>1, <3>2, <3>3, DemoRead, DemoSends, DemoException
  <2>. QED  BY <1>5, <2>2, <2>3, <2>4, <2>5 DEF OffChain
<1>6. ASSUME NEW i \in Jobs, Lands(i) PROVE DemoInv(j)'
  <2>1. j \in clean
    BY <1>6 DEF Lands
  <2>2. CASE i = j
    <3>1. \E t \in {"landed", "failed"} : job' = [job EXCEPT ![j] = WithTx(job[j], t)]
      BY <1>6, <2>2 DEF Lands, WithTx
    <3>2. job[j].command = "demo-local"
      BY <1>1, <2>2, <3>1, TxFields
    <3>. QED  BY <1>2, <1>6, <2>1, <2>2, <3>2, DemoTx
  <2>3. CASE i # j
    <3>1. UNCHANGED <<vars, enclaveStart>> /\ job'[j] = job[j]
      BY <1>1, <1>6, <2>1, <2>3 DEF Lands
    <3>. QED  BY <1>3, <1>4, <2>1, <3>1
  <2>. QED  BY <2>2, <2>3
<1>7. ASSUME NEW tx \in strays, StrayLands(tx) PROVE DemoInv(j)'
  <2>1. UNCHANGED <<vars, enclaveStart, clean, job>>
    BY <1>7 DEF StrayLands
  <2>. QED  BY <1>3, <1>4, <2>1
<1>8. CASE EnclaveRestarts
  BY <1>8 DEF EnclaveRestarts
<1>9. CASE SlotPasses
  <2>1. j \in clean /\ ~Expires(j) /\ job' = job
    BY <1>9 DEF SlotPasses
  <2>2. job[j].command # NoCommand
    BY <2>1 DEF CleanInv
  <2>. QED  BY <1>2, <1>9, <2>1, <2>2, DemoWaits
<1>10. CASE UNCHANGED allVars
  <2>1. UNCHANGED <<vars, enclaveStart, clean, job>>
    BY <1>10 DEF allVars
  <2>. QED  BY <1>3, <1>4, <2>1
<1>. QED  BY <1>5, <1>6, <1>7, <1>8, <1>9, <1>10 DEF OperationsNext, OffChain
LEMMA DemosAlways == OperationsSpec => [](OpsInv /\ HomeInv /\ CleanInv /\ DemosInv)
<1>1. OperationsInit => HomeInv
  <2> SUFFICES ASSUME OperationsInit PROVE HomeInv
    OBVIOUS
  <2>1. Init
    BY DEF OperationsInit
  <2>2. GrantsKept
    BY <2>1, EmptyPolicyCorrect DEF Init, GrantsKept
  <2>3. RevocationsKept /\ ImageOnly /\ OneGrant
    BY <2>1, OperationsAssumption DEF Init, RevocationsKept, Distinct, ImageOnly, OneGrant
  <2>. QED  BY <2>2, <2>3 DEF HomeInv
<1>2. OperationsInit => CleanInv /\ DemosInv
  BY DEF OperationsInit, CleanInv, DemosInv
<1>. QED  BY <1>1, <1>2, HomeNext, CleanNext, DemosNext, OpsInvAlways, PTL DEF OperationsSpec

\* A demo-local that is left undisturbed sets everything up, whatever earlier runs
\* and other commands left behind, unless it found lamports and no wallet at the
\* wallet's address (ops.ts:993-1028, docker-compose.yml:68-76).
THEOREM UndisturbedDemoSetsUp == OperationsSpec => []DemoSetsUp
<1>1. ASSUME OpsInv, CleanInv, DemosInv PROVE DemoSetsUp
  <2> SUFFICES ASSUME NEW j \in clean, job[j].command = "demo-local", ~Running(j), MayBeSetUp
               PROVE  /\ Owner \in open
                      /\ wallet[Owner].signer = ServedKeys[enclaveStart]
                      /\ IsActive(entries, Image)
                      /\ Contains(policy[Owner], SystemProgram)
                      /\ lamports[Owner] >= Target - 2 * Amount
    BY DEF DemoSetsUp
  <2>1. job[j] \in JobType /\ JobInv(j)
    BY <1>1 DEF OpsInv, OperationsTypeOK
  <2>2. job[j].command # NoCommand /\ "demo-local" \in Commands
    BY <1>1, <2>1, JobFields DEF CleanInv
  <2>3. job[j].at > 10 /\ job[j].at \in 0..11
    <3>1. Len(Script["demo-local"]) = 10
      BY <2>2, DemoScript
    <3>2. job[j].at \in 0..11
      BY <2>1, JobFields
    <3>3. job[j].at \in 1..(Len(Script[job[j].command]) + 1)
      BY <2>1, <2>2 DEF JobInv
    <3>. QED  BY <2>2, <3>1, <3>2, <3>3 DEF Running
  <2>4. PICK d \in 10..11 : d = Finished(j)
    BY <2>3 DEF Finished
  <2>5. SetUp(d)
    BY <1>1, <2>4 DEF DemosInv, DemoInv
  <2>6. Spent(d) = 2 * Amount
    BY OperationsAssumption, LamportsAssumption DEF Spent
  <2>. QED  BY <2>5, <2>6 DEF SetUp, MayBeSetUp
<1>. QED  BY <1>1, DemosAlways, PTL
=============================================================================
