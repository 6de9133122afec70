--------------------------- MODULE PipelineProofs ---------------------------
(***************************************************************************)
(* The pipeline implements the program: whatever relayer, enclave and      *)
(* network do, the chain sees a behaviour of SoloraProgram, so all that is *)
(* proved of the program holds here.  And what is said of the messages     *)
(* themselves: how old they can be, and which limits they were judged by.  *)
(***************************************************************************)
EXTENDS IntentPipeline, FundsProofs

USE DEF clockVars, accountVars, registryVars, historyVars, jobVars, networkVars

\* A job that has not signed yet, and one that has.
Unsigned == {"idle", "read", "price", "sign"}
Signed == {"build", "send", "confirm", "ok"}

\* The newest block before slot t, if there is one.
NewestBefore(t) == {s \in Blocks : s < t /\ \A u \in Blocks : u < t => u <= s}

\* The message a job holds was signed in an earlier slot or this one, over the
\* blockhash before, and expires within what was asked for.
JobInv(j) ==
    /\ job[j].expiry <= slot + Request[j].expirySlots
    /\ job[j].step \in Unsigned => job[j].msg = NoMessage
    /\ job[j].step \in Signed => job[j].msg # NoMessage
    /\ job[j].msg # NoMessage =>
          /\ job[j].signedAt <= slot
          /\ job[j].expiry <= job[j].signedAt + Request[j].expirySlots
          /\ \E s \in NewestBefore(job[j].signedAt) :
                job[j].msg = IntentMessage(Request[j], job[j].nonce, job[j].expiry, s)

PipelineInv ==
    /\ TypeOK /\ slot <= MaxSlot
    /\ PipelineTypeOK
    /\ \A a \in open : wallet[a].limits \in limitsSince[a]
    /\ \A j \in Jobs : JobInv(j)

-----------------------------------------------------------------------------
(* The chain.                                                              *)

LEMMA TransactionFields ==
    ASSUME NEW tx \in TxType
    PROVE  /\ tx.msg \in Intents
           /\ tx.msg.wallet \in Authorities
           /\ tx.msg.payload.kind = "transfer" =>
                 tx.msg.payload.dest \in Destinations /\ tx.msg.payload.amount \in Amounts
           /\ tx.msg.payload.kind = "cpi" =>
                 tx.msg.payload.target \in Programs /\ tx.msg.payload.call \in Calls
<1>1. tx.msg \in Intents /\ tx.msg \in IntentType
  BY MessagesAssumption DEF TxType
<1>2. tx.msg.wallet \in Authorities /\ tx.msg.payload \in TransferPayloads \cup CpiPayloads
  BY <1>1 DEF IntentType
<1>. QED  BY <1>1, <1>2 DEF TransferPayloads, CpiPayloads, TransferPayload, CpiPayload

LEMMA ExecutesIsStep ==
    ASSUME NEW tx \in TxType, Executes(tx)
    PROVE  Next
BY TransactionFields DEF Executes, Next, MessageStep

LEMMA OtherIsStep == OtherStep => Next
BY DEF OtherStep, Next, MessageStep

LEMMA ProgramStep ==
    ASSUME network \subseteq TxType, [PipelineNext]_pipelineVars
    PROVE  [Next]_vars
BY ExecutesIsStep, OtherIsStep DEF PipelineNext, pipelineVars

-----------------------------------------------------------------------------
(* Jobs.                                                                   *)

LEMMA JobFields ==
    ASSUME NEW q \in JobType
    PROVE  /\ q.step \in Steps /\ q.expiry \in Nat /\ q.nonce \in 0..MaxNonce
           /\ q.limits \in Limits \cup {NoLimits} /\ q.msg \in Intents \cup {NoMessage}
           /\ q.epoch \in Nat /\ q.signedAt \in Nat
BY DEF JobType

\* What each step sets in a job's record, and what it leaves.
Asked(q, e) == [q EXCEPT !.step = "read", !.expiry = e]
Judged(q, s, n, l, e) ==
    [q EXCEPT !.step = s, !.nonce = n, !.limits = l, !.epoch = e]
Sealed(q, m, t) == [q EXCEPT !.step = "build", !.msg = m, !.signedAt = t]
Built(q, b) == [q EXCEPT !.step = "send", !.blockhash = b]
At(q, s) == [q EXCEPT !.step = s]

LEMMA AskedFields ==
    ASSUME NEW q \in JobType, NEW e \in Nat
    PROVE  /\ Asked(q, e) \in JobType
           /\ Asked(q, e).step = "read" /\ Asked(q, e).expiry = e
           /\ Asked(q, e).msg = q.msg /\ Asked(q, e).limits = q.limits
           /\ Asked(q, e).nonce = q.nonce /\ Asked(q, e).epoch = q.epoch
BY DEF Asked, JobType, Steps

LEMMA JudgedFields ==
    ASSUME NEW q \in JobType, NEW s \in Steps, NEW n \in 0..MaxNonce,
           NEW l \in Limits \cup {NoLimits}, NEW e \in Nat
    PROVE  LET r == Judged(q, s, n, l, e)
           IN  /\ r \in JobType
               /\ r.step = s /\ r.nonce = n /\ r.limits = l /\ r.epoch = e
               /\ r.msg = q.msg /\ r.expiry = q.expiry
<1> DEFINE N == 0..MaxNonce
<1>1. n \in N
  OBVIOUS
<1>2. JobType =
         [step : Steps, expiry : Nat, nonce : N, limits : Limits \cup {NoLimits},
          msg : Intents \cup {NoMessage}, blockhash : Nat, epoch : Nat, signedAt : Nat]
  BY DEF JobType
<1> HIDE DEF N
<1>. QED  BY <1>1, <1>2 DEF Judged

LEMMA SealedFields ==
    ASSUME NEW q \in JobType, NEW m \in Intents, NEW t \in Nat
    PROVE  LET r == Sealed(q, m, t)
           IN  /\ r \in JobType
               /\ r.step = "build" /\ r.msg = m /\ r.signedAt = t
               /\ r.nonce = q.nonce /\ r.expiry = q.expiry
               /\ r.limits = q.limits /\ r.epoch = q.epoch
BY DEF Sealed, JobType, Steps

LEMMA BuiltFields ==
    ASSUME NEW q \in JobType, NEW b \in Nat
    PROVE  LET r == Built(q, b)
           IN  /\ r \in JobType
               /\ r.step = "send" /\ r.msg = q.msg /\ r.signedAt = q.signedAt
               /\ r.nonce = q.nonce /\ r.expiry = q.expiry
               /\ r.limits = q.limits /\ r.epoch = q.epoch
BY DEF Built, JobType, Steps

LEMMA AtFields ==
    ASSUME NEW q \in JobType, NEW s \in Steps
    PROVE  LET r == At(q, s)
           IN  /\ r \in JobType
               /\ r.step = s /\ r.msg = q.msg /\ r.signedAt = q.signedAt
               /\ r.nonce = q.nonce /\ r.expiry = q.expiry
               /\ r.limits = q.limits /\ r.epoch = q.epoch
BY DEF At, JobType, Steps

LEMMA NewJobType == NewJob \in JobType
<1>1. 0 \in 0..MaxNonce
  BY BoundsAssumption
<1> DEFINE N == 0..MaxNonce
<1> HIDE DEF N
<1>2. 0 \in N
  BY <1>1 DEF N
<1>. QED  BY <1>2 DEF NewJob, JobType, Steps, N

\* What the lemmas below say of every step of a job.
JobKept(j) ==
    /\ job' = [job EXCEPT ![j] = job'[j]]
    /\ job'[j] \in JobType
    /\ JobInv(j)'

LEMMA AsksKept ==
    ASSUME PipelineInv, UNCHANGED vars, NEW j \in Jobs, Begins(j)
    PROVE  JobKept(j)
<1>1. job[j] \in JobType /\ Request[j].expirySlots \in Nat /\ slot \in Nat
  BY RequestAssumption DEF PipelineInv, PipelineTypeOK, TypeOK, RequestType
<1> DEFINE e == slot + Request[j].expirySlots
<1>2. e \in Nat
  BY <1>1
<1>3. /\ job' = [job EXCEPT ![j] = Asked(job[j], e)]
      /\ job'[j] = Asked(job[j], e)
  BY DEF Begins, PipelineInv, PipelineTypeOK, Asked
<1> HIDE DEF e
<1>4. /\ job'[j] \in JobType /\ job'[j].step = "read" /\ job'[j].expiry = e
      /\ job'[j].msg = job[j].msg
  <2>1. job[j] \in JobType
    BY <1>1
  <2>. QED  BY <1>2, <1>3, <2>1, AskedFields
<1>5. job[j].msg = NoMessage
  BY DEF PipelineInv, JobInv, Begins, Unsigned
<1>6. JobInv(j)'
  BY <1>1, <1>2, <1>4, <1>5 DEF JobInv, Signed, vars, e
<1>. QED  BY <1>3, <1>4, <1>6 DEF JobKept

LEMMA ReadKept ==
    ASSUME PipelineInv, UNCHANGED vars, NEW j \in Jobs, ReadsWallet(j)
    PROVE  JobKept(j)
<1> DEFINE a == Request[j].wallet
           s == IF Request[j].payload.kind = "cpi" THEN "price" ELSE "sign"
           q == Judged(job[j], s, wallet[a].nonce, wallet[a].limits, epoch[a])
<1>1. job[j] \in JobType /\ a \in Authorities /\ s \in Steps /\ s \in Unsigned
  BY RequestAssumption
     DEF PipelineInv, PipelineTypeOK, RequestType, Unsigned, Steps
<1>2. wallet[a].nonce \in 0..MaxNonce /\ wallet[a].limits \in Limits \cup {NoLimits}
      /\ epoch[a] \in Nat
  BY <1>1 DEF PipelineInv, TypeOK, WalletType
<1>3. job' = [job EXCEPT ![j] = q] /\ job'[j] = q
  BY DEF ReadsWallet, PipelineInv, PipelineTypeOK, Judged
<1>4. /\ q \in JobType /\ q.step = s /\ q.expiry = job[j].expiry
      /\ q.msg = job[j].msg
  BY <1>1, <1>2, JudgedFields
<1> HIDE DEF q, s
<1>5. job[j].msg = NoMessage /\ job[j].expiry <= slot + Request[j].expirySlots
  BY DEF PipelineInv, JobInv, ReadsWallet, Unsigned
<1>6. JobInv(j)'
  BY <1>1, <1>3, <1>4, <1>5 DEF JobInv, Signed, Unsigned, vars
<1>. QED  BY <1>3, <1>4, <1>6 DEF JobKept

LEMMA SignKept ==
    ASSUME PipelineInv, UNCHANGED vars, NEW j \in Jobs, NEW s \in NewestEntry,
           LET m == BuildIntentMessage(Request[j], job[j].nonce, job[j].expiry, s)
           IN  job' = [job EXCEPT ![j] = Sealed(job[j], m, slot)]
    PROVE  JobKept(j)
<1> DEFINE m == BuildIntentMessage(Request[j], job[j].nonce, job[j].expiry, s)
           q == Sealed(job[j], m, slot)
<1>1. job[j] \in JobType /\ Request[j].expirySlots \in Nat
  BY RequestAssumption DEF PipelineInv, PipelineTypeOK, RequestType
<1>2. /\ slot \in Nat /\ slot <= MaxSlot /\ MaxSlot \in Nat
      /\ s \in NewestBefore(slot) /\ s \in 0..MaxSlot
  BY BoundsAssumption, BlocksAssumption
     DEF PipelineInv, TypeOK, NewestEntry, NewestBefore
<1>3. job[j].expiry <= slot + Request[j].expirySlots
  BY DEF PipelineInv, JobInv
<1>4. m \in Intents
  <2>1. job[j].nonce \in 0..MaxNonce /\ job[j].expiry \in Nat
    BY <1>1, JobFields
  <2>2. job[j].expiry \in 0..(MaxSlot + Request[j].expirySlots)
    BY <1>1, <1>2, <1>3, <2>1
  <2>. QED  BY <1>2, <2>1, <2>2, SignableAssumption DEF BuildIntentMessage
<1>5. job' = [job EXCEPT ![j] = q] /\ job'[j] = q
  BY DEF PipelineInv, PipelineTypeOK
<1> HIDE DEF m
<1>6. /\ q \in JobType
      /\ q.step = "build" /\ q.msg = m /\ q.signedAt = slot
      /\ q.nonce = job[j].nonce /\ q.expiry = job[j].expiry
  BY <1>1, <1>2, <1>4, SealedFields
<1> HIDE DEF q
<1>7. m # NoMessage
  BY <1>4, RequestAssumption
<1>8. m = IntentMessage(Request[j], q.nonce, q.expiry, s)
  BY <1>6 DEF m, BuildIntentMessage
<1>9. JobInv(j)'
  BY <1>2, <1>3, <1>5, <1>6, <1>7, <1>8
     DEF JobInv, Unsigned, Signed, IntentMessage, NewestBefore, vars
<1>. QED  BY <1>5, <1>6, <1>9 DEF JobKept

LEMMA SignsKept ==
    ASSUME PipelineInv, UNCHANGED vars, NEW j \in Jobs, Signs(j)
    PROVE  JobKept(j)
<1>1. PICK s \in NewestEntry :
         job' = [job EXCEPT
                    ![j].step = "build",
                    ![j].msg = BuildIntentMessage(Request[j], job[j].nonce,
                                                  job[j].expiry, s),
                    ![j].signedAt = slot]
  BY DEF Signs
<1>. QED  BY <1>1, SignKept DEF Sealed

\* A step that leaves what the job has signed.
LEMMA MovedOnKept ==
    ASSUME PipelineInv, UNCHANGED vars, NEW j \in Jobs, NEW q \in JobType,
           job' = [job EXCEPT ![j] = q],
           q.msg = job[j].msg, q.signedAt = job[j].signedAt,
           q.nonce = job[j].nonce, q.expiry = job[j].expiry,
           q.step \in Unsigned => job[j].msg = NoMessage,
           q.step \in Signed => job[j].msg # NoMessage
    PROVE  JobKept(j)
<1>1. job'[j] = q
  BY DEF PipelineInv, PipelineTypeOK
<1>2. JobInv(j)
  BY DEF PipelineInv
<1>3. JobInv(j)'
  BY <1>1, <1>2 DEF JobInv, IntentMessage, NewestBefore, vars
<1>. QED  BY <1>1, <1>3 DEF JobKept

LEMMA OthersKept ==
    ASSUME PipelineInv, UNCHANGED vars, NEW j \in Jobs,
           \/ VerifiesPrice(j) \/ Builds(j) \/ Sends(j) \/ Confirms(j) \/ Fails(j)
    PROVE  JobKept(j)
<1>1. job \in [Jobs -> JobType] /\ job[j] \in JobType /\ slot \in Nat
  BY DEF PipelineInv, PipelineTypeOK, TypeOK
<1>2. /\ job[j].step \in Unsigned => job[j].msg = NoMessage
      /\ job[j].step \in Signed => job[j].msg # NoMessage
  BY DEF PipelineInv, JobInv
<1>3. ASSUME NEW s \in {"sign", "confirm", "failed", "ok"},
             job' = [job EXCEPT ![j] = At(job[j], s)],
             s = "sign" => job[j].step \in Unsigned,
             s \in {"confirm", "ok"} => job[j].step \in Signed
      PROVE  JobKept(j)
  <2>1. s \in Steps
    BY DEF Steps
  <2> DEFINE q == At(job[j], s)
  <2>2. /\ q \in JobType /\ q.step = s /\ q.msg = job[j].msg
        /\ q.signedAt = job[j].signedAt
        /\ q.nonce = job[j].nonce /\ q.expiry = job[j].expiry
    BY <1>1, <2>1, AtFields
  <2> HIDE DEF q
  <2>3. /\ q.step \in Unsigned => job[j].msg = NoMessage
        /\ q.step \in Signed => job[j].msg # NoMessage
    BY <1>2, <1>3, <2>2 DEF Unsigned, Signed
  <2>. QED  BY <1>3, <2>2, <2>3, MovedOnKept DEF q
<1>4. CASE VerifiesPrice(j)
  BY <1>3, <1>4 DEF VerifiesPrice, At, Unsigned
<1>5. CASE Builds(j)
  <2> DEFINE q == Built(job[j], slot)
  <2>1. job' = [job EXCEPT ![j] = q]
    BY <1>5 DEF Builds, Built
  <2>2. /\ q \in JobType /\ q.step = "send" /\ q.msg = job[j].msg
        /\ q.signedAt = job[j].signedAt
        /\ q.nonce = job[j].nonce /\ q.expiry = job[j].expiry
    BY <1>1, BuiltFields
  <2> HIDE DEF q
  <2>3. job[j].msg # NoMessage
    BY <1>2, <1>5 DEF Builds, Signed
  <2>. QED  BY <2>1, <2>2, <2>3, MovedOnKept DEF Unsigned, Signed
<1>6. CASE Sends(j)
  BY <1>3, <1>6 DEF Sends, At, Signed
<1>7. CASE Confirms(j)
  BY <1>3, <1>7 DEF Confirms, At, Signed
<1>8. CASE Fails(j)
  <2>1. CASE job[j].step = "confirm"
    BY <1>3, <1>8, <2>1 DEF Fails, At
  <2>2. CASE job[j].step # "confirm"
    <3> DEFINE q == At(NewJob, "failed")
    <3>1. job' = [job EXCEPT ![j] = q] /\ job'[j] = q
      BY <1>1, <1>8, <2>2 DEF Fails, At
    <3>2. q \in JobType /\ q.step = "failed" /\ q.msg = NoMessage /\ q.expiry = 0
      BY NewJobType, AtFields DEF Steps, NewJob
    <3> HIDE DEF q
    <3>3. Request[j].expirySlots \in Nat
      BY RequestAssumption DEF RequestType
    <3>4. JobInv(j)'
      BY <1>1, <3>1, <3>2, <3>3 DEF JobInv, Unsigned, Signed, vars
    <3>. QED  BY <3>1, <3>2, <3>4 DEF JobKept
  <2>. QED  BY <2>1, <2>2
<1>. QED  BY <1>4, <1>5, <1>6, <1>7, <1>8

LEMMA JobStepKept ==
    ASSUME PipelineInv, UNCHANGED vars, NEW j \in Jobs, Begins(j) \/ JobStep(j)
    PROVE  JobKept(j)
BY AsksKept, ReadKept, SignsKept, OthersKept DEF JobStep

-----------------------------------------------------------------------------
(* The invariant.                                                          *)

LEMMA PipelineStart == PipelineInit => PipelineInv
<1> SUFFICES ASSUME PipelineInit PROVE PipelineInv
  OBVIOUS
<1>1. TypeOK /\ slot \in Nat /\ slot <= MaxSlot
  BY TypeInit, BlockSlots DEF PipelineInit, Init
<1>2. PipelineTypeOK
  BY NewJobType DEF PipelineInit, PipelineTypeOK
<1>3. ASSUME NEW j \in Jobs PROVE JobInv(j)
  <2>1. job[j] = NewJob /\ Request[j].expirySlots \in Nat
    BY RequestAssumption DEF PipelineInit, RequestType
  <2>. QED  BY <1>1, <2>1 DEF JobInv, NewJob, Unsigned, Signed
<1>. QED  BY <1>1, <1>2, <1>3 DEF PipelineInv, PipelineInit, Init

\* A step of the chain lets time pass at most.
LEMMA TimePasses ==
    ASSUME PipelineInv, [Next]_vars, UNCHANGED job, NEW j \in Jobs
    PROVE  JobInv(j)'
<1>1. slot \in Nat /\ slot' \in Nat /\ slot <= slot'
  BY SlotGrows DEF PipelineInv, TypeOK
<1>2. job[j] \in JobType /\ Request[j].expirySlots \in Nat
  BY RequestAssumption DEF PipelineInv, PipelineTypeOK, RequestType
<1>3. job[j].expiry \in Nat /\ job[j].signedAt \in Nat
  BY <1>2, JobFields
<1>. QED  BY <1>1, <1>2, <1>3 DEF PipelineInv, JobInv, IntentMessage, NewestBefore

LEMMA NetworkKept ==
    ASSUME PipelineInv, NEW j \in Jobs, JobStep(j) \/ Begins(j)
    PROVE  /\ network' \subseteq TxType
           /\ executed' \subseteq network' /\ rejected' \subseteq network'
<1>1. CASE Sends(j)
  <2>1. job[j].msg \in Intents /\ job[j].blockhash \in Nat
    <3>1. job[j].msg # NoMessage
      BY <1>1 DEF PipelineInv, JobInv, Sends, Signed
    <3>. QED  BY <3>1 DEF PipelineInv, PipelineTypeOK, JobType
  <2>2. TxOf(j) \in TxType
    BY <2>1 DEF TxOf, TxType
  <2>. QED  BY <1>1, <2>2 DEF Sends, PipelineInv, PipelineTypeOK
<1>2. CASE UNCHANGED networkVars
  BY <1>2 DEF PipelineInv, PipelineTypeOK
<1>. QED  BY <1>1, <1>2
          DEF JobStep, Begins, ReadsWallet, VerifiesPrice, Signs, Builds, Confirms, Fails

\* Limits of a wallet that exists are such as an owner may set.
LEMMA LimitsStep ==
    ASSUME TypeOK, [Next]_vars, NEW b \in Authorities, b \in open',
           b \in open => wallet[b].limits \in Limits
    PROVE  wallet'[b].limits \in Limits
<1>0. wallet \in [Authorities -> WalletType]
  BY DEF TypeOK
<1>1. ASSUME NEW a \in Authorities, OwnerStep(a) PROVE wallet'[b].limits \in Limits
  <2>1. ASSUME NEW key \in Keys, NEW limits \in Limits, InitializeWallet(a, key, limits)
        PROVE  wallet'[b].limits \in Limits
    BY <1>0, <2>1 DEF InitializeWallet, ZeroWallet
  <2>2. ASSUME NEW limits \in Limits, UpdatePolicy(a, limits)
        PROVE  wallet'[b].limits \in Limits
    BY <1>0, <2>2 DEF UpdatePolicy, WalletType
  <2>3. CASE ExecuteEscape(a)
    BY <1>0, <2>3 DEF ExecuteEscape
  <2>4. ASSUME NEW key \in Keys, RegisterEnclave(a, key)
        PROVE  wallet'[b].limits \in Limits
    BY <1>0, <2>4 DEF RegisterEnclave, WalletType
  <2>5. CASE TogglePause(a) \/ InitiateTimelock(a)
    BY <1>0, <2>5 DEF TogglePause, InitiateTimelock, WalletType
  <2>6. CASE UNCHANGED <<open, wallet>>
    BY <2>6
  <2>. QED  BY <1>1, <2>1, <2>2, <2>3, <2>4, <2>5, <2>6
            DEF OwnerStep, AddAllowedProgram, RemoveAllowedProgram
<1>2. ASSUME NEW a \in Authorities, MessageStep(a) PROVE wallet'[b].limits \in Limits
  <2>1. CASE open' = open /\ wallet' = [wallet EXCEPT ![a].nonce = @ + 1]
    BY <1>0, <2>1 DEF WalletType
  <2>2. ASSUME NEW m \in Proofs, open' = open,
               wallet' = [wallet EXCEPT ![a].signer = m.key, ![a].nonce = @ + 1]
        PROVE  wallet'[b].limits \in Limits
    BY <1>0, <2>2 DEF WalletType
  <2>. QED  BY <1>2, <2>1, <2>2
            DEF MessageStep, ExecuteTransfer, ExecuteArbitraryCpi, RegisterEnclaveV2
<1>3. ASSUME NEW g \in Governors, RegistryStep(g) PROVE UNCHANGED <<open, wallet>>
  BY <1>3 DEF RegistryStep, InitMeasurementRegistry, AddMeasurement,
              RevokeMeasurement, TransferGovernor
<1>4. ASSUME ChainStep PROVE UNCHANGED <<open, wallet>>
  BY <1>4 DEF ChainStep, NextSlot, AdvanceClock, Deposit
<1>5. ASSUME UNCHANGED vars PROVE UNCHANGED <<open, wallet>>
  BY <1>5 DEF vars
<1>. QED  BY <1>1, <1>2, <1>3, <1>4, <1>5 DEF Next

LEMMA LimitsRemembered ==
    ASSUME PipelineInv, [Next]_vars, RemembersLimits
    PROVE  /\ limitsSince' \in [Authorities -> SUBSET Limits]
           /\ \A a \in open' : wallet'[a].limits \in limitsSince'[a]
<1>1. TypeOK /\ TypeOK' /\ limitsSince \in [Authorities -> SUBSET Limits]
  BY TypeNext DEF PipelineInv, PipelineTypeOK
<1>2. \A a \in open : wallet[a].limits \in Limits
  BY <1>1 DEF PipelineInv, TypeOK
<1>3. \A a \in open' : a \in Authorities /\ wallet'[a].limits \in Limits
  BY <1>1, <1>2, LimitsStep DEF TypeOK
<1>. QED  BY <1>1, <1>3 DEF RemembersLimits

\* The four kinds of step.
LEMMA PipelineKinds ==
    ASSUME [PipelineNext]_pipelineVars
    PROVE  \/ UNCHANGED pipelineVars
           \/ \E j \in Jobs : (Begins(j) \/ JobStep(j)) /\ UNCHANGED <<vars, limitsSince>>
           \/ \E tx \in network :
                 /\ Resubmits(tx) \/ Rejects(tx)
                 /\ UNCHANGED <<vars, jobVars>>
           \/ /\ RemembersLimits /\ UNCHANGED job
              /\ (\E tx \in network : Executes(tx)) \/ (OtherStep /\ UNCHANGED networkVars)
BY DEF PipelineNext

LEMMA PipelineInvNext ==
    ASSUME PipelineInv, [PipelineNext]_pipelineVars
    PROVE  PipelineInv'
<1>1. [Next]_vars /\ TypeOK /\ TypeOK' /\ slot' <= MaxSlot
  BY ProgramStep, TypeNext, SlotGrows DEF PipelineInv, PipelineTypeOK
<1>2. CASE UNCHANGED pipelineVars
  <2>1. UNCHANGED vars /\ UNCHANGED job
    BY <1>2 DEF pipelineVars
  <2>2. PipelineTypeOK'
    BY <1>2 DEF pipelineVars, PipelineInv, PipelineTypeOK
  <2>3. \A j \in Jobs : JobInv(j)'
    BY <1>1, <2>1, TimePasses
  <2>. QED  BY <1>1, <1>2, <2>2, <2>3 DEF PipelineInv, pipelineVars, vars
<1>3. ASSUME NEW j \in Jobs, Begins(j) \/ JobStep(j), UNCHANGED <<vars, limitsSince>>
      PROVE  PipelineInv'
  <2>1. JobKept(j) /\ job \in [Jobs -> JobType]
    BY <1>3, JobStepKept DEF PipelineInv, PipelineTypeOK
  <2>2. job' \in [Jobs -> JobType] /\ \A i \in Jobs : i # j => job'[i] = job[i]
    BY <2>1 DEF JobKept
  <2>3. PipelineTypeOK'
    BY <1>3, <2>2, NetworkKept DEF PipelineInv, PipelineTypeOK
  <2>4. ASSUME NEW i \in Jobs PROVE JobInv(i)'
    <3>1. CASE i = j
      BY <2>1, <3>1 DEF JobKept
    <3>2. CASE i # j
      BY <1>3, <2>2, <3>2 DEF PipelineInv, JobInv, IntentMessage, NewestBefore, vars
    <3>. QED  BY <3>1, <3>2
  <2>. QED  BY <1>1, <1>3, <2>3, <2>4 DEF PipelineInv, vars
<1>4. ASSUME NEW tx \in network, Resubmits(tx) \/ Rejects(tx), UNCHANGED <<vars, jobVars>>
      PROVE  PipelineInv'
  <2>0. tx \in TxType /\ slot \in Nat
    BY <1>4 DEF PipelineInv, PipelineTypeOK, TypeOK
  <2>1. [tx EXCEPT !.blockhash = slot] \in TxType
    BY <2>0 DEF TxType
  <2>2. PipelineTypeOK'
    BY <1>4, <2>1 DEF PipelineInv, PipelineTypeOK, Resubmits, Rejects
  <2>3. \A j \in Jobs : JobInv(j)'
    BY <1>1, <1>4, TimePasses
  <2>. QED  BY <1>1, <1>4, <2>2, <2>3 DEF PipelineInv, vars
<1>5. ASSUME RemembersLimits, UNCHANGED job,
             (\E tx \in network : Executes(tx)) \/ (OtherStep /\ UNCHANGED networkVars)
      PROVE  PipelineInv'
  <2>1. PipelineTypeOK'
    BY <1>1, <1>5, LimitsRemembered DEF PipelineInv, PipelineTypeOK, Executes
  <2>2. \A j \in Jobs : JobInv(j)'
    BY <1>1, <1>5, TimePasses
  <2>. QED  BY <1>1, <1>5, <2>1, <2>2, LimitsRemembered DEF PipelineInv
<1>. QED  BY <1>2, <1>3, <1>4, <1>5, PipelineKinds

LEMMA PipelineInvAlways == PipelineSpec => []PipelineInv
BY PipelineStart, PipelineInvNext, PTL DEF PipelineSpec

\* Whatever the enclave signs is one of the messages the program knows, and
\* every transaction in the network carries one: its kind is the payload's, its
\* nonce one the wallet can have (policy.rs:70-79, 153-162).
THEOREM PipelineTypeCorrect == PipelineSpec => []PipelineTypeOK
BY PipelineInvAlways, PTL DEF PipelineInv

\* Seen from the chain, the pipeline is the program with fewer messages: what
\* jobs and network do is a stutter, and what lands is a step of Next.
THEOREM PipelineImplementsProgram == PipelineSpec => Spec
<1>1. PipelineInit => Init
  BY DEF PipelineInit
<1>2. PipelineInv /\ [PipelineNext]_pipelineVars => [Next]_vars
  BY ProgramStep DEF PipelineInv, PipelineTypeOK
<1>. QED  BY <1>1, <1>2, PipelineInvAlways, PTL DEF PipelineSpec, Spec

-----------------------------------------------------------------------------
(* How old a message can be.                                               *)

\* The message of a spend was bound to the wallet as it then was, and fresh.
LEMMA SpendStep ==
    ASSUME [Next]_vars, NEW r \in Spends
    PROVE  \E a \in open \cap Authorities, m \in Intents :
              r = SpendOf(a, m) /\ BoundTo(a, m) /\ Fresh(m)
<1>1. r \in consumed' \ consumed /\ r.use = "spend"
  BY DEF Spends
<1>2. ASSUME NEW a \in Authorities, NEW m \in Intents, NEW dest \in Destinations,
             NEW amount \in Amounts, ExecuteTransfer(a, m, dest, amount)
      PROVE  a \in open /\ BoundTo(a, m) /\ Fresh(m)
  BY <1>2 DEF ExecuteTransfer, TransferPasses, VerifyEnclaveIntent
<1>3. ASSUME NEW a \in Authorities, NEW m \in Intents, NEW target \in Programs,
             NEW call \in Calls, ExecuteArbitraryCpi(a, m, target, call)
      PROVE  a \in open /\ BoundTo(a, m) /\ Fresh(m)
  BY <1>3 DEF ExecuteArbitraryCpi, CpiPasses, VerifyEnclaveIntent
<1>4. ASSUME NEW a \in Authorities, NEW m \in Proofs, NEW payer \in Accounts,
             r = RotationOf(a, m, payer)
      PROVE  FALSE
  BY <1>1, <1>4 DEF RotationOf
<1>. QED  BY <1>1, <1>2, <1>3, <1>4, NewlyConsumed

\* The newest block before t is one block further back than t.
LEMMA OneBlockBefore ==
    ASSUME slot \in Nat, NEW t \in Nat, t <= slot, NEW s \in NewestBefore(t)
    PROVE  BlocksSince(s) = BlocksSince(t) + 1
<1> DEFINE S(u) == {b \in Blocks : u <= b /\ b < slot}
<1>1. S(s) = S(t) \cup {s} /\ s \notin S(t)
  BY BlockSlots DEF NewestBefore
<1>2. IsFiniteSet(S(t))
  <2>1. IsFiniteSet(0..slot)
    BY FS_Interval
  <2>2. S(t) \in SUBSET (0..slot)
    BY BlockSlots
  <2>. QED  BY <2>1, <2>2, FS_Subset
<1> HIDE DEF S
<1>3. Cardinality(S(t) \cup {s}) = Cardinality(S(t)) + 1
  BY <1>1, <1>2, FS_AddElement
<1>4. BlocksSince(s) = Cardinality(S(s)) /\ BlocksSince(t) = Cardinality(S(t))
  BY DEF BlocksSince, S
<1>. QED  BY <1>1, <1>3, <1>4

LEMMA BlocksSinceType ==
    ASSUME slot \in Nat, NEW t \in Nat
    PROVE  BlocksSince(t) \in Nat
<1> DEFINE S == {b \in Blocks : t <= b /\ b < slot}
<1>1. IsFiniteSet(0..slot)
  BY FS_Interval
<1>2. S \in SUBSET (0..slot)
  BY BlockSlots
<1>3. IsFiniteSet(S)
  BY <1>1, <1>2, FS_Subset
<1>. QED  BY <1>3, FS_CardinalityType DEF BlocksSince

LEMMA SpendOfJob ==
    ASSUME PipelineInv, NEW a \in Authorities, NEW m \in Intents, NEW j \in Jobs,
           job[j].msg = m, BoundTo(a, m), Fresh(m)
    PROVE  /\ a = Request[j].wallet /\ wallet[a].nonce = job[j].nonce
           /\ m.kind = Request[j].payload.kind
           /\ BlocksSince(job[j].signedAt) < Window
           /\ slot <= job[j].signedAt + Request[j].expirySlots
<1>1. job[j].msg # NoMessage
  BY RequestAssumption
<1>2. /\ job[j].signedAt <= slot
      /\ job[j].expiry <= job[j].signedAt + Request[j].expirySlots
  BY <1>1 DEF PipelineInv, JobInv
<1>3. PICK s \in NewestBefore(job[j].signedAt) :
         m = IntentMessage(Request[j], job[j].nonce, job[j].expiry, s)
  BY <1>1 DEF PipelineInv, JobInv
<1>4. /\ m.wallet = Request[j].wallet /\ m.nonce = job[j].nonce
      /\ m.expiry = job[j].expiry /\ m.blockhashSlot = s
      /\ m.kind = Request[j].payload.kind
  BY <1>3 DEF IntentMessage
<1>5. slot <= job[j].expiry /\ BlocksSince(s) <= Window
  BY <1>4 DEF Fresh, InSlotHashes
<1>6. /\ slot \in Nat /\ job[j].expiry \in Nat /\ Request[j].expirySlots \in Nat
      /\ job[j].signedAt \in Nat /\ Window \in Nat
  BY RequestAssumption, BoundsAssumption
     DEF PipelineInv, PipelineTypeOK, TypeOK, RequestType, JobType
<1>7. BlocksSince(job[j].signedAt) < Window
  BY <1>2, <1>5, <1>6, OneBlockBefore, BlocksSinceType
<1>8. slot <= job[j].signedAt + Request[j].expirySlots
  BY <1>2, <1>5, <1>6
<1>. QED  BY <1>4, <1>7, <1>8 DEF BoundTo

\* What holds of every message that lands.
LEMMA LandsInTime ==
    ASSUME PipelineInv, [PipelineNext]_pipelineVars,
           NEW r \in Spends, NEW j \in Jobs, r.msg = job[j].msg
    PROVE  /\ BlocksSince(job[j].signedAt) < Window
           /\ slot <= job[j].signedAt + Request[j].expirySlots
<1>1. [Next]_vars
  BY ProgramStep DEF PipelineInv, PipelineTypeOK
<1>2. PICK a \in open \cap Authorities, m \in Intents :
         r = SpendOf(a, m) /\ BoundTo(a, m) /\ Fresh(m)
  BY <1>1, SpendStep
<1>3. job[j].msg = m
  BY <1>2 DEF SpendOf
<1>. QED  BY <1>2, <1>3, SpendOfJob

\* A message takes effect while the block it was signed over is in SlotHashes,
\* however late and often it is sent and whichever slots were skipped meanwhile.
THEOREM StaleIntentDies == PipelineSpec => StaleIntentNeverLands
<1>1. PipelineInv /\ [PipelineNext]_pipelineVars =>
        [\A r \in Spends, j \in Jobs :
          r.msg = job[j].msg => BlocksSince(job[j].signedAt) < Window]_pipelineVars
  BY LandsInTime
<1>. QED  BY <1>1, PipelineInvAlways, PTL DEF PipelineSpec, StaleIntentNeverLands

\* And no later than its request allowed, counted from the signature.
THEOREM ExpiredIntentDies == PipelineSpec => ExpiredIntentNeverLands
<1>1. PipelineInv /\ [PipelineNext]_pipelineVars =>
        [\A r \in Spends, j \in Jobs :
          r.msg = job[j].msg =>
              slot <= job[j].signedAt + Request[j].expirySlots]_pipelineVars
  BY LandsInTime
<1>. QED  BY <1>1, PipelineInvAlways, PTL DEF PipelineSpec, ExpiredIntentNeverLands

-----------------------------------------------------------------------------
(* The limits a trade was judged by.                                       *)

\* What a job has read is not from the wallet's future.  While the wallet stands
\* where the job read it, the limits a trade was judged by are remembered.
ReadInv(j) ==
    LET a == Request[j].wallet
    IN  /\ job[j].step \in {"price", "sign"} \cup Signed \/ job[j].msg # NoMessage
               => job[j].limits # NoLimits
        /\ job[j].limits # NoLimits =>
              /\ job[j].epoch <= epoch[a]
              /\ Request[j].payload.kind = "cpi" => WithinLimits(Request[j], job[j].limits)
              /\ (a \in open /\ job[j].epoch = epoch[a]) =>
                    /\ job[j].nonce <= wallet[a].nonce
                    /\ job[j].nonce = wallet[a].nonce => job[j].limits \in limitsSince[a]

LEMMA ReadStart == PipelineInit => \A j \in Jobs : ReadInv(j)
BY DEF PipelineInit, ReadInv, NewJob, Signed

\* A step of the chain: the nonce goes on, or starts a new epoch.
LEMMA ReadPasses ==
    ASSUME PipelineInv, [Next]_vars, RemembersLimits, UNCHANGED job,
           NEW j \in Jobs, ReadInv(j)
    PROVE  ReadInv(j)'
<1> DEFINE a == Request[j].wallet
<1>1. a \in Authorities /\ job[j] \in JobType /\ TypeOK /\ TypeOK'
  BY RequestAssumption, TypeNext DEF PipelineInv, PipelineTypeOK, RequestType
<1>2. /\ job[j].epoch \in Nat /\ job[j].nonce \in Nat
      /\ epoch[a] \in Nat /\ wallet[a].nonce \in Nat
  BY <1>1, JobFields, WalletNonce, BoundsAssumption
<1>3. CASE Untouched(a)
  <2>1. ~SpendsFrom(a)
    BY <1>3 DEF Untouched, RecordsOf, SpendsFrom
  <2>2. a \in open => limitsSince[a] \subseteq limitsSince'[a]
    BY <1>1, <1>3, <2>1 DEF RemembersLimits, Untouched
  <2>. QED  BY <1>3, <2>2 DEF ReadInv, Untouched, WithinLimits
<1>4. CASE Consumes(a)
  <2>1. a \in open /\ epoch'[a] = epoch[a] /\ wallet'[a].nonce = wallet[a].nonce + 1
    BY <1>4 DEF Consumes
  <2>. QED  BY <1>2, <2>1 DEF ReadInv, WithinLimits
<1>5. CASE Resets(a)
  <2>1. epoch'[a] = epoch[a] + 1
    BY <1>5 DEF Resets
  <2>. QED  BY <1>2, <2>1 DEF ReadInv, WithinLimits
<1>6. CASE Closes(a)
  BY <1>6 DEF ReadInv, Closes, WithinLimits
<1>. QED  BY <1>1, <1>3, <1>4, <1>5, <1>6, StepKinds

\* A job that leaves alone what it has read.
LEMMA ReadStays ==
    ASSUME PipelineInv, UNCHANGED <<vars, limitsSince>>, NEW j \in Jobs, NEW q \in JobType,
           ReadInv(j), job' = [job EXCEPT ![j] = q],
           q.limits = job[j].limits, q.nonce = job[j].nonce, q.epoch = job[j].epoch,
           q.step \in {"price", "sign"} \cup Signed \/ q.msg # NoMessage
              => job[j].limits # NoLimits
    PROVE  ReadInv(j)'
<1>1. job'[j] = q
  BY DEF PipelineInv, PipelineTypeOK
<1>. QED  BY <1>1 DEF ReadInv, WithinLimits, vars

LEMMA ReadStep ==
    ASSUME PipelineInv, UNCHANGED <<vars, limitsSince>>, NEW j \in Jobs, ReadInv(j),
           Begins(j) \/ JobStep(j)
    PROVE  ReadInv(j)'
<1> DEFINE a == Request[j].wallet
<1>1. /\ job \in [Jobs -> JobType] /\ job[j] \in JobType /\ slot \in Nat
      /\ Request[j].expirySlots \in Nat
  BY RequestAssumption DEF PipelineInv, PipelineTypeOK, TypeOK, RequestType
<1>2. /\ job[j].step \in Unsigned => job[j].msg = NoMessage
      /\ job[j].step \in {"price", "sign"} \cup Signed \/ job[j].msg # NoMessage
            => job[j].limits # NoLimits
  BY DEF PipelineInv, JobInv, ReadInv
<1>3. CASE Begins(j)
  <2> DEFINE q == Asked(job[j], slot + Request[j].expirySlots)
  <2>1. job' = [job EXCEPT ![j] = q] /\ job[j].msg = NoMessage
    BY <1>2, <1>3 DEF Begins, Asked, Unsigned
  <2>2. slot + Request[j].expirySlots \in Nat
    BY <1>1
  <2>3. /\ q \in JobType /\ q.step = "read" /\ q.msg = NoMessage
        /\ q.limits = job[j].limits /\ q.nonce = job[j].nonce /\ q.epoch = job[j].epoch
    BY <1>1, <2>1, <2>2, AskedFields
  <2> HIDE DEF q
  <2>. QED  BY <2>1, <2>3, ReadStays DEF Signed
<1>4. CASE ReadsWallet(j)
  <2> DEFINE s == IF Request[j].payload.kind = "cpi" THEN "price" ELSE "sign"
             q == Judged(job[j], s, wallet[a].nonce, wallet[a].limits, epoch[a])
  <2>1. a \in open /\ a \in Authorities /\ s \in Steps
    BY <1>4, RequestAssumption DEF ReadsWallet, RequestType, Steps
  <2>2. /\ wallet[a].nonce \in 0..MaxNonce /\ wallet[a].nonce \in Nat
        /\ wallet[a].limits \in Limits \cup {NoLimits} /\ epoch[a] \in Nat
    <3>1. wallet[a] \in WalletType /\ epoch[a] \in Nat
      BY <2>1 DEF PipelineInv, TypeOK
    <3>2. MaxNonce \in Nat
      BY BoundsAssumption
    <3>. QED  BY <3>1, <3>2 DEF WalletType
  <2>3. wallet[a].limits \in limitsSince[a] /\ wallet[a].limits # NoLimits
    BY <2>1, RequestAssumption DEF PipelineInv, PipelineTypeOK
  <2>4. job'[j] = q
    BY <1>1, <1>4 DEF ReadsWallet, Judged
  <2>5. q.nonce = wallet[a].nonce /\ q.limits = wallet[a].limits /\ q.epoch = epoch[a]
    BY <1>1, <2>1, <2>2, JudgedFields
  <2> HIDE DEF q
  <2>6. Request[j].payload.kind = "cpi" => WithinLimits(Request[j], wallet[a].limits)
    BY <1>4 DEF ReadsWallet
  <2>7. /\ job'[j].nonce = wallet[a].nonce /\ job'[j].limits = wallet[a].limits
        /\ job'[j].epoch = epoch[a]
    BY <2>4, <2>5
  <2>8. UNCHANGED <<open, wallet, epoch, limitsSince>>
    BY DEF vars
  <2>. QED  BY <2>2, <2>3, <2>6, <2>7, <2>8 DEF ReadInv, WithinLimits
<1>5. ASSUME NEW s \in Steps, job' = [job EXCEPT ![j] = At(job[j], s)],
             job[j].step \in {"price", "send", "confirm"}
      PROVE  ReadInv(j)'
  <2> DEFINE q == At(job[j], s)
  <2>1. /\ q \in JobType
        /\ q.limits = job[j].limits /\ q.nonce = job[j].nonce /\ q.epoch = job[j].epoch
    BY <1>1, AtFields
  <2> HIDE DEF q
  <2>2. job[j].limits # NoLimits
    BY <1>2, <1>5 DEF Signed
  <2>. QED  BY <1>5, <2>1, <2>2, ReadStays DEF q
<1>6. CASE VerifiesPrice(j) \/ Sends(j) \/ Confirms(j)
  BY <1>5, <1>6 DEF VerifiesPrice, Sends, Confirms, At, Steps
<1>7. CASE Signs(j)
  <2>1. PICK s \in NewestEntry :
           job' = [job EXCEPT
                      ![j].step = "build",
                      ![j].msg = BuildIntentMessage(Request[j], job[j].nonce,
                                                    job[j].expiry, s),
                      ![j].signedAt = slot]
    BY <1>7 DEF Signs
  <2> DEFINE m == BuildIntentMessage(Request[j], job[j].nonce, job[j].expiry, s)
             q == Sealed(job[j], m, slot)
  <2>2. job' = [job EXCEPT ![j] = q] /\ job[j].step = "sign"
    BY <1>7, <2>1 DEF Signs, Sealed
  <2>3. job'[j] = q /\ JobKept(j)
    BY <1>1, <1>7, <2>2, SignsKept
  <2>4. q \in JobType
    BY <2>3 DEF JobKept
  <2>5. q.limits = job[j].limits /\ q.nonce = job[j].nonce /\ q.epoch = job[j].epoch
    BY <1>1 DEF Sealed, JobType
  <2> HIDE DEF q
  <2>. QED  BY <1>2, <2>2, <2>4, <2>5, ReadStays
<1>8. CASE Builds(j)
  <2> DEFINE q == Built(job[j], slot)
  <2>1. job' = [job EXCEPT ![j] = q] /\ job[j].step = "build"
    BY <1>8 DEF Builds, Built
  <2>2. /\ q \in JobType
        /\ q.limits = job[j].limits /\ q.nonce = job[j].nonce /\ q.epoch = job[j].epoch
    BY <1>1, BuiltFields
  <2> HIDE DEF q
  <2>. QED  BY <1>2, <2>1, <2>2, ReadStays DEF Signed
<1>9. CASE Fails(j)
  <2>1. CASE job[j].step = "confirm"
    BY <1>5, <1>9, <2>1 DEF Fails, At, Steps
  <2>2. CASE job[j].step # "confirm"
    <3>1. job'[j] = At(NewJob, "failed")
      BY <1>1, <1>9, <2>2 DEF Fails, At
    <3>2. /\ job'[j].step = "failed" /\ job'[j].msg = NoMessage
          /\ job'[j].limits = NoLimits
      BY <3>1 DEF At, NewJob
    <3>. QED  BY <3>2 DEF ReadInv, Signed
  <2>. QED  BY <2>1, <2>2
<1>. QED  BY <1>3, <1>4, <1>6, <1>7, <1>8, <1>9 DEF JobStep

ReadInvAll == \A j \in Jobs : ReadInv(j)

LEMMA ReadNext ==
    ASSUME PipelineInv, ReadInvAll, [PipelineNext]_pipelineVars
    PROVE  ReadInvAll'
<1>1. [Next]_vars
  BY ProgramStep DEF PipelineInv, PipelineTypeOK
<1>2. CASE UNCHANGED <<vars, jobVars>>
  BY <1>2 DEF ReadInvAll, ReadInv, WithinLimits, vars
<1>3. ASSUME NEW j \in Jobs, Begins(j) \/ JobStep(j), UNCHANGED <<vars, limitsSince>>
      PROVE  ReadInvAll'
  <2>1. ReadInv(j)'
    BY <1>3, ReadStep DEF ReadInvAll
  <2>2. \A i \in Jobs : i # j => job'[i] = job[i]
    BY <1>3, JobStepKept DEF JobKept, PipelineInv, PipelineTypeOK
  <2>3. ASSUME NEW i \in Jobs, i # j PROVE ReadInv(i)'
    BY <1>3, <2>2, <2>3 DEF ReadInvAll, ReadInv, WithinLimits, vars
  <2>. QED  BY <2>1, <2>3 DEF ReadInvAll
<1>4. CASE RemembersLimits /\ UNCHANGED job
  BY <1>1, <1>4, ReadPasses DEF ReadInvAll
<1>. QED  BY <1>2, <1>3, <1>4, PipelineKinds DEF pipelineVars

LEMMA ReadInvAlways == PipelineSpec => []ReadInvAll
<1>1. PipelineInit => ReadInvAll
  BY ReadStart DEF ReadInvAll
<1>. QED  BY <1>1, ReadNext, PipelineInvAlways, PTL DEF PipelineSpec

\* However the owner changes the limits while a trade is on its way, one that
\* takes effect was within limits in force at some time since the wallet's
\* previous spend, if the nonce was not reset in between.
THEOREM TradeJudged == PipelineSpec => TradeWithinRecentLimits
<1>1. ASSUME PipelineInv, ReadInvAll, [PipelineNext]_pipelineVars,
             NEW r \in Spends, NEW j \in Jobs,
             r.msg = job[j].msg, r.msg.kind = "cpi", r.epoch = job[j].epoch
      PROVE  \E limits \in limitsSince[r.wallet] :
                Request[j].size <= limits.size /\ Request[j].slippage <= limits.slippage
  <2>1. [Next]_vars
    BY <1>1, ProgramStep DEF PipelineInv, PipelineTypeOK
  <2>2. PICK a \in open \cap Authorities, m \in Intents :
           r = SpendOf(a, m) /\ BoundTo(a, m) /\ Fresh(m)
    BY <2>1, SpendStep
  <2>3. r.wallet = a /\ r.msg = m /\ r.epoch = epoch[a]
    BY <2>2 DEF SpendOf
  <2>4. /\ a = Request[j].wallet /\ wallet[a].nonce = job[j].nonce
        /\ Request[j].payload.kind = "cpi"
    BY <1>1, <2>2, <2>3, SpendOfJob
  <2>5. job[j].msg # NoMessage
    BY <1>1, <2>3, RequestAssumption
  <2>6. /\ WithinLimits(Request[j], job[j].limits)
        /\ job[j].limits \in limitsSince[a]
    BY <1>1, <2>2, <2>3, <2>4, <2>5 DEF ReadInvAll, ReadInv
  <2>. QED  BY <2>3, <2>6 DEF WithinLimits
<1>2. PipelineInv /\ ReadInvAll /\ [PipelineNext]_pipelineVars =>
        [\A r \in Spends, j \in Jobs :
          (r.msg = job[j].msg /\ r.msg.kind = "cpi" /\ r.epoch = job[j].epoch) =>
              \E limits \in limitsSince[r.wallet] :
                  /\ Request[j].size <= limits.size
                  /\ Request[j].slippage <= limits.slippage]_pipelineVars
  BY <1>1
<1>. QED  BY <1>2, PipelineInvAlways, ReadInvAlways, PTL
          DEF PipelineSpec, TradeWithinRecentLimits

\* What is proved of the program holds of the pipeline: the order of nonces and
\* of signers, the rent, the ways out of a wallet, the calls it makes.
COROLLARY PipelineSafe ==
    PipelineSpec =>
        /\ [](NonceSpentInOrder /\ SpentUnderSignerInForce /\ MessageTakesEffectOnce)
        /\ []RentExempt
        /\ FundsLeaveByIntentOrTimelock /\ CpiTargetGranted /\ RevocationIsFinal
BY PipelineImplementsProgram, NonceOrder, SignerOrder, EffectOnce, RentKept,
   FundsGuarded, CpiGuarded, RevocationFinal, PTL
=============================================================================
