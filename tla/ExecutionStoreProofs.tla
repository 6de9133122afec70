------------------------ MODULE ExecutionStoreProofs -------------------------
(***************************************************************************)
(* The store of the agent runner, for any number of starts, withdrawals,   *)
(* stages and cycles, with the relayer or without it: a loop that lives is *)
(* the present run's, a run that shows as running is driven or its loop    *)
(* was cancelled by a start, every leg the store lists is its run's, a     *)
(* withdrawal that shows as running is, and the list of runs in local      *)
(* storage, however long, agrees with the store as far as it is told and   *)
(* brings no stopped run back.                                             *)
(***************************************************************************)
EXTENDS ExecutionStore, SequenceTheorems, FiniteSetTheorems, TLAPS

USE DEF storeVars, loopVars, chainVars

\* All of the state but the portfolio is well typed; a start that was not
\* answered has an agent and a wallet, a withdrawal a key.
StoreTypeOK ==
    /\ run \in RunType \cup {NoRun}
    /\ burner \in Keys \cup {NoKey} /\ receipt \in Keys \cup {NoKey}
    /\ receipts \in Seq(ReceiptType)
    /\ cancelled \subseteq Keys /\ activeLoop \in Keys \cup {NoKey}
    /\ starts \in [Keys -> StartType]
    /\ \A k \in Keys : starts[k].pc \in {"asking", "sent"} =>
           starts[k].agent \in Agents /\ starts[k].wallet \in Wallets
    /\ loops \in [Keys -> LoopType]
    /\ withdrawals \in [Jobs -> WithdrawalType]
    /\ \A j \in Jobs : withdrawals[j].pc # "none" => withdrawals[j].key \in Keys
    /\ \A j \in Jobs : withdrawals[j].tx # "none" => withdrawals[j].pc # "none"
    /\ funds \in [Keys -> Nat]

\* A live loop has written down the legs of its earlier cycles only, and that of
\* this cycle once it has left its stages.
LegsOfEarlierCycles ==
    \A l \in Keys : IsLive(l) =>
        \A i \in LegsIn(receipts) :
            /\ receipts[i].cycle <= loops[l].cycle
            /\ loops[l].pc \in Stages => receipts[i].cycle < loops[l].cycle

\* No live loop has lost what wakes it.
LiveLoopWakes == \A l \in Keys : IsLive(l) => loops[l].pc \notin {"none", "ended"}

StoreInv ==
    /\ StoreTypeOK
    /\ LiveLoopIsTheRuns
    /\ LiveLoopWakes
    /\ LegsOfEarlierCycles
    /\ LegsAreOfThisRun
    /\ WithdrawAwaited

-----------------------------------------------------------------------------
(* The stages.                                                             *)

StageNames == {"intent", "policy", "oracle", "build", "sign", "broadcast", "verify"}

LEMMA StageFacts ==
    /\ StageIds \in [1..(Sleeps + 2) -> Stages]
    /\ "broadcast" \in Stages /\ "verify" \in Stages
    /\ Stages \subseteq StageNames
    /\ Sleeps \in 1..5
<1> DEFINE T == <<"intent", "policy", "oracle", "build", "sign">>
           E == <<"broadcast", "verify">>
           P == SubSeq(T, 1, Sleeps)
<1>1. Sleeps \in 1..5
  BY StoreAssumption
<1>2. /\ P \in Seq(StageNames) /\ Len(P) = Sleeps
      /\ \A i \in 1..Sleeps : P[i] = T[i]
  <2>1. \A i \in 1..Sleeps : T[i] \in StageNames
    BY <1>1 DEF StageNames
  <2> QED BY <1>1, <2>1, SubSeqProperties
<1>3. E \in Seq(StageNames) /\ Len(E) = 2 /\ E[1] = "broadcast" /\ E[2] = "verify"
  BY DEF StageNames
<1>4. /\ StageIds \in Seq(StageNames) /\ Len(StageIds) = Sleeps + 2
      /\ \A i \in 1..(Sleeps + 2) :
            StageIds[i] = IF i <= Sleeps THEN P[i] ELSE E[i - Sleeps]
  <2> HIDE DEF P, E
  <2>1. /\ P \o E \in Seq(StageNames) /\ Len(P \o E) = Len(P) + Len(E)
        /\ \A i \in 1..(Len(P) + Len(E)) :
              (P \o E)[i] = IF i <= Len(P) THEN P[i] ELSE E[i - Len(P)]
    <3>1. P \in Seq(StageNames) /\ E \in Seq(StageNames)
      BY <1>2, <1>3
    <3> QED BY <3>1, ConcatProperties
  <2>2. StageIds = P \o E
    BY DEF StageIds, P, E
  <2> QED BY <1>1, <1>2, <1>3, <2>1, <2>2
<1>5. StageIds[Sleeps + 1] = "broadcast" /\ StageIds[Sleeps + 2] = "verify"
  <2>1. (Sleeps + 1) - Sleeps = 1 /\ (Sleeps + 2) - Sleeps = 2
    BY <1>1
  <2> HIDE DEF E, P
  <2> QED BY <1>1, <1>3, <1>4, <2>1
<1>6. \A i \in 1..(Sleeps + 2) : StageIds[i] \in StageNames
  BY <1>1, <1>4, ElementOfSeq
<1>7. StageIds \in [1..(Sleeps + 2) -> StageNames]
  BY <1>1, <1>4, LenProperties
<1> HIDE DEF E, P
<1> QED BY <1>1, <1>5, <1>6, <1>7 DEF Stages

LEMMA NoStageIsAnEnd ==
    "none" \notin Stages /\ "ended" \notin Stages /\ "stale" \notin Stages /\ "gap" \notin Stages
BY StageFacts DEF StageNames

-----------------------------------------------------------------------------
(* What the helpers return.                                                *)

StageStates == {"idle", "active", "ok", "rejected"}

\* Neither of these changes what a run is of, whether it runs, or its count of legs.
SameRun(r, q) ==
    /\ r = NoRun <=> q = NoRun
    /\ r # NoRun => q.id = r.id /\ q.mode = r.mode /\ q.legs = r.legs

LEMMA RunIsNotNoRun == NoRun \notin RunType
<1> DEFINE St == [Stages -> StageStates]
           R == [id : Nat, agent : Agents, wallet : Wallets, mode : {"running", "stopped"},
                 stages : St, legs : Nat]
<1>1. NoRun \notin R
  BY StoreAssumption DEF StageStates
<1>2. RunType = [id : Keys, agent : Agents, wallet : Wallets, mode : {"running", "stopped"},
                 stages : St, legs : Nat]
  BY DEF RunType, StageStates
<1>3. Keys \subseteq Nat
  BY DEF Keys
<1> HIDE DEF St
<1>4. RunType \subseteq R
  BY <1>2, <1>3
<1> HIDE DEF R
<1> QED BY <1>1, <1>4

LEMMA StagedFacts ==
    ASSUME NEW r \in RunType \cup {NoRun}, NEW id \in Stages, NEW st \in StageStates
    PROVE  Staged(r, id, st) \in RunType \cup {NoRun} /\ SameRun(r, Staged(r, id, st))
<1>1. CASE r = NoRun
  BY <1>1 DEF Staged, SameRun
<1>2. CASE r # NoRun
  <2> DEFINE q == [r EXCEPT !.stages[id] = st]
  <2>1. r \in RunType /\ Staged(r, id, st) = q
    BY <1>2 DEF Staged
  <2>2. q \in RunType /\ q.id = r.id /\ q.mode = r.mode /\ q.legs = r.legs
    BY <2>1 DEF RunType, StageStates
  <2> HIDE DEF q
  <2> QED BY <1>2, <2>1, <2>2, RunIsNotNoRun DEF SameRun
<1> QED BY <1>1, <1>2

LEMMA TwiceStagedFacts ==
    ASSUME NEW r \in RunType \cup {NoRun}, NEW i \in Stages, NEW j \in Stages,
           NEW st \in StageStates, NEW tt \in StageStates
    PROVE  SameRun(r, Staged(Staged(r, i, st), j, tt))
<1> DEFINE q == Staged(r, i, st)
           p == Staged(q, j, tt)
<1>1. q \in RunType \cup {NoRun} /\ SameRun(r, q)
  BY StagedFacts
<1> HIDE DEF q
<1>2. SameRun(q, p)
  BY <1>1, StagedFacts
<1> HIDE DEF p
<1>3. SameRun(r, p)
  BY <1>1, <1>2 DEF SameRun
<1> QED BY <1>3 DEF p, q

LEMMA RunAtTopFacts ==
    ASSUME NEW r \in RunType \cup {NoRun}, NEW fresh \in BOOLEAN
    PROVE  RunAtTop(r, fresh) \in RunType \cup {NoRun} /\ SameRun(r, RunAtTop(r, fresh))
<1>1. CASE ~fresh \/ r = NoRun
  BY <1>1 DEF RunAtTop, SameRun
<1>2. CASE fresh /\ r # NoRun
  <2> DEFINE shown == [EmptyStages EXCEPT ![StageIds[1]] = "active"]
             q == [r EXCEPT !.stages = shown]
  <2>1. r \in RunType /\ RunAtTop(r, fresh) = q
    BY <1>2 DEF RunAtTop
  <2>2. shown \in [Stages -> StageStates]
    BY StageFacts DEF EmptyStages, StageStates
  <2> HIDE DEF shown
  <2>3. q \in RunType /\ q.id = r.id /\ q.mode = r.mode /\ q.legs = r.legs
    BY <2>1, <2>2 DEF RunType, StageStates
  <2> HIDE DEF q
  <2> QED BY <1>2, <2>1, <2>3, RunIsNotNoRun DEF SameRun
<1> QED BY <1>1, <1>2

LEMMA LoopAtTopFacts ==
    ASSUME NEW loop \in LoopType, NEW fresh \in BOOLEAN
    PROVE  /\ LoopAtTop(loop, fresh) \in LoopType
           /\ LoopAtTop(loop, fresh).pc = (IF fresh THEN StageIds[1] ELSE "stale")
           /\ LoopAtTop(loop, fresh).cycle = (IF fresh THEN loop.cycle + 1 ELSE loop.cycle)
           /\ StageIds[1] \in Stages
<1>1. StageIds[1] \in Stages
  BY StageFacts
<1>2. CASE fresh
  BY <1>1, <1>2 DEF LoopAtTop, LoopType, TxStates
<1>3. CASE ~fresh
  BY <1>1, <1>3 DEF LoopAtTop, LoopType, TxStates
<1> QED BY <1>2, <1>3

LEMMA OverFacts == Over \in LoopType
BY DEF Over, LoopType, TxStates

LEMMA ClearedTimersFacts ==
    ASSUME loops \in [Keys -> LoopType]
    PROVE  ClearedTimers \in [Keys -> LoopType]
BY OverFacts DEF ClearedTimers

\* After the first lines of startAgent, stopAgent and resetAgent no loop lives.
LEMMA CancelsLoopFacts ==
    ASSUME StoreTypeOK, CancelsLoop
    PROVE  /\ cancelled' \subseteq Keys /\ activeLoop' = activeLoop
           /\ loops' \in [Keys -> LoopType]
           /\ \A l \in Keys : ~IsLive(l)'
BY ClearedTimersFacts DEF CancelsLoop, StoreTypeOK, IsLive, Keys, NoKey

-----------------------------------------------------------------------------
(* Every step keeps the types.                                             *)

LEMMA UserKeepsTypes ==
    ASSUME StoreTypeOK, UserStep
    PROVE  StoreTypeOK'
<1>1. ASSUME NEW k \in Keys, NEW a \in Agents, NEW w \in Wallets, StartAgent(k, a, w)
      PROVE  StoreTypeOK'
  <2> DEFINE start == [pc |-> "asking", agent |-> a, wallet |-> w, tx |-> "none"]
  <2>1. start \in StartType
    BY DEF StartType, TxStates
  <2>2. starts' \in [Keys -> StartType]
    BY <1>1, <2>1 DEF StartAgent, StoreTypeOK
  <2>3. \A j \in Keys : starts'[j].pc \in {"asking", "sent"} =>
            starts'[j].agent \in Agents /\ starts'[j].wallet \in Wallets
    BY <1>1 DEF StartAgent, StoreTypeOK
  <2>4. CancelsLoop
    BY <1>1 DEF StartAgent
  <2> QED BY <1>1, <2>2, <2>3, <2>4, CancelsLoopFacts DEF StartAgent, StoreTypeOK
<1>2. CASE StopAgent
  <2>1. run \in RunType /\ EmptyStages \in [Stages -> StageStates] /\ CancelsLoop
    BY <1>2 DEF StopAgent, OurMode, StoreTypeOK, EmptyStages, StageStates
  <2>2. run' \in RunType
    BY <1>2, <2>1 DEF StopAgent, RunType, StageStates
  <2> QED BY <1>2, <2>1, <2>2, CancelsLoopFacts DEF StopAgent, StoreTypeOK
<1>3. ASSUME NEW j \in Jobs, WithdrawSessionKey(j)
      PROVE  StoreTypeOK'
  <2> DEFINE job == [pc |-> "reading", key |-> burner, balance |-> 0, tx |-> "none"]
  <2>1. job \in WithdrawalType /\ burner \in Keys
    BY <1>3 DEF WithdrawalType, TxStates, WithdrawSessionKey, StoreTypeOK
  <2> QED BY <1>3, <2>1 DEF WithdrawSessionKey, StoreTypeOK
<1>4. CASE RunReplay
  BY <1>4, StagedFacts, StageFacts DEF RunReplay, StoreTypeOK, StageStates
<1>5. CASE ResetAgent
  <2>1. CancelsLoop
    BY <1>5 DEF ResetAgent
  <2>2. <<>> \in Seq(ReceiptType)
    OBVIOUS
  <2> QED BY <1>5, <2>1, <2>2, CancelsLoopFacts DEF ResetAgent, StoreTypeOK
<1>6. ASSUME NEW w \in Wallets, ClearForWallet(w)
      PROVE  StoreTypeOK'
  BY <1>6 DEF ClearForWallet, StoreTypeOK
<1> QED BY <1>1, <1>2, <1>3, <1>4, <1>5, <1>6 DEF UserStep

LEMMA DelegationKeepsTypes ==
    ASSUME StoreTypeOK, NEW k \in Keys, DelegationAnswered(k)
    PROVE  StoreTypeOK'
<1>1. CASE DelegationSent(k)
  <2>1. starts' \in [Keys -> StartType]
    <3>1. starts \in [Keys -> StartType]
      BY DEF StoreTypeOK
    <3>2. [starts[k] EXCEPT !.pc = "sent", !.tx = "inflight"] \in StartType
      BY <3>1 DEF StartType, TxStates
    <3> QED BY <1>1, <3>1, <3>2 DEF DelegationSent
  <2>2. \A j \in Keys : starts'[j].pc \in {"asking", "sent"} =>
            starts'[j].agent \in Agents /\ starts'[j].wallet \in Wallets
    BY <1>1 DEF DelegationSent, StoreTypeOK, StartType
  <2> QED BY <1>1, <2>1, <2>2 DEF DelegationSent, StoreTypeOK
<1>2. ASSUME starts' = [starts EXCEPT ![k] = Answered(starts[k])]
      PROVE  /\ starts' \in [Keys -> StartType]
             /\ \A j \in Keys : starts'[j].pc \in {"asking", "sent"} =>
                    starts'[j].agent \in Agents /\ starts'[j].wallet \in Wallets
  <2>1. Answered(starts[k]) \in StartType /\ Answered(starts[k]).pc = "done"
    <3>1. starts[k] \in StartType
      BY DEF StoreTypeOK
    <3> QED BY <3>1 DEF Answered, StartType, TxStates
  <2> QED BY <1>2, <2>1 DEF StoreTypeOK
<1>3. CASE DelegationConfirmed(k)
  <2> DEFINE r == [id |-> k, agent |-> starts[k].agent, wallet |-> starts[k].wallet,
                   mode |-> "running", stages |-> EmptyStages, legs |-> 0]
  <2>1. r \in RunType
    BY <1>3 DEF DelegationConfirmed, StoreTypeOK, RunType, EmptyStages
  <2>2. PICK fresh \in BOOLEAN :
            /\ run' = RunAtTop(r, fresh)
            /\ loops' = [loops EXCEPT ![k] = LoopAtTop(loops[k], fresh)]
    BY <1>3 DEF DelegationConfirmed
  <2> HIDE DEF r
  <2>3. run' \in RunType \cup {NoRun}
    BY <2>1, <2>2, RunAtTopFacts
  <2>4. loops' \in [Keys -> LoopType]
    BY <2>2, LoopAtTopFacts DEF StoreTypeOK
  <2>5. <<>> \in Seq(ReceiptType)
    OBVIOUS
  <2> QED BY <1>2, <1>3, <2>3, <2>4, <2>5 DEF DelegationConfirmed, StoreTypeOK
<1>4. CASE DelegationFails(k)
  BY <1>2, <1>4 DEF DelegationFails, StoreTypeOK
<1> QED BY <1>1, <1>3, <1>4 DEF DelegationAnswered

LEMMA LoopStepFacts ==
    ASSUME StoreTypeOK, NEW l \in Keys, NEW loop \in LoopType, LoopStep(l, loop),
           run' \in RunType \cup {NoRun}, receipts' \in Seq(ReceiptType)
    PROVE  StoreTypeOK'
<1>1. loops' \in [Keys -> LoopType]
  BY DEF LoopStep, StoreTypeOK
<1> QED BY <1>1 DEF LoopStep, StoreTypeOK

\* The states of a loop that its steps write down.
LEMMA LoopChanges ==
    ASSUME StoreTypeOK, NEW l \in Keys
    PROVE  /\ \A pc \in Stages \cup {"gap"} : [loops[l] EXCEPT !.pc = pc] \in LoopType
           /\ \A tx \in TxStates : [loops[l] EXCEPT !.tx = tx] \in LoopType
           /\ loops[l] \in LoopType /\ Over \in LoopType
BY OverFacts DEF StoreTypeOK, LoopType

LEMMA CyclesKeepTypes ==
    ASSUME StoreTypeOK, NEW l \in Keys, Cycles(l)
    PROVE  StoreTypeOK'
<1> USE LoopChanges
<1>0. run \in RunType \cup {NoRun} /\ receipts \in Seq(ReceiptType)
  BY DEF StoreTypeOK
<1>1. CASE WakesDead(l)
  BY <1>0, <1>1, LoopStepFacts DEF WakesDead
<1>2. CASE NextCycle(l)
  <2>1. PICK fresh \in BOOLEAN :
            /\ LoopStep(l, IF fresh /\ run = NoRun THEN Over ELSE LoopAtTop(loops[l], fresh))
            /\ run' = RunAtTop(run, fresh)
    BY <1>2 DEF NextCycle
  <2>2. run' \in RunType \cup {NoRun} /\ receipts' \in Seq(ReceiptType)
    BY <1>0, <1>2, <2>1, RunAtTopFacts DEF NextCycle
  <2>3. LoopAtTop(loops[l], fresh) \in LoopType
    BY LoopAtTopFacts
  <2> QED BY <2>1, <2>2, <2>3, LoopStepFacts
<1>3. CASE StageDone(l)
  <2>1. PICK i \in 1..Sleeps :
            /\ LoopStep(l, [loops[l] EXCEPT !.pc = StageIds[i + 1]])
            /\ run' = Staged(Staged(run, StageIds[i], "ok"), StageIds[i + 1], "active")
            /\ receipts' = receipts
    BY <1>3 DEF StageDone
  <2>2. StageIds[i] \in Stages /\ StageIds[i + 1] \in Stages
    BY StageFacts
  <2>3. Staged(run, StageIds[i], "ok") \in RunType \cup {NoRun}
    BY <1>0, <2>2, StagedFacts DEF StageStates
  <2>4. run' \in RunType \cup {NoRun}
    BY <2>1, <2>2, <2>3, StagedFacts DEF StageStates
  <2> QED BY <1>0, <2>1, <2>2, <2>4, LoopStepFacts
<1>4. CASE LegSent(l)
  BY <1>0, <1>4, LoopStepFacts DEF LegSent, TxStates
<1>5. CASE LegConfirmed(l)
  <2>1. Staged(run, "broadcast", "ok") \in RunType \cup {NoRun}
    BY <1>0, StageFacts, StagedFacts DEF StageStates
  <2>2. Staged(Staged(run, "broadcast", "ok"), "verify", "active") \in RunType \cup {NoRun}
    BY <2>1, StageFacts, StagedFacts DEF StageStates
  <2> QED BY <1>0, <1>5, <2>2, StageFacts, LoopStepFacts DEF LegConfirmed
<1>6. CASE LegThrows(l)
  <2>1. Staged(run, "broadcast", "rejected") \in RunType \cup {NoRun}
    BY <1>0, StageFacts, StagedFacts DEF StageStates
  <2> QED BY <1>0, <1>6, <2>1, LoopStepFacts DEF LegThrows
<1>7. CASE LegRecorded(l)
  <2>1. CASE run = NoRun
    BY <1>0, <1>7, <2>1, LoopStepFacts DEF LegRecorded
  <2>2. CASE run # NoRun
    <3> DEFINE q == Staged(run, "verify", "ok")
    <3>1. q \in RunType
      BY <1>0, <2>2, StageFacts, StagedFacts DEF StageStates, SameRun
    <3>2. run' = [q EXCEPT !.legs = @ + 1] /\ receipts' = Append(receipts, Leg(l, loops[l].cycle))
      BY <1>7, <2>2 DEF LegRecorded
    <3> HIDE DEF q
    <3>3. run' \in RunType
      BY <3>1, <3>2 DEF RunType
    <3>4. Leg(l, loops[l].cycle) \in ReceiptType
      BY DEF Leg, ReceiptType, LoopType
    <3>5. receipts' \in Seq(ReceiptType)
      BY <1>0, <3>2, <3>4
    <3> QED BY <1>7, <3>3, <3>5, LoopStepFacts DEF LegRecorded
  <2> QED BY <2>1, <2>2
<1> QED BY <1>1, <1>2, <1>3, <1>4, <1>5, <1>6, <1>7 DEF Cycles

LEMMA ReturnedFacts ==
    ASSUME NEW job \in WithdrawalType
    PROVE  /\ Returned(job) \in WithdrawalType
           /\ Returned(job).pc = "done" /\ Returned(job).key = job.key
BY DEF Returned, WithdrawalType, TxStates

LEMMA WithdrawalKeepsTypes ==
    ASSUME StoreTypeOK, NEW j \in Jobs, WithdrawalAnswered(j)
    PROVE  StoreTypeOK'
<1>0. /\ withdrawals[j] \in WithdrawalType
      /\ withdrawals[j].pc # "none" => withdrawals[j].key \in Keys
      /\ Keys \subseteq Nat
  BY DEF StoreTypeOK, Keys
<1>1. ASSUME NEW job \in WithdrawalType, WithdrawalStep(j, job), withdrawals[j].pc # "none",
             job.pc # "none", job.key = withdrawals[j].key, receipts' \in Seq(ReceiptType)
      PROVE  StoreTypeOK'
  <2>1. withdrawals' \in [Jobs -> WithdrawalType]
    BY <1>1 DEF WithdrawalStep, StoreTypeOK
  <2> QED BY <1>0, <1>1, <2>1 DEF WithdrawalStep, StoreTypeOK
<1>2. CASE BalanceRead(j)
  <2>1. funds[withdrawals[j].key] \in Nat
    BY <1>0, <1>2 DEF BalanceRead, StoreTypeOK
  <2> QED BY <1>0, <1>1, <1>2, <2>1 DEF BalanceRead, StoreTypeOK, WithdrawalType
<1>3. CASE WithdrawalSent(j)
  BY <1>0, <1>1, <1>3 DEF WithdrawalSent, StoreTypeOK, WithdrawalType, TxStates
<1>4. CASE WithdrawalConfirmed(j)
  <2>1. Refund(withdrawals[j].key) \in ReceiptType
    BY <1>0, <1>4 DEF WithdrawalConfirmed, Refund, ReceiptType
  <2>2. receipts' \in Seq(ReceiptType)
    BY <1>4, <2>1 DEF WithdrawalConfirmed, StoreTypeOK
  <2> QED BY <1>0, <1>1, <1>4, <2>2, ReturnedFacts DEF WithdrawalConfirmed
<1>5. CASE WithdrawalFails(j)
  BY <1>0, <1>1, <1>5, ReturnedFacts DEF WithdrawalFails, StoreTypeOK
<1> QED BY <1>2, <1>3, <1>4, <1>5 DEF WithdrawalAnswered

LEMMA AfterLegFacts ==
    ASSUME StoreTypeOK, NEW k \in Keys, RelayerMode \/ funds[k] > 0
    PROVE  AfterLeg(k) \in [Keys -> Nat]
BY DEF StoreTypeOK, AfterLeg

LEMMA LandingKeepsTypes ==
    ASSUME StoreTypeOK, Lands
    PROVE  StoreTypeOK'
<1>1. ASSUME NEW k \in Keys, DelegationLands(k)
      PROVE  StoreTypeOK'
  <2>1. PICK tx \in {"landed", "failed"} :
            /\ starts' = [starts EXCEPT ![k].tx = tx]
            /\ funds' = IF tx = "landed" THEN [funds EXCEPT ![k] = @ + Delegated] ELSE funds
    BY <1>1 DEF DelegationLands
  <2>2. starts' \in [Keys -> StartType]
    <3>1. starts[k] \in StartType
      BY DEF StoreTypeOK
    <3>2. [starts[k] EXCEPT !.tx = tx] \in StartType
      BY <3>1 DEF StartType, TxStates
    <3> QED BY <2>1, <3>2 DEF StoreTypeOK
  <2>3. \A i \in Keys : starts'[i].pc \in {"asking", "sent"} =>
            starts'[i].agent \in Agents /\ starts'[i].wallet \in Wallets
    BY <2>1 DEF StoreTypeOK, StartType
  <2>4. funds' \in [Keys -> Nat]
    BY <2>1, StoreAssumption DEF StoreTypeOK
  <2> QED BY <1>1, <2>2, <2>3, <2>4 DEF DelegationLands, ChainStep, StoreTypeOK
<1>2. ASSUME NEW l \in Keys, LegLands(l)
      PROVE  StoreTypeOK'
  <2>1. loops' \in [Keys -> LoopType] /\ funds' \in [Keys -> Nat]
    BY <1>2, AfterLegFacts, LoopChanges DEF LegLands, StoreTypeOK, TxStates
  <2> QED BY <1>2, <2>1 DEF LegLands, ChainStep, StoreTypeOK
<1>3. ASSUME NEW l \in Keys, OrphanLands(l)
      PROVE  StoreTypeOK'
  BY <1>3, AfterLegFacts DEF OrphanLands, ChainStep, StoreTypeOK
<1>4. ASSUME NEW j \in Jobs, WithdrawalLands(j)
      PROVE  StoreTypeOK'
  <2> DEFINE k == withdrawals[j].key
  <2>1. k \in Keys /\ withdrawals[j] \in WithdrawalType /\ withdrawals[j].pc # "none"
    BY <1>4 DEF WithdrawalLands, StoreTypeOK
  <2>2. PICK tx \in TxStates, paid \in Nat :
            /\ withdrawals' = [withdrawals EXCEPT ![j].tx = tx]
            /\ funds' = [funds EXCEPT ![k] = @ - paid]
            /\ funds[k] >= paid
    <3>1. withdrawals[j].balance \in Nat /\ funds[k] \in Nat
      BY <2>1 DEF WithdrawalType, StoreTypeOK
    <3>2. CASE funds[k] >= withdrawals[j].balance /\ withdrawals' = [withdrawals EXCEPT ![j].tx = "landed"]
                 /\ funds' = [funds EXCEPT ![k] = @ - withdrawals[j].balance]
      BY <3>1, <3>2 DEF TxStates
    <3>3. CASE funds[k] \in 1..(withdrawals[j].balance - 1)
                 /\ withdrawals' = [withdrawals EXCEPT ![j].tx = "failed"]
                 /\ funds' = [funds EXCEPT ![k] = @ - 1]
      <4>1. funds[k] >= 1
        BY <3>1, <3>3
      <4>2. "failed" \in TxStates /\ 1 \in Nat
        BY DEF TxStates
      <4> HIDE DEF k
      <4> QED BY <3>3, <4>1, <4>2
    <3> QED BY <1>4, <3>2, <3>3 DEF WithdrawalLands
  <2>3. funds' \in [Keys -> Nat]
    BY <2>1, <2>2 DEF StoreTypeOK
  <2>4. withdrawals' \in [Jobs -> WithdrawalType]
    BY <2>1, <2>2 DEF StoreTypeOK, WithdrawalType
  <2>5. \A i \in Jobs : /\ withdrawals'[i].pc = withdrawals[i].pc
                         /\ withdrawals'[i].key = withdrawals[i].key
    BY <2>2 DEF StoreTypeOK, WithdrawalType
  <2>6. \A i \in Jobs : withdrawals'[i].tx # "none" => withdrawals'[i].pc # "none"
    BY <2>1, <2>2, <2>5 DEF StoreTypeOK, WithdrawalType
  <2> QED BY <1>4, <2>3, <2>4, <2>5, <2>6 DEF WithdrawalLands, ChainStep, StoreTypeOK
<1> QED BY <1>1, <1>2, <1>3, <1>4 DEF Lands

LEMMA TypeStep ==
    ASSUME StoreTypeOK, [Next]_vars
    PROVE  StoreTypeOK'
<1>1. CASE ReplayVerdict
  <2>1. run # NoRun => run \in RunType
    BY DEF StoreTypeOK
  <2>2. run # NoRun => [run EXCEPT !.stages["broadcast"] = "rejected",
                                   !.stages["verify"] = "rejected"] \in RunType
    BY <2>1, StageFacts DEF RunType
  <2> QED BY <1>1, <2>2 DEF ReplayVerdict, StoreTypeOK
<1>2. CASE UNCHANGED vars
  BY <1>2 DEF vars, StoreTypeOK
<1> QED BY <1>1, <1>2, UserKeepsTypes, DelegationKeepsTypes, CyclesKeepTypes,
           WithdrawalKeepsTypes, LandingKeepsTypes DEF Next

-----------------------------------------------------------------------------
(* Legs in a list of receipts.                                             *)

LEMMA LegsInFacts ==
    ASSUME NEW list \in Seq(ReceiptType)
    PROVE  /\ IsFiniteSet(LegsIn(list)) /\ LegsIn(list) \subseteq 1..Len(list)
           /\ Cardinality(LegsIn(list)) \in Nat
           /\ Len(list) \in Nat
           /\ \A i \in LegsIn(list) : list[i] \in ReceiptType
<1>1. Len(list) \in Nat /\ LegsIn(list) \subseteq 1..Len(list)
  BY DEF LegsIn
<1>2. IsFiniteSet(1..Len(list))
  BY <1>1, FS_Interval
<1>3. IsFiniteSet(LegsIn(list))
  BY <1>1, <1>2, FS_Subset
<1> QED BY <1>1, <1>3, FS_CardinalityType, ElementOfSeq

LEMMA RefundAddsNoLeg ==
    ASSUME NEW list \in Seq(ReceiptType), NEW k \in Keys
    PROVE  /\ LegsIn(Append(list, Refund(k))) = LegsIn(list)
           /\ \A i \in LegsIn(list) : Append(list, Refund(k))[i] = list[i]
<1> DEFINE longer == Append(list, Refund(k))
<1>1. Refund(k) \in ReceiptType /\ Refund(k).kind = "refund"
  BY DEF Refund, ReceiptType, Keys
<1>2. /\ Len(longer) = Len(list) + 1 /\ Len(list) \in Nat
      /\ longer[Len(list) + 1] = Refund(k)
      /\ \A i \in 1..Len(list) : longer[i] = list[i]
  BY <1>1
<1> HIDE DEF longer
<1>3. LegsIn(longer) = LegsIn(list)
  BY <1>1, <1>2 DEF LegsIn
<1> QED BY <1>2, <1>3, LegsInFacts DEF longer

LEMMA LegAddsOne ==
    ASSUME NEW list \in Seq(ReceiptType), NEW k \in Keys, NEW cycle \in Nat
    PROVE  /\ LegsIn(Append(list, Leg(k, cycle))) = LegsIn(list) \cup {Len(list) + 1}
           /\ Cardinality(LegsIn(Append(list, Leg(k, cycle)))) = Cardinality(LegsIn(list)) + 1
           /\ \A i \in LegsIn(list) : Append(list, Leg(k, cycle))[i] = list[i]
           /\ Append(list, Leg(k, cycle))[Len(list) + 1] = Leg(k, cycle)
<1> DEFINE longer == Append(list, Leg(k, cycle))
<1>1. Leg(k, cycle) \in ReceiptType /\ Leg(k, cycle).kind = "leg"
  BY DEF Leg, ReceiptType
<1>2. /\ Len(longer) = Len(list) + 1 /\ Len(list) \in Nat
      /\ longer[Len(list) + 1] = Leg(k, cycle)
      /\ \A i \in 1..Len(list) : longer[i] = list[i]
  BY <1>1
<1> HIDE DEF longer
<1>3. LegsIn(longer) = LegsIn(list) \cup {Len(list) + 1}
  BY <1>1, <1>2 DEF LegsIn
<1>4. Len(list) + 1 \notin LegsIn(list)
  BY <1>2 DEF LegsIn
<1>5. Cardinality(LegsIn(longer)) = Cardinality(LegsIn(list)) + 1
  BY <1>3, <1>4, LegsInFacts, FS_AddElement
<1> QED BY <1>2, <1>3, <1>5, LegsInFacts DEF longer

-----------------------------------------------------------------------------
(* What kinds of steps there are, seen from the loops and the run.         *)

\* Its loops, its run and its legs are what they were.
Quiet ==
    /\ cancelled' = cancelled /\ activeLoop' = activeLoop
    /\ SameRun(run, run')
    /\ \A l \in Keys : loops'[l].pc = loops[l].pc /\ loops'[l].cycle = loops[l].cycle
    /\ receipts' = receipts \/ \E k \in Keys : receipts' = Append(receipts, Refund(k))

\* The invariants the rest of the proof is about, without the withdrawal's.
RunInv ==
    /\ LiveLoopIsTheRuns /\ LiveLoopWakes
    /\ LegsOfEarlierCycles /\ LegsAreOfThisRun

LEMMA QuietKeeps ==
    ASSUME StoreInv, Quiet
    PROVE  RunInv'
<1>1. /\ LegsIn(receipts') = LegsIn(receipts)
      /\ \A i \in LegsIn(receipts) : receipts'[i] = receipts[i]
  <2>1. receipts \in Seq(ReceiptType)
    BY DEF StoreInv, StoreTypeOK
  <2>2. CASE \E k \in Keys : receipts' = Append(receipts, Refund(k))
    BY <2>1, <2>2, RefundAddsNoLeg
  <2>3. CASE receipts' = receipts
    BY <2>3
  <2> QED BY <2>2, <2>3 DEF Quiet
<1>2. \A l \in Keys : IsLive(l)' <=> IsLive(l)
  BY DEF Quiet, IsLive
<1>3. LiveLoopIsTheRuns' /\ LiveLoopWakes'
  BY <1>2 DEF StoreInv, Quiet, SameRun, LiveLoopIsTheRuns, LiveLoopWakes
<1>4. LegsOfEarlierCycles'
  BY <1>1, <1>2 DEF StoreInv, Quiet, LegsOfEarlierCycles
<1>5. LegsAreOfThisRun'
  BY <1>1 DEF StoreInv, Quiet, SameRun, LegsAreOfThisRun
<1> QED BY <1>3, <1>4, <1>5 DEF RunInv

\* Starting, stopping and resetting leave no loop alive.
LEMMA CancelKeeps ==
    ASSUME StoreInv, CancelsLoop,
           \/ run' = NoRun
           \/ /\ run # NoRun /\ run'.id = run.id /\ run'.legs = run.legs
              /\ receipts' = receipts
           \/ run' = run /\ receipts' = receipts
    PROVE  RunInv'
<1>1. \A l \in Keys : ~IsLive(l)'
  BY CancelsLoopFacts DEF StoreInv
<1>2. LegsAreOfThisRun'
  BY DEF StoreInv, LegsAreOfThisRun
<1> QED BY <1>1, <1>2 DEF RunInv, LiveLoopIsTheRuns, LiveLoopWakes, LegsOfEarlierCycles

\* A step of one loop that writes no leg.
LEMMA MoveKeeps ==
    ASSUME StoreInv, NEW l \in Keys, NEW loop \in LoopType, LoopStep(l, loop),
           SameRun(run, run'), receipts' = receipts,
           IsLive(l) =>
               /\ loop.pc \notin {"none", "ended"}
               /\ \/ /\ loop.cycle = loops[l].cycle
                     /\ loop.pc \in Stages => loops[l].pc \in Stages
                  \/ loop.cycle = loops[l].cycle + 1
    PROVE  RunInv'
<1>1. /\ \A k \in Keys : IsLive(k)' <=> IsLive(k)
      /\ \A k \in Keys \ {l} : loops'[k] = loops[k]
      /\ loops'[l] = loop
  BY DEF LoopStep, IsLive, StoreInv, StoreTypeOK
<1>2. LiveLoopIsTheRuns' /\ LiveLoopWakes'
  BY <1>1 DEF StoreInv, SameRun, LiveLoopIsTheRuns, LiveLoopWakes
<1>3. LegsOfEarlierCycles'
  <2>1. receipts \in Seq(ReceiptType) /\ loops[l] \in LoopType /\ LegsOfEarlierCycles
    BY DEF StoreInv, StoreTypeOK
  <2>2. \A i \in LegsIn(receipts) : receipts[i].cycle \in Nat
    BY <2>1, LegsInFacts DEF ReceiptType
  <2>3. loops[l].cycle \in Nat /\ loop.cycle \in Nat
    BY <2>1 DEF LoopType
  <2>4. ASSUME IsLive(l), NEW i \in LegsIn(receipts)
        PROVE  /\ receipts[i].cycle <= loop.cycle
               /\ loop.pc \in Stages => receipts[i].cycle < loop.cycle
    <3>1. /\ receipts[i].cycle <= loops[l].cycle
          /\ loops[l].pc \in Stages => receipts[i].cycle < loops[l].cycle
      BY <2>1, <2>4 DEF LegsOfEarlierCycles
    <3> QED BY <2>2, <2>3, <2>4, <3>1
  <2> QED BY <1>1, <2>1, <2>4 DEF LegsOfEarlierCycles
<1>4. LegsAreOfThisRun'
  BY DEF StoreInv, SameRun, LegsAreOfThisRun
<1> QED BY <1>2, <1>3, <1>4 DEF RunInv

-----------------------------------------------------------------------------
(* Every step keeps the invariants.                                        *)

LEMMA UserKeepsRun ==
    ASSUME StoreInv, UserStep
    PROVE  RunInv'
<1>1. ASSUME NEW k \in Keys, NEW a \in Agents, NEW w \in Wallets, StartAgent(k, a, w)
      PROVE  RunInv'
  BY <1>1, CancelKeeps DEF StartAgent
<1>2. CASE StopAgent
  <2>1. run \in RunType /\ run # NoRun
    BY <1>2 DEF StopAgent, OurMode, StoreInv, StoreTypeOK
  <2>2. run'.id = run.id /\ run'.legs = run.legs
    BY <1>2, <2>1 DEF StopAgent, RunType
  <2> QED BY <1>2, <2>1, <2>2, CancelKeeps DEF StopAgent
<1>3. ASSUME NEW j \in Jobs, WithdrawSessionKey(j)
      PROVE  RunInv'
  BY <1>3, QuietKeeps DEF WithdrawSessionKey, Quiet, SameRun
<1>4. CASE RunReplay
  <2>1. SameRun(run, run')
    BY <1>4, StagedFacts, StageFacts DEF RunReplay, StoreInv, StoreTypeOK, StageStates
  <2> QED BY <1>4, <2>1, QuietKeeps DEF RunReplay, Quiet
<1>5. CASE ResetAgent
  BY <1>5, CancelKeeps DEF ResetAgent
<1>6. ASSUME NEW w \in Wallets, ClearForWallet(w)
      PROVE  RunInv'
  BY <1>6, QuietKeeps DEF ClearForWallet, Quiet, SameRun
<1> QED BY <1>1, <1>2, <1>3, <1>4, <1>5, <1>6 DEF UserStep

\* The confirmed start takes the store and the loops over at once.
LEMMA DelegationKeepsRun ==
    ASSUME StoreInv, NEW k \in Keys, DelegationAnswered(k)
    PROVE  RunInv'
<1>1. CASE DelegationSent(k) \/ DelegationFails(k)
  BY <1>1, QuietKeeps DEF DelegationSent, DelegationFails, Quiet, SameRun
<1>2. CASE DelegationConfirmed(k)
  <2> DEFINE r == [id |-> k, agent |-> starts[k].agent, wallet |-> starts[k].wallet,
                   mode |-> "running", stages |-> EmptyStages, legs |-> 0]
  <2>1. r \in RunType
    BY <1>2 DEF DelegationConfirmed, StoreInv, StoreTypeOK, RunType, EmptyStages
  <2>2. PICK fresh \in BOOLEAN :
            /\ run' = RunAtTop(r, fresh)
            /\ loops' = [loops EXCEPT ![k] = LoopAtTop(loops[k], fresh)]
    BY <1>2 DEF DelegationConfirmed
  <2>3. r.id = k /\ r.mode = "running" /\ r.legs = 0
    OBVIOUS
  <2> HIDE DEF r
  <2>4. run' # NoRun /\ run'.id = k /\ run'.mode = "running" /\ run'.legs = 0
    BY <2>1, <2>2, <2>3, RunAtTopFacts, RunIsNotNoRun DEF SameRun
  <2>5. loops[k] \in LoopType /\ loops'[k] = LoopAtTop(loops[k], fresh)
    BY <2>2 DEF StoreInv, StoreTypeOK
  <2>6. loops'[k].pc \in Stages \cup {"stale"}
    BY <2>5, LoopAtTopFacts
  <2>7. \A l \in Keys : IsLive(l)' => l = k
    BY <1>2 DEF DelegationConfirmed, IsLive
  <2>8. LegsIn(receipts') = {}
    BY <1>2 DEF DelegationConfirmed, LegsIn
  <2>9. Cardinality(LegsIn(receipts')) = 0
    BY <2>8, FS_EmptySet
  <2>10. LiveLoopIsTheRuns' /\ LiveLoopWakes'
    BY <2>4, <2>6, <2>7, NoStageIsAnEnd DEF LiveLoopIsTheRuns, LiveLoopWakes
  <2>11. LegsOfEarlierCycles'
    BY <2>8 DEF LegsOfEarlierCycles
  <2>12. LegsAreOfThisRun'
    BY <2>4, <2>8, <2>9 DEF LegsAreOfThisRun
  <2> QED BY <2>10, <2>11, <2>12 DEF RunInv
<1> QED BY <1>1, <1>2 DEF DelegationAnswered

LEMMA RecordedKeepsRun ==
    ASSUME StoreInv, NEW l \in Keys, LegRecorded(l)
    PROVE  RunInv'
<1> DEFINE q == Staged(run, "verify", "ok")
           c == loops[l].cycle
<1>1. /\ IsLive(l) /\ loops[l].pc \in Stages /\ loops[l] \in LoopType
      /\ loops' = [loops EXCEPT ![l] = [loops[l] EXCEPT !.pc = "gap"]]
      /\ cancelled' = cancelled /\ activeLoop' = activeLoop
  BY StageFacts DEF LegRecorded, LoopStep, StoreInv, StoreTypeOK
<1>2. run \in RunType /\ run # NoRun /\ run.id = l /\ run.mode = "running"
  BY <1>1 DEF StoreInv, StoreTypeOK, LiveLoopIsTheRuns
<1>3. q \in RunType /\ q # NoRun /\ q.id = l /\ q.mode = "running" /\ q.legs = run.legs
  <2>1. q \in RunType \cup {NoRun} /\ SameRun(run, q)
    BY <1>2, StageFacts, StagedFacts DEF StageStates
  <2> HIDE DEF q
  <2> QED BY <1>2, <2>1 DEF SameRun
<1>4. run' = [q EXCEPT !.legs = @ + 1] /\ receipts' = Append(receipts, Leg(l, c))
  BY <1>2 DEF LegRecorded
<1> HIDE DEF q
<1>5. /\ run' \in RunType /\ run'.id = l /\ run'.mode = "running"
      /\ run'.legs = run.legs + 1
  BY <1>3, <1>4 DEF RunType
<1>6. run' # NoRun
  BY <1>5, RunIsNotNoRun
<1>7. \A k \in Keys : IsLive(k)' => k = l
  BY <1>1 DEF IsLive
<1>8. loops'[l].pc = "gap" /\ loops'[l].cycle = c /\ c \in Nat
  BY <1>1 DEF LoopType, StoreInv, StoreTypeOK
<1>9. LiveLoopIsTheRuns' /\ LiveLoopWakes'
  BY <1>5, <1>6, <1>7, <1>8 DEF LiveLoopIsTheRuns, LiveLoopWakes
<1>10. /\ LegsIn(receipts') = LegsIn(receipts) \cup {Len(receipts) + 1}
       /\ Cardinality(LegsIn(receipts')) = Cardinality(LegsIn(receipts)) + 1
       /\ \A i \in LegsIn(receipts) : receipts'[i] = receipts[i]
       /\ receipts'[Len(receipts) + 1] = Leg(l, c)
  BY <1>4, <1>8, LegAddsOne DEF StoreInv, StoreTypeOK
<1>11. /\ LegsIn(receipts) \subseteq 1..Len(receipts) /\ Len(receipts) \in Nat
       /\ \A i \in LegsIn(receipts) : receipts[i].cycle \in Nat
  BY LegsInFacts DEF StoreInv, StoreTypeOK, ReceiptType
<1>12. Leg(l, c).key = l /\ Leg(l, c).cycle = c
  BY DEF Leg
<1>13. \A i \in LegsIn(receipts) : receipts[i].cycle < c
  BY <1>1 DEF StoreInv, LegsOfEarlierCycles
<1>14. LegsOfEarlierCycles'
  <2>1. \A i \in LegsIn(receipts') : receipts'[i].cycle <= c
    BY <1>8, <1>10, <1>11, <1>12, <1>13
  <2> QED BY <1>7, <1>8, <2>1, NoStageIsAnEnd DEF LegsOfEarlierCycles
<1>15. LegsAreOfThisRun'
  <2>1. /\ Cardinality(LegsIn(receipts)) = run.legs
        /\ \A i \in LegsIn(receipts) : receipts[i].key = l
        /\ \A i, j \in LegsIn(receipts) : i < j => receipts[i].cycle < receipts[j].cycle
    BY <1>2 DEF StoreInv, LegsAreOfThisRun
  <2>2. Cardinality(LegsIn(receipts')) = run'.legs
    BY <1>5, <1>10, <2>1
  <2>3. \A i \in LegsIn(receipts') : receipts'[i].key = run'.id
    BY <1>5, <1>10, <1>12, <2>1
  <2>4. ASSUME NEW i \in LegsIn(receipts'), NEW j \in LegsIn(receipts'), i < j
        PROVE  receipts'[i].cycle < receipts'[j].cycle
    <3>1. i \in LegsIn(receipts)
      BY <1>10, <1>11, <2>4
    <3>2. CASE j \in LegsIn(receipts)
      BY <1>10, <2>1, <2>4, <3>1, <3>2
    <3>3. CASE j = Len(receipts) + 1
      BY <1>10, <1>12, <1>13, <3>1, <3>3
    <3> QED BY <1>10, <3>2, <3>3
  <2> QED BY <2>2, <2>3, <2>4 DEF LegsAreOfThisRun
<1> QED BY <1>9, <1>14, <1>15 DEF RunInv

LEMMA CyclesKeepRun ==
    ASSUME StoreInv, NEW l \in Keys, Cycles(l)
    PROVE  RunInv'
<1>0. /\ StoreTypeOK /\ loops[l] \in LoopType /\ loops[l].cycle \in Nat
      /\ run \in RunType \cup {NoRun}
      /\ IsLive(l) => run # NoRun
      /\ SameRun(run, run)
  BY DEF StoreInv, StoreTypeOK, LoopType, LiveLoopIsTheRuns, SameRun
<1>1. ASSUME NEW pc \in Stages \cup {"gap"}
      PROVE  /\ [loops[l] EXCEPT !.pc = pc] \in LoopType
             /\ [loops[l] EXCEPT !.pc = pc].pc = pc
             /\ [loops[l] EXCEPT !.pc = pc].cycle = loops[l].cycle
             /\ pc \notin {"none", "ended"}
  BY <1>0, NoStageIsAnEnd DEF LoopType
<1>2. CASE WakesDead(l)
  BY <1>0, <1>2, OverFacts, MoveKeeps DEF WakesDead
<1>3. CASE NextCycle(l)
  <2>1. PICK fresh \in BOOLEAN :
            /\ LoopStep(l, IF fresh /\ run = NoRun THEN Over ELSE LoopAtTop(loops[l], fresh))
            /\ run' = RunAtTop(run, fresh)
    BY <1>3 DEF NextCycle
  <2>2. IsLive(l) /\ receipts' = receipts /\ loops[l].pc \notin {"none", "ended"}
    BY <1>3 DEF NextCycle
  <2>3. LoopStep(l, LoopAtTop(loops[l], fresh))
    BY <1>0, <2>1, <2>2
  <2>4. SameRun(run, run')
    BY <1>0, <2>1, RunAtTopFacts
  <2>5. /\ LoopAtTop(loops[l], fresh) \in LoopType
        /\ LoopAtTop(loops[l], fresh).pc \in Stages \cup {"stale"}
        /\ fresh => LoopAtTop(loops[l], fresh).cycle = loops[l].cycle + 1
        /\ ~fresh => /\ LoopAtTop(loops[l], fresh).cycle = loops[l].cycle
                     /\ LoopAtTop(loops[l], fresh).pc = "stale"
    BY <1>0, LoopAtTopFacts
  <2> QED BY <2>2, <2>3, <2>4, <2>5, NoStageIsAnEnd, MoveKeeps
<1>4. CASE StageDone(l)
  <2>1. PICK i \in 1..Sleeps :
            /\ loops[l].pc = StageIds[i]
            /\ LoopStep(l, [loops[l] EXCEPT !.pc = StageIds[i + 1]])
            /\ run' = Staged(Staged(run, StageIds[i], "ok"), StageIds[i + 1], "active")
            /\ receipts' = receipts
    BY <1>4 DEF StageDone
  <2>2. StageIds[i] \in Stages /\ StageIds[i + 1] \in Stages
    BY StageFacts
  <2>3. SameRun(run, run')
    BY <1>0, <2>1, <2>2, TwiceStagedFacts DEF StageStates
  <2> QED BY <1>1, <2>1, <2>2, <2>3, MoveKeeps
<1>5. CASE LegSent(l)
  <2>1. [loops[l] EXCEPT !.tx = "inflight"] \in LoopType
    BY <1>0 DEF LoopType, TxStates
  <2>2. loops[l].pc \notin {"none", "ended"} /\ SameRun(run, run') /\ receipts' = receipts
    BY <1>0, <1>5 DEF LegSent
  <2>3. /\ [loops[l] EXCEPT !.tx = "inflight"].pc = loops[l].pc
        /\ [loops[l] EXCEPT !.tx = "inflight"].cycle = loops[l].cycle
    BY <1>0 DEF LoopType
  <2> QED BY <1>5, <2>1, <2>2, <2>3, MoveKeeps DEF LegSent
<1>6. CASE LegConfirmed(l)
  <2>1. /\ "verify" \in Stages /\ "broadcast" \in Stages /\ loops[l].pc = "broadcast"
        /\ receipts' = receipts
    BY <1>6, StageFacts DEF LegConfirmed
  <2>2. CASE IsLive(l)
    <3>1. /\ run' = Staged(Staged(run, "broadcast", "ok"), "verify", "active")
          /\ LoopStep(l, [loops[l] EXCEPT !.pc = "verify"])
      BY <1>6, <2>2 DEF LegConfirmed
    <3>2. SameRun(run, run')
      BY <1>0, <2>1, <3>1, TwiceStagedFacts DEF StageStates
    <3> QED BY <1>1, <2>1, <3>1, <3>2, MoveKeeps
  <2>3. CASE ~IsLive(l)
    BY <1>0, <1>6, <2>1, <2>3, OverFacts, MoveKeeps DEF LegConfirmed
  <2> QED BY <2>2, <2>3
<1>7. CASE LegThrows(l)
  <2>1. "broadcast" \in Stages /\ receipts' = receipts
    BY <1>7, StageFacts DEF LegThrows
  <2>2. CASE IsLive(l)
    <3>1. /\ run' = Staged(run, "broadcast", "rejected")
          /\ LoopStep(l, [loops[l] EXCEPT !.pc = "gap"])
      BY <1>7, <2>2 DEF LegThrows
    <3>2. SameRun(run, run')
      BY <1>0, <2>1, <3>1, StagedFacts DEF StageStates
    <3> QED BY <1>1, <2>1, <3>1, <3>2, NoStageIsAnEnd, MoveKeeps
  <2>3. CASE ~IsLive(l)
    BY <1>0, <1>7, <2>1, <2>3, OverFacts, MoveKeeps DEF LegThrows
  <2> QED BY <2>2, <2>3
<1>8. CASE LegRecorded(l)
  BY <1>8, RecordedKeepsRun
<1> QED BY <1>2, <1>3, <1>4, <1>5, <1>6, <1>7, <1>8 DEF Cycles

\* The replay's verdict shows in the stages only.
LEMMA VerdictFacts ==
    ASSUME run \in RunType \cup {NoRun}, ReplayVerdict
    PROVE  SameRun(run, run')
<1>1. CASE run = NoRun
  BY <1>1 DEF ReplayVerdict, SameRun
<1>2. CASE run # NoRun
  <2> DEFINE q == [run EXCEPT !.stages["broadcast"] = "rejected",
                              !.stages["verify"] = "rejected"]
  <2>1. run \in RunType /\ run' = q
    BY <1>2 DEF ReplayVerdict
  <2>2. q \in RunType /\ q.id = run.id /\ q.mode = run.mode /\ q.legs = run.legs
    BY <2>1, StageFacts DEF RunType
  <2> HIDE DEF q
  <2> QED BY <1>2, <2>1, <2>2, RunIsNotNoRun DEF SameRun
<1> QED BY <1>1, <1>2

\* The rest does not touch a loop's state, nor the run but for what it shows.
LEMMA RestKeepsRun ==
    ASSUME StoreInv,
           \/ ReplayVerdict \/ Lands \/ vars' = vars
           \/ \E j \in Jobs : WithdrawalAnswered(j)
    PROVE  RunInv'
<1>1. CASE ReplayVerdict
  <2>1. SameRun(run, run')
    BY <1>1, VerdictFacts DEF StoreInv, StoreTypeOK
  <2> QED BY <1>1, <2>1, QuietKeeps DEF ReplayVerdict, Quiet
<1>2. ASSUME NEW k \in Keys, DelegationLands(k) \/ LegLands(k) \/ OrphanLands(k)
      PROVE  RunInv'
  <2>1. \A l \in Keys : loops'[l].pc = loops[l].pc /\ loops'[l].cycle = loops[l].cycle
    <3>1. loops \in [Keys -> LoopType] /\ loops[k] \in LoopType
      BY DEF StoreInv, StoreTypeOK
    <3>2. CASE loops' = loops
      BY <3>2
    <3>3. CASE LegLands(k)
      <4>1. loops' = [loops EXCEPT ![k] = [loops[k] EXCEPT !.tx = "landed"]]
        BY <3>1, <3>3 DEF LegLands
      <4> QED BY <3>1, <4>1 DEF LoopType
    <3> QED BY <1>2, <3>2, <3>3 DEF DelegationLands, OrphanLands
  <2> QED BY <1>2, <2>1, QuietKeeps
          DEF DelegationLands, LegLands, OrphanLands, ChainStep, Quiet, SameRun
<1>3. ASSUME NEW j \in Jobs, WithdrawalLands(j)
      PROVE  RunInv'
  BY <1>3, QuietKeeps DEF WithdrawalLands, ChainStep, Quiet, SameRun
<1>4. ASSUME NEW j \in Jobs, WithdrawalAnswered(j)
      PROVE  RunInv'
  <2>1. WithdrawalConfirmed(j) => withdrawals[j].key \in Keys
    BY DEF WithdrawalConfirmed, StoreInv, StoreTypeOK
  <2>2. WithdrawalConfirmed(j) => \E k \in Keys : receipts' = Append(receipts, Refund(k))
    BY <2>1 DEF WithdrawalConfirmed
  <2> QED BY <1>4, <2>2, QuietKeeps
          DEF WithdrawalAnswered, BalanceRead, WithdrawalSent, WithdrawalConfirmed,
              WithdrawalFails, WithdrawalStep, Quiet, SameRun
<1>5. CASE vars' = vars
  BY <1>5, QuietKeeps DEF vars, Quiet, SameRun
<1> QED BY <1>1, <1>2, <1>3, <1>4, <1>5 DEF Lands

\* A withdrawal that shows as running has a call behind it.
LEMMA WithdrawStep ==
    ASSUME StoreInv, [Next]_vars
    PROVE  WithdrawAwaited'
<1> DEFINE UnderWay == {j \in Jobs : withdrawals[j].pc \in {"reading", "sending", "sent"}}
<1>0. /\ withdrawals \in [Jobs -> WithdrawalType]
      /\ withdraw = "running" => UnderWay # {}
  BY DEF StoreInv, StoreTypeOK, WithdrawAwaited
<1>1. ASSUME \A j \in Jobs : withdrawals'[j].pc = withdrawals[j].pc, withdraw' # "running" \/ withdraw' = withdraw
      PROVE  WithdrawAwaited'
  BY <1>0, <1>1 DEF WithdrawAwaited
<1>2. CASE UserStep
  <2>1. ASSUME NEW j \in Jobs, WithdrawSessionKey(j)
        PROVE  WithdrawAwaited'
    <3>1. withdrawals'[j].pc = "reading"
      BY <1>0, <2>1 DEF WithdrawSessionKey
    <3> QED BY <3>1 DEF WithdrawAwaited
  <2>2. CASE \/ \E k \in Keys, a \in Agents, w \in Wallets : StartAgent(k, a, w)
             \/ StopAgent \/ RunReplay \/ ResetAgent
             \/ \E w \in Wallets : ClearForWallet(w)
    BY <1>1, <2>2 DEF StartAgent, StopAgent, RunReplay, ResetAgent, ClearForWallet
  <2> QED BY <1>2, <2>1, <2>2 DEF UserStep
<1>3. ASSUME NEW j \in Jobs, WithdrawalAnswered(j)
      PROVE  WithdrawAwaited'
  <2>1. CASE BalanceRead(j) \/ WithdrawalSent(j)
    <3>1. withdrawals'[j].pc \in {"reading", "sending", "sent"}
      <4>1. withdrawals[j] \in WithdrawalType
        BY <1>0
      <4>2. CASE BalanceRead(j)
        BY <1>0, <4>1, <4>2 DEF BalanceRead, WithdrawalStep, WithdrawalType
      <4>3. CASE WithdrawalSent(j)
        BY <1>0, <4>1, <4>3 DEF WithdrawalSent, WithdrawalStep, WithdrawalType
      <4> QED BY <2>1, <4>2, <4>3
    <3> QED BY <3>1 DEF WithdrawAwaited
  <2>2. CASE WithdrawalConfirmed(j) \/ WithdrawalFails(j)
    BY <2>2 DEF WithdrawalConfirmed, WithdrawalFails, WithdrawAwaited
  <2> QED BY <1>3, <2>1, <2>2 DEF WithdrawalAnswered
<1>4. CASE Lands
  <2>1. \A j \in Jobs : withdrawals'[j].pc = withdrawals[j].pc
    BY <1>0, <1>4 DEF Lands, DelegationLands, LegLands, OrphanLands, WithdrawalLands, WithdrawalType
  <2>2. withdraw' = withdraw
    BY <1>4 DEF Lands, DelegationLands, LegLands, OrphanLands, WithdrawalLands, ChainStep
  <2> QED BY <1>1, <2>1, <2>2
<1>5. ASSUME NEW k \in Keys, DelegationAnswered(k) \/ Cycles(k)
      PROVE  WithdrawAwaited'
  BY <1>1, <1>5
     DEF DelegationAnswered, DelegationSent, DelegationConfirmed, DelegationFails, Cycles,
         WakesDead, NextCycle, StageDone, LegSent, LegConfirmed, LegThrows, LegRecorded, LoopStep
<1>6. CASE ReplayVerdict \/ UNCHANGED vars
  BY <1>1, <1>6 DEF ReplayVerdict, vars
<1> QED BY <1>2, <1>3, <1>4, <1>5, <1>6 DEF Next

-----------------------------------------------------------------------------

LEMMA StoreInit == Init => StoreInv
<1> SUFFICES ASSUME Init PROVE StoreInv
  OBVIOUS
<1>1. StoreTypeOK
  BY StoreAssumption
     DEF Init, StoreTypeOK, StartType, LoopType, WithdrawalType, TxStates, Keys
<1>2. \A l \in Keys : ~IsLive(l)
  BY DEF Init, IsLive, Keys, NoKey
<1>3. LegsAreOfThisRun /\ WithdrawAwaited
  BY DEF Init, LegsAreOfThisRun, WithdrawAwaited
<1> QED BY <1>1, <1>2, <1>3
        DEF StoreInv, LiveLoopIsTheRuns, LiveLoopWakes, LegsOfEarlierCycles

LEMMA StoreStep == StoreInv /\ [Next]_vars => StoreInv'
<1> SUFFICES ASSUME StoreInv, [Next]_vars PROVE StoreInv'
  OBVIOUS
<1>1. StoreTypeOK' /\ WithdrawAwaited'
  BY TypeStep, WithdrawStep DEF StoreInv
<1>2. RunInv'
  BY UserKeepsRun, DelegationKeepsRun, CyclesKeepRun, RestKeepsRun DEF Next
<1> QED BY <1>1, <1>2 DEF StoreInv, RunInv

THEOREM StoreInvariance == Spec => []StoreInv
BY StoreInit, StoreStep, PTL DEF Spec

\* A loop goes on signing with a session key only for the run the store shows as
\* running, however starts, stops and resets overlap (execution-store.ts:565-599).
THEOREM LiveLoopIsTheRunsHolds == Spec => []LiveLoopIsTheRuns
BY StoreInvariance, PTL DEF StoreInv

\* The receipts of a run are the legs of its own key, one for each cycle counted
\* (execution-store.ts:748-767).
THEOREM LegsAreOfThisRunHolds == Spec => []LegsAreOfThisRun
BY StoreInvariance, PTL DEF StoreInv

\* A withdrawal that disables its button has a call that will answer
\* (execution-store.ts:416-465).
THEOREM WithdrawAwaitedHolds == Spec => []WithdrawAwaited
BY StoreInvariance, PTL DEF StoreInv

-----------------------------------------------------------------------------
(* The list of runs.                                                       *)

\* No run is listed twice.
Distinct(entries) ==
    \A i, j \in 1..Len(entries) : entries[i].id = entries[j].id => i = j

\* Every entry of the one list is an entry of the other.
Within(list, entries) ==
    /\ list \in Seq(EntryType)
    /\ \A n \in 1..Len(list) : \E i \in 1..Len(entries) : list[n] = entries[i]
    /\ Distinct(entries) => Distinct(list)

\* What is listed of the present run agrees with the store; a start that is listed, or
\* the store's run, was confirmed, and so will not be once more; what is listed as
\* stopped does not run.
ListInv ==
    /\ portfolio \in Seq(EntryType)
    /\ Distinct(portfolio)
    /\ \A i \in 1..Len(portfolio) : starts[portfolio[i].id].pc = "done"
    /\ run # NoRun => starts[run.id].pc = "done"
    /\ run # NoRun =>
          \A i \in 1..Len(portfolio) :
              portfolio[i].id = run.id /\ portfolio[i].status = "stopped"
                  => run.mode = "stopped"
    /\ PortfolioInStep

LEMMA UpsertedFacts ==
    ASSUME NEW entries \in Seq(EntryType), NEW e \in EntryType
    PROVE  /\ Upserted(entries, e) \in Seq(EntryType)
           /\ \A n \in 1..Len(Upserted(entries, e)) :
                 \/ Upserted(entries, e)[n] = e
                 \/ /\ Upserted(entries, e)[n].id # e.id
                    /\ \E i \in 1..Len(entries) : Upserted(entries, e)[n] = entries[i]
           /\ Distinct(entries) => Distinct(Upserted(entries, e))
<1> DEFINE up == Upserted(entries, e)
<1>0. /\ Len(entries) \in Nat
      /\ \A i \in 1..Len(entries) : entries[i] \in EntryType
  BY ElementOfSeq
<1>1. CASE \E i \in 1..Len(entries) : entries[i].id = e.id
  <2>1. up = [i \in 1..Len(entries) |-> IF entries[i].id = e.id THEN e ELSE entries[i]]
    BY <1>1 DEF Upserted
  <2> HIDE DEF up
  <2>2. /\ up \in Seq(EntryType) /\ Len(up) = Len(entries)
        /\ \A i \in 1..Len(entries) : up[i] = IF entries[i].id = e.id THEN e ELSE entries[i]
    BY <1>0, <2>1
  <2>3. \A i \in 1..Len(entries) : up[i].id = entries[i].id
    BY <2>2
  <2>4. Distinct(entries) => Distinct(up)
    BY <2>2, <2>3 DEF Distinct
  <2> QED BY <2>2, <2>4 DEF up
<1>2. CASE ~\E i \in 1..Len(entries) : entries[i].id = e.id
  <2> DEFINE long == <<e>> \o entries
             n == IF Len(entries) < Capacity THEN Len(entries) + 1 ELSE Capacity
  <2>1. up = SubSeq(long, 1, n)
    BY <1>2 DEF Upserted
  <2>2. /\ long \in Seq(EntryType) /\ Len(long) = Len(entries) + 1
        /\ long[1] = e
        /\ \A i \in 2..(Len(entries) + 1) : long[i] = entries[i - 1]
    <3>1. <<e>> \in Seq(EntryType) /\ Len(<<e>>) = 1 /\ <<e>>[1] = e
      OBVIOUS
    <3> QED BY <1>0, <3>1, ConcatProperties
  <2>3. n \in 1..(Len(entries) + 1)
    BY <1>0, StoreAssumption
  <2> HIDE DEF up, long, n
  <2>4. up \in Seq(EntryType) /\ Len(up) = n /\ \A i \in 1..n : up[i] = long[i]
    BY <1>0, <2>1, <2>2, <2>3, SubSeqProperties
  <2>5. \A i \in 1..n : i # 1 =>
            /\ i - 1 \in 1..Len(entries)
            /\ up[i] = entries[i - 1]
    BY <1>0, <2>2, <2>3, <2>4
  <2>6. up[1] = e
    BY <1>0, <2>2, <2>3, <2>4
  <2>7. \A i \in 1..n : i # 1 => up[i].id # e.id
    BY <1>2, <2>5
  <2>8. Distinct(entries) => Distinct(up)
    <3> SUFFICES ASSUME Distinct(entries), NEW i \in 1..n, NEW j \in 1..n, up[i].id = up[j].id
                 PROVE  i = j
      BY <2>4 DEF Distinct
    <3>1. CASE i = 1 \/ j = 1
      BY <2>6, <2>7, <3>1
    <3>2. CASE i # 1 /\ j # 1
      <4>1. i - 1 = j - 1
        BY <2>5, <3>2 DEF Distinct
      <4> QED BY <2>3, <4>1
    <3> QED BY <3>1, <3>2
  <2> QED BY <2>4, <2>5, <2>6, <2>7, <2>8 DEF up
<1> QED BY <1>1, <1>2

\* Clear leaves entries of the list, each once.
LEMMA ClearedFacts ==
    ASSUME portfolio \in Seq(EntryType), NEW w \in Wallets, ClearForWallet(w)
    PROVE  Within(portfolio', portfolio)
<1> DEFINE others == {i \in 1..Len(portfolio) : portfolio[i].wallet # w}
           count == Cardinality(others)
<1>1. Len(portfolio) \in Nat /\ \A i \in 1..Len(portfolio) : portfolio[i] \in EntryType
  BY ElementOfSeq
<1>2. count \in Nat
  <2>1. IsFiniteSet(1..Len(portfolio)) /\ others \subseteq 1..Len(portfolio)
    BY <1>1, FS_Interval
  <2>2. IsFiniteSet(others)
    BY <2>1, FS_Subset
  <2> HIDE DEF others
  <2> QED BY <2>2, FS_CardinalityType
<1>3. PICK place \in [1..count -> others] :
          /\ \A i, j \in 1..count : i < j => place[i] < place[j]
          /\ portfolio' = [i \in 1..count |-> portfolio[place[i]]]
  BY DEF ClearForWallet
<1>4. \A i \in 1..count : place[i] \in 1..Len(portfolio)
  BY <1>3
<1> HIDE DEF others, count
<1>5. /\ portfolio' \in Seq(EntryType) /\ Len(portfolio') = count
      /\ \A i \in 1..count : portfolio'[i] = portfolio[place[i]]
  BY <1>1, <1>2, <1>3, <1>4
<1>6. ASSUME Distinct(portfolio), NEW i \in 1..count, NEW j \in 1..count,
             portfolio'[i].id = portfolio'[j].id
      PROVE  i = j
  <2>1. place[i] = place[j]
    BY <1>4, <1>5, <1>6 DEF Distinct
  <2>2. ~(place[i] < place[j]) /\ ~(place[j] < place[i])
    BY <1>1, <1>4, <2>1
  <2>3. ~(i < j) /\ ~(j < i)
    BY <1>3, <2>2
  <2> QED BY <1>2, <2>3
<1>7. Distinct(portfolio) => Distinct(portfolio')
  BY <1>5, <1>6 DEF Distinct
<1> QED BY <1>4, <1>5, <1>7 DEF Within

\* A beginning of a list is one of a longer list.
LEMMA BeginningFacts ==
    ASSUME NEW list \in Seq(ReceiptType)
    PROVE  /\ \E n \in 0..Len(list) : list = SubSeq(list, 1, n)
           /\ \A x \in ReceiptType, n \in 0..Len(list) :
                 /\ n \in 0..Len(Append(list, x))
                 /\ SubSeq(Append(list, x), 1, n) = SubSeq(list, 1, n)
<1>1. SubSeq(list, 1, Len(list)) = list /\ Len(list) \in Nat
  BY SubSeqFull
<1>3. \E n \in 0..Len(list) : list = SubSeq(list, 1, n)
  <2>1. Len(list) \in 0..Len(list) /\ list = SubSeq(list, 1, Len(list))
    BY <1>1
  <2> QED BY <2>1, Zenon
<1>2. ASSUME NEW x \in ReceiptType, NEW n \in 0..Len(list)
      PROVE  /\ n \in 0..Len(Append(list, x))
             /\ SubSeq(Append(list, x), 1, n) = SubSeq(list, 1, n)
  <2> DEFINE longer == Append(list, x)
  <2>1. /\ longer \in Seq(ReceiptType) /\ Len(longer) = Len(list) + 1
        /\ \A i \in 1..Len(list) : longer[i] = list[i]
    OBVIOUS
  <2> HIDE DEF longer
  <2>2. /\ n \in Int /\ n <= Len(longer) /\ n \in 0..Len(longer)
        /\ \A i \in 1..n : longer[i] = list[i]
    BY <1>1, <2>1
  <2>3. /\ SubSeq(longer, 1, n) = [i \in 1..n |-> longer[i]]
        /\ SubSeq(list, 1, n) = [i \in 1..n |-> list[i]]
    BY <1>1, <2>1, <2>2, SubSeqRestrict DEF Restrict
  <2> QED BY <2>2, <2>3 DEF longer
<1> QED BY <1>2, <1>3, Zenon

LEMMA UnchangedIsWithin ==
    ASSUME portfolio \in Seq(EntryType), portfolio' = portfolio
    PROVE  Within(portfolio', portfolio)
BY DEF Within, Distinct

-----------------------------------------------------------------------------
(* What kinds of steps there are, seen from the list.                      *)

\* The store's run stays the same one, or goes; once stopped, it stays stopped.
RunGoesOn ==
    \/ run' = NoRun
    \/ /\ run # NoRun /\ run'.id = run.id
       /\ run.mode = "stopped" => run'.mode = "stopped"

\* No start that was answered is asked again.
StartsGoOn == \A k \in Keys : starts[k].pc = "done" => starts'[k].pc = "done"

ReceiptsGoOn ==
    receipts' = receipts \/ \E x \in ReceiptType : receipts' = Append(receipts, x)

\* What the list should show is what it was, and nothing is added to it.
ListsNothing ==
    /\ RunGoesOn /\ StartsGoOn
    /\ Within(portfolio', portfolio)
    /\ run' # NoRun =>
          /\ ReceiptsGoOn
          /\ receipt' # NoKey =>
                receipts' = receipts /\ receipt' = receipt /\ run'.mode = run.mode

\* The present run is listed, with what the store holds after the step.
ListsRun(status) ==
    /\ RunGoesOn /\ StartsGoOn /\ ReceiptsGoOn
    /\ UpsertsRun(status)
    /\ status \in {"running", "stopped", "withdrawn"}
    /\ run' # NoRun /\ status = "running" => run.mode = "running"
    /\ run' # NoRun =>
          status = run'.mode \/ (status = "withdrawn" /\ EndsInRefund')

\* A start is confirmed and its run listed.
ListsNewRun ==
    /\ run' # NoRun /\ starts[run'.id].pc = "sent" /\ starts'[run'.id].pc = "done"
    /\ StartsGoOn
    /\ UpsertsRun("running") /\ run'.mode = "running"

\* The step that StoppedStaysStopped speaks of.
NoneComesBack ==
    \A i \in 1..Len(portfolio), j \in 1..Len(portfolio') :
        portfolio[i].id = portfolio'[j].id /\ portfolio[i].status = "stopped"
            => portfolio'[j].status # "running"

LEMMA ListedIds ==
    ASSUME portfolio \in Seq(EntryType)
    PROVE  \A i \in 1..Len(portfolio) : portfolio[i].id \in Keys
<1>1. \A i \in 1..Len(portfolio) : portfolio[i] \in EntryType
  BY ElementOfSeq
<1> QED BY <1>1 DEF EntryType

LEMMA ListsNothingKeeps ==
    ASSUME StoreTypeOK, ListInv, ListsNothing
    PROVE  ListInv' /\ NoneComesBack
<1>1. /\ portfolio' \in Seq(EntryType) /\ Distinct(portfolio')
      /\ \A n \in 1..Len(portfolio') : \E i \in 1..Len(portfolio) : portfolio'[n] = portfolio[i]
  BY DEF ListInv, ListsNothing, Within
<1>2. \A i \in 1..Len(portfolio) : portfolio[i].id \in Keys
  BY ListedIds DEF ListInv
<1>3. \A n \in 1..Len(portfolio') : starts'[portfolio'[n].id].pc = "done"
  BY <1>1, <1>2 DEF ListInv, ListsNothing, StartsGoOn
<1>4. run' # NoRun => /\ run # NoRun /\ run'.id = run.id /\ run.id \in Keys
                      /\ run.mode = "stopped" => run'.mode = "stopped"
  BY DEF ListsNothing, RunGoesOn, StoreTypeOK, RunType
<1>5. run' # NoRun => starts'[run'.id].pc = "done"
  BY <1>4 DEF ListInv, ListsNothing, StartsGoOn
<1>6. run' # NoRun =>
          \A n \in 1..Len(portfolio') :
              portfolio'[n].id = run'.id /\ portfolio'[n].status = "stopped"
                  => run'.mode = "stopped"
  BY <1>1, <1>4 DEF ListInv
<1>7. PortfolioInStep'
  <2>1. \A i, j \in 1..Len(portfolio') : portfolio'[i].id = portfolio'[j].id => i = j
    BY <1>1 DEF Distinct
  <2>2. ASSUME run' # NoRun, NEW n \in 1..Len(portfolio'), portfolio'[n].id = run'.id
        PROVE  /\ \E m \in 0..Len(receipts') :
                     portfolio'[n].receipts = SubSeq(receipts', 1, m)
               /\ receipt' # NoKey =>
                     /\ portfolio'[n].receipts = receipts'
                     /\ \/ portfolio'[n].status = run'.mode
                        \/ portfolio'[n].status = "withdrawn" /\ EndsInRefund'
    <3>1. PICK i \in 1..Len(portfolio) : portfolio'[n] = portfolio[i]
      BY <1>1
    <3>2. run # NoRun /\ portfolio[i].id = run.id
      BY <1>4, <2>2, <3>1
    <3>3. PICK m \in 0..Len(receipts) : portfolio[i].receipts = SubSeq(receipts, 1, m)
      BY <3>2 DEF ListInv, PortfolioInStep
    <3>4. receipts \in Seq(ReceiptType) /\ ReceiptsGoOn
      BY <2>2 DEF StoreTypeOK, ListsNothing
    <3>5. m \in 0..Len(receipts') /\ SubSeq(receipts', 1, m) = SubSeq(receipts, 1, m)
      <4>1. CASE receipts' = receipts
        BY <4>1
      <4>2. ASSUME NEW x \in ReceiptType, receipts' = Append(receipts, x)
            PROVE  /\ m \in 0..Len(receipts')
                   /\ SubSeq(receipts', 1, m) = SubSeq(receipts, 1, m)
        BY <3>4, <4>2, BeginningFacts, Zenon
      <4> QED BY <3>4, <4>1, <4>2 DEF ReceiptsGoOn
    <3>6. ASSUME receipt' # NoKey
          PROVE  /\ portfolio'[n].receipts = receipts'
                 /\ \/ portfolio'[n].status = run'.mode
                    \/ portfolio'[n].status = "withdrawn" /\ EndsInRefund'
      <4>1. receipts' = receipts /\ receipt' = receipt /\ run'.mode = run.mode
        BY <2>2, <3>6 DEF ListsNothing
      <4>2. /\ portfolio[i].receipts = receipts
            /\ \/ portfolio[i].status = run.mode
               \/ portfolio[i].status = "withdrawn" /\ EndsInRefund
        BY <3>2, <3>6, <4>1 DEF ListInv, PortfolioInStep
      <4> QED BY <3>1, <4>1, <4>2 DEF EndsInRefund
    <3> QED BY <3>1, <3>3, <3>5, <3>6
  <2> QED BY <2>1, <2>2 DEF PortfolioInStep
<1>8. NoneComesBack
  <2> SUFFICES ASSUME NEW i \in 1..Len(portfolio), NEW j \in 1..Len(portfolio'),
                      portfolio[i].id = portfolio'[j].id, portfolio[i].status = "stopped"
               PROVE  portfolio'[j].status # "running"
    BY DEF NoneComesBack
  <2>1. PICK m \in 1..Len(portfolio) : portfolio'[j] = portfolio[m]
    BY <1>1
  <2>2. m = i
    BY <2>1 DEF ListInv, Distinct
  <2> QED BY <2>1, <2>2
<1> QED BY <1>1, <1>3, <1>5, <1>6, <1>7, <1>8 DEF ListInv

\* What an upsert lists.
Entry(status) ==
    [id |-> run'.id, agent |-> run'.agent, wallet |-> run'.wallet,
     status |-> status, receipts |-> receipts']

LEMMA UpsertsRunFacts ==
    ASSUME ListInv, StoreTypeOK', NEW status \in {"running", "stopped", "withdrawn"},
           UpsertsRun(status), run' # NoRun, receipt' # NoKey
    PROVE  /\ portfolio' \in Seq(EntryType) /\ Distinct(portfolio')
           /\ run'.id \in Keys
           /\ \A n \in 1..Len(portfolio') :
                 \/ /\ portfolio'[n].id = run'.id /\ portfolio'[n].status = status
                    /\ portfolio'[n].receipts = receipts'
                 \/ /\ portfolio'[n].id # run'.id
                    /\ \E i \in 1..Len(portfolio) : portfolio'[n] = portfolio[i]
<1>1. run' \in RunType /\ receipts' \in Seq(ReceiptType)
  BY DEF StoreTypeOK
<1>2. Entry(status) \in EntryType
  BY <1>1 DEF Entry, EntryType, RunType
<1>3. /\ Entry(status).id = run'.id /\ Entry(status).status = status
      /\ Entry(status).receipts = receipts'
  BY DEF Entry
<1>4. portfolio' = Upserted(portfolio, Entry(status))
  BY DEF UpsertsRun, Entry
<1>5. portfolio \in Seq(EntryType) /\ Distinct(portfolio)
  BY DEF ListInv
<1>6. run'.id \in Keys
  BY <1>1 DEF RunType
<1> DEFINE e == Entry(status)
<1>7. /\ portfolio' \in Seq(EntryType) /\ Distinct(portfolio')
      /\ \A n \in 1..Len(portfolio') :
            \/ portfolio'[n] = e
            \/ /\ portfolio'[n].id # e.id
               /\ \E i \in 1..Len(portfolio) : portfolio'[n] = portfolio[i]
  <2> HIDE DEF e
  <2>1. e \in EntryType /\ portfolio' = Upserted(portfolio, e)
    BY <1>2, <1>4 DEF e
  <2>2. /\ Upserted(portfolio, e) \in Seq(EntryType)
        /\ Distinct(Upserted(portfolio, e))
        /\ \A n \in 1..Len(Upserted(portfolio, e)) :
              \/ Upserted(portfolio, e)[n] = e
              \/ /\ Upserted(portfolio, e)[n].id # e.id
                 /\ \E i \in 1..Len(portfolio) : Upserted(portfolio, e)[n] = portfolio[i]
    BY <1>5, <2>1, UpsertedFacts, Zenon
  <2> QED BY <2>1, <2>2, Zenon
<1> HIDE DEF Entry
<1> QED BY <1>3, <1>6, <1>7

\* What is listed agrees with the store when every entry of the present run was made
\* of it in this step.
LEMMA ListedAgree ==
    ASSUME StoreTypeOK', Distinct(portfolio'), NEW status,
           status = run'.mode \/ (status = "withdrawn" /\ EndsInRefund'),
           \A n \in 1..Len(portfolio') : portfolio'[n].id = run'.id =>
               portfolio'[n].status = status /\ portfolio'[n].receipts = receipts'
    PROVE  PortfolioInStep'
<1>1. \E m \in 0..Len(receipts') : receipts' = SubSeq(receipts', 1, m)
  BY BeginningFacts DEF StoreTypeOK
<1> QED BY <1>1 DEF PortfolioInStep, Distinct

LEMMA ListsRunKeeps ==
    ASSUME StoreTypeOK, StoreTypeOK', ListInv, NEW status, ListsRun(status)
    PROVE  ListInv' /\ NoneComesBack
<1>1. CASE run' = NoRun \/ receipt' = NoKey
  <2>1. portfolio' = portfolio
    BY <1>1 DEF ListsRun, UpsertsRun
  <2>2. Within(portfolio', portfolio)
    BY <2>1, UnchangedIsWithin DEF ListInv
  <2>3. ListsNothing
    BY <1>1, <2>2 DEF ListsRun, ListsNothing
  <2> QED BY <2>3, ListsNothingKeeps
<1>2. CASE run' # NoRun /\ receipt' # NoKey
  <2>0. /\ status \in {"running", "stopped", "withdrawn"} /\ UpsertsRun(status)
        /\ StartsGoOn
        /\ status = "running" => run.mode = "running"
        /\ status = run'.mode \/ (status = "withdrawn" /\ EndsInRefund')
        /\ run # NoRun /\ run'.id = run.id
    BY <1>2 DEF ListsRun, RunGoesOn
  <2>1. /\ portfolio' \in Seq(EntryType) /\ Distinct(portfolio')
        /\ run'.id \in Keys
        /\ \A n \in 1..Len(portfolio') :
              \/ /\ portfolio'[n].id = run'.id /\ portfolio'[n].status = status
                 /\ portfolio'[n].receipts = receipts'
              \/ /\ portfolio'[n].id # run'.id
                 /\ \E i \in 1..Len(portfolio) : portfolio'[n] = portfolio[i]
    BY <1>2, <2>0, UpsertsRunFacts
  <2>2. \A i \in 1..Len(portfolio) : portfolio[i].id \in Keys
    BY ListedIds DEF ListInv
  <2>3. starts'[run'.id].pc = "done"
    BY <2>0, <2>1 DEF ListInv, StartsGoOn
  <2>4. \A n \in 1..Len(portfolio') : starts'[portfolio'[n].id].pc = "done"
    BY <2>0, <2>1, <2>2, <2>3 DEF ListInv, StartsGoOn
  <2>5. \A n \in 1..Len(portfolio') :
            portfolio'[n].id = run'.id /\ portfolio'[n].status = "stopped"
                => run'.mode = "stopped"
    BY <2>0, <2>1
  <2>6. PortfolioInStep'
    BY <2>0, <2>1, ListedAgree
  <2>7. NoneComesBack
    <3> SUFFICES ASSUME NEW i \in 1..Len(portfolio), NEW j \in 1..Len(portfolio'),
                        portfolio[i].id = portfolio'[j].id, portfolio[i].status = "stopped"
                 PROVE  portfolio'[j].status # "running"
      BY DEF NoneComesBack
    <3>1. CASE portfolio'[j].id = run'.id
      <4>1. run.mode = "stopped"
        BY <2>0, <3>1 DEF ListInv
      <4> QED BY <2>0, <2>1, <3>1, <4>1
    <3>2. CASE portfolio'[j].id # run'.id
      <4>1. PICK m \in 1..Len(portfolio) : portfolio'[j] = portfolio[m]
        BY <2>1, <3>2
      <4>2. m = i
        BY <4>1 DEF ListInv, Distinct
      <4> QED BY <4>1, <4>2
    <3> QED BY <3>1, <3>2
  <2> QED BY <2>1, <2>3, <2>4, <2>5, <2>6, <2>7 DEF ListInv
<1> QED BY <1>1, <1>2

LEMMA ListsNewRunKeeps ==
    ASSUME StoreTypeOK, StoreTypeOK', ListInv, ListsNewRun, receipt' # NoKey
    PROVE  ListInv' /\ NoneComesBack
<1>0. /\ run' # NoRun /\ starts[run'.id].pc = "sent" /\ starts'[run'.id].pc = "done"
      /\ StartsGoOn /\ UpsertsRun("running") /\ run'.mode = "running"
  BY DEF ListsNewRun
<1>1. /\ portfolio' \in Seq(EntryType) /\ Distinct(portfolio')
      /\ run'.id \in Keys
      /\ \A n \in 1..Len(portfolio') :
            \/ /\ portfolio'[n].id = run'.id /\ portfolio'[n].status = "running"
               /\ portfolio'[n].receipts = receipts'
            \/ /\ portfolio'[n].id # run'.id
               /\ \E i \in 1..Len(portfolio) : portfolio'[n] = portfolio[i]
  BY <1>0, UpsertsRunFacts
<1>2. \A i \in 1..Len(portfolio) : portfolio[i].id \in Keys /\ portfolio[i].id # run'.id
  BY <1>0, ListedIds DEF ListInv
<1>3. \A n \in 1..Len(portfolio') : starts'[portfolio'[n].id].pc = "done"
  BY <1>0, <1>1, <1>2 DEF ListInv, StartsGoOn
<1>4. \A n \in 1..Len(portfolio') :
          portfolio'[n].id = run'.id /\ portfolio'[n].status = "stopped"
              => run'.mode = "stopped"
  BY <1>1
<1>5. PortfolioInStep'
  BY <1>0, <1>1, ListedAgree
<1>6. NoneComesBack
  <2> SUFFICES ASSUME NEW i \in 1..Len(portfolio), NEW j \in 1..Len(portfolio'),
                      portfolio[i].id = portfolio'[j].id, portfolio[i].status = "stopped"
               PROVE  portfolio'[j].status # "running"
    BY DEF NoneComesBack
  <2>1. PICK m \in 1..Len(portfolio) : portfolio'[j] = portfolio[m]
    BY <1>1, <1>2
  <2>2. m = i
    BY <2>1 DEF ListInv, Distinct
  <2> QED BY <2>1, <2>2
<1> QED BY <1>0, <1>1, <1>3, <1>4, <1>5, <1>6 DEF ListInv

-----------------------------------------------------------------------------
(* Every step is of one of these kinds.                                    *)

\* A start only goes on.
LEMMA StartsStep ==
    ASSUME StoreTypeOK, [Next]_vars
    PROVE  StartsGoOn
<1>0. starts \in [Keys -> StartType]
  BY DEF StoreTypeOK
<1>1. CASE starts' = starts
  BY <1>1 DEF StartsGoOn
<1>2. ASSUME NEW k \in Keys, NEW a \in Agents, NEW w \in Wallets, StartAgent(k, a, w)
      PROVE  StartsGoOn
  BY <1>0, <1>2 DEF StartAgent, StartsGoOn
<1>3. ASSUME NEW k \in Keys, DelegationAnswered(k)
      PROVE  StartsGoOn
  <2>1. CASE DelegationSent(k)
    BY <1>0, <2>1 DEF DelegationSent, StartsGoOn
  <2>2. CASE DelegationConfirmed(k) \/ DelegationFails(k)
    <3>1. starts' = [starts EXCEPT ![k] = Answered(starts[k])]
      BY <2>2 DEF DelegationConfirmed, DelegationFails
    <3>2. Answered(starts[k]).pc = "done"
      BY <1>0 DEF Answered, StartType
    <3> QED BY <1>0, <3>1, <3>2 DEF StartsGoOn
  <2> QED BY <1>3, <2>1, <2>2 DEF DelegationAnswered
<1>4. ASSUME NEW k \in Keys, DelegationLands(k)
      PROVE  StartsGoOn
  <2>1. \A j \in Keys : starts'[j].pc = starts[j].pc
    BY <1>0, <1>4 DEF DelegationLands, StartType
  <2> QED BY <2>1 DEF StartsGoOn
<1>5. ASSUME NEW k \in Keys, Cycles(k) PROVE starts' = starts
  BY <1>5 DEF Cycles, WakesDead, NextCycle, StageDone, LegSent, LegConfirmed, LegThrows,
              LegRecorded, LoopStep
<1>6. ASSUME NEW j \in Jobs, WithdrawalAnswered(j) PROVE starts' = starts
  BY <1>6 DEF WithdrawalAnswered, BalanceRead, WithdrawalSent, WithdrawalConfirmed,
              WithdrawalFails, WithdrawalStep
<1>7. CASE UserStep
  BY <1>1, <1>2, <1>7 DEF UserStep, StopAgent, WithdrawSessionKey, RunReplay, ResetAgent,
                          ClearForWallet
<1>8. CASE Lands
  BY <1>1, <1>4, <1>8 DEF Lands, LegLands, OrphanLands, WithdrawalLands
<1>9. CASE ReplayVerdict \/ UNCHANGED vars
  BY <1>1, <1>9 DEF ReplayVerdict, vars
<1> QED BY <1>1, <1>3, <1>5, <1>6, <1>7, <1>8, <1>9 DEF Next

\* What a step of any kind is known to begin with.
ListHypothesis == StoreInv /\ StoreTypeOK' /\ ListInv /\ StartsGoOn

LEMMA SameRunGoesOn == SameRun(run, run') => RunGoesOn
BY DEF SameRun, RunGoesOn

LEMMA QuietListing ==
    ASSUME ListHypothesis, SameRun(run, run'), portfolio' = portfolio,
           receipts' = receipts, receipt' \in {receipt, NoKey}
    PROVE  ListInv' /\ NoneComesBack
<1>1. Within(portfolio', portfolio)
  BY UnchangedIsWithin DEF ListHypothesis, ListInv
<1>2. ListsNothing
  BY <1>1, SameRunGoesOn DEF ListHypothesis, ListsNothing, ReceiptsGoOn, SameRun
<1> QED BY <1>2, ListsNothingKeeps DEF ListHypothesis, StoreInv

LEMMA UserKeepsList ==
    ASSUME ListHypothesis, UserStep
    PROVE  ListInv' /\ NoneComesBack
<1>0. SameRun(run, run) /\ run \in RunType \cup {NoRun} /\ StoreTypeOK
  BY DEF SameRun, ListHypothesis, StoreInv, StoreTypeOK
<1>1. ASSUME NEW k \in Keys, NEW a \in Agents, NEW w \in Wallets, StartAgent(k, a, w)
      PROVE  ListInv' /\ NoneComesBack
  BY <1>0, <1>1, QuietListing DEF StartAgent
<1>2. CASE StopAgent
  <2>1. run \in RunType /\ run # NoRun /\ UpsertsRun("stopped")
    BY <1>0, <1>2 DEF StopAgent, OurMode
  <2>2. run'.id = run.id /\ run'.mode = "stopped"
    BY <1>2, <2>1 DEF StopAgent, RunType
  <2>3. ListsRun("stopped")
    BY <1>2, <2>1, <2>2 DEF StopAgent, ListsRun, RunGoesOn, ReceiptsGoOn, ListHypothesis
  <2> QED BY <1>0, <2>3, ListsRunKeeps DEF ListHypothesis
<1>3. ASSUME NEW j \in Jobs, WithdrawSessionKey(j)
      PROVE  ListInv' /\ NoneComesBack
  BY <1>0, <1>3, QuietListing DEF WithdrawSessionKey
<1>4. CASE RunReplay
  <2>1. SameRun(run, run')
    BY <1>0, <1>4, StagedFacts, StageFacts DEF RunReplay, StageStates
  <2> QED BY <1>4, <2>1, QuietListing DEF RunReplay
<1>5. CASE ResetAgent
  <2>1. Within(portfolio', portfolio)
    BY <1>5, UnchangedIsWithin DEF ListHypothesis, ListInv, ResetAgent
  <2>2. ListsNothing
    BY <1>5, <2>1 DEF ResetAgent, ListsNothing, RunGoesOn, ListHypothesis
  <2> QED BY <1>0, <2>2, ListsNothingKeeps DEF ListHypothesis
<1>6. ASSUME NEW w \in Wallets, ClearForWallet(w)
      PROVE  ListInv' /\ NoneComesBack
  <2>1. Within(portfolio', portfolio)
    BY <1>6, ClearedFacts DEF ListHypothesis, ListInv
  <2>2. run' = run /\ receipt' = receipt /\ receipts' = receipts
    BY <1>6 DEF ClearForWallet
  <2>3. RunGoesOn
    BY <1>0, <2>2, SameRunGoesOn
  <2>4. ListsNothing
    BY <2>1, <2>2, <2>3 DEF ListsNothing, ReceiptsGoOn, ListHypothesis
  <2> QED BY <1>0, <2>4, ListsNothingKeeps DEF ListHypothesis
<1> QED BY <1>1, <1>2, <1>3, <1>4, <1>5, <1>6 DEF UserStep

LEMMA DelegationKeepsList ==
    ASSUME ListHypothesis, NEW k \in Keys, DelegationAnswered(k)
    PROVE  ListInv' /\ NoneComesBack
<1>0. SameRun(run, run) /\ StoreTypeOK
  BY DEF SameRun, ListHypothesis, StoreInv
<1>1. CASE DelegationSent(k) \/ DelegationFails(k)
  BY <1>0, <1>1, QuietListing DEF DelegationSent, DelegationFails
<1>2. CASE DelegationConfirmed(k)
  <2> DEFINE r == [id |-> k, agent |-> starts[k].agent, wallet |-> starts[k].wallet,
                   mode |-> "running", stages |-> EmptyStages, legs |-> 0]
  <2>1. r \in RunType /\ starts[k] \in StartType
    BY <1>0, <1>2 DEF DelegationConfirmed, StoreTypeOK, RunType, EmptyStages
  <2>2. PICK fresh \in BOOLEAN : run' = RunAtTop(r, fresh)
    BY <1>2 DEF DelegationConfirmed
  <2>3. r.id = k /\ r.mode = "running"
    OBVIOUS
  <2> HIDE DEF r
  <2>4. run' # NoRun /\ run'.id = k /\ run'.mode = "running"
    BY <2>1, <2>2, <2>3, RunAtTopFacts, RunIsNotNoRun DEF SameRun
  <2>5. starts' = [starts EXCEPT ![k] = Answered(starts[k])] /\ starts[k].pc = "sent"
    BY <1>2 DEF DelegationConfirmed
  <2>6. Answered(starts[k]).pc = "done"
    BY <2>1 DEF Answered, StartType
  <2>7. starts'[k].pc = "done"
    BY <1>0, <2>5, <2>6 DEF StoreTypeOK
  <2>8. UpsertsRun("running") /\ receipt' = k /\ k # NoKey
    BY <1>2 DEF DelegationConfirmed, Keys, NoKey
  <2>9. ListsNewRun
    BY <2>4, <2>5, <2>7, <2>8 DEF ListsNewRun, ListHypothesis
  <2> QED BY <1>0, <2>8, <2>9, ListsNewRunKeeps DEF ListHypothesis
<1> QED BY <1>1, <1>2 DEF DelegationAnswered

\* No step of a loop makes the store's run another one.
LEMMA CyclesKeepTheRun ==
    ASSUME StoreInv, NEW l \in Keys, Cycles(l), ~LegRecorded(l)
    PROVE  SameRun(run, run')
<1>0. run \in RunType \cup {NoRun} /\ SameRun(run, run)
  BY DEF SameRun, StoreInv, StoreTypeOK
<1>1. CASE WakesDead(l) \/ LegSent(l)
  BY <1>0, <1>1 DEF WakesDead, LegSent
<1>2. CASE NextCycle(l)
  BY <1>0, <1>2, RunAtTopFacts DEF NextCycle
<1>3. CASE StageDone(l)
  <2>1. PICK i \in 1..Sleeps :
            run' = Staged(Staged(run, StageIds[i], "ok"), StageIds[i + 1], "active")
    BY <1>3 DEF StageDone
  <2>2. StageIds[i] \in Stages /\ StageIds[i + 1] \in Stages
    BY StageFacts
  <2> QED BY <1>0, <2>1, <2>2, TwiceStagedFacts DEF StageStates
<1>4. CASE LegConfirmed(l)
  <2>1. "verify" \in Stages /\ "broadcast" \in Stages
    BY StageFacts
  <2>2. SameRun(run, Staged(Staged(run, "broadcast", "ok"), "verify", "active"))
    BY <1>0, <2>1, TwiceStagedFacts DEF StageStates
  <2> QED BY <1>0, <1>4, <2>2 DEF LegConfirmed
<1>5. CASE LegThrows(l)
  <2>1. SameRun(run, Staged(run, "broadcast", "rejected"))
    BY <1>0, StageFacts, StagedFacts DEF StageStates
  <2> QED BY <1>0, <1>5, <2>1 DEF LegThrows
<1> QED BY <1>1, <1>2, <1>3, <1>4, <1>5 DEF Cycles

LEMMA CyclesKeepList ==
    ASSUME ListHypothesis, NEW l \in Keys, Cycles(l)
    PROVE  ListInv' /\ NoneComesBack
<1>0. StoreInv /\ StoreTypeOK
  BY DEF ListHypothesis, StoreInv
<1>1. CASE LegRecorded(l)
  <2> DEFINE q == Staged(run, "verify", "ok")
  <2>1. run \in RunType /\ run # NoRun /\ run.mode = "running"
    BY <1>0, <1>1 DEF LegRecorded, StoreInv, StoreTypeOK, LiveLoopIsTheRuns
  <2>2. q \in RunType /\ q # NoRun /\ q.id = run.id /\ q.mode = run.mode
    BY <2>1, StageFacts, StagedFacts, RunIsNotNoRun DEF StageStates, SameRun
  <2>3. run' = [q EXCEPT !.legs = @ + 1]
    BY <1>1, <2>1 DEF LegRecorded
  <2> HIDE DEF q
  <2>4. run'.id = run.id /\ run'.mode = "running"
    BY <2>1, <2>2, <2>3 DEF RunType
  <2>7. ReceiptsGoOn
    <3>1. Leg(l, loops[l].cycle) \in ReceiptType
      BY <1>0 DEF Leg, ReceiptType, LoopType, StoreTypeOK
    <3> QED BY <1>1, <2>1, <3>1 DEF LegRecorded, ReceiptsGoOn
  <2>5. UpsertsRun("running")
    BY <1>1 DEF LegRecorded
  <2>6. ListsRun("running")
    BY <2>1, <2>4, <2>5, <2>7 DEF ListsRun, RunGoesOn, ListHypothesis
  <2> QED BY <1>0, <2>6, ListsRunKeeps DEF ListHypothesis
<1>2. CASE ~LegRecorded(l)
  <2>1. SameRun(run, run')
    BY <1>0, <1>2, CyclesKeepTheRun
  <2>2. portfolio' = portfolio /\ receipts' = receipts /\ receipt' = receipt
    BY <1>2 DEF Cycles, WakesDead, NextCycle, StageDone, LegSent, LegConfirmed, LegThrows,
                LoopStep
  <2> QED BY <2>1, <2>2, QuietListing
<1> QED BY <1>1, <1>2

LEMMA WithdrawalKeepsList ==
    ASSUME ListHypothesis, NEW j \in Jobs, WithdrawalAnswered(j)
    PROVE  ListInv' /\ NoneComesBack
<1>0. SameRun(run, run) /\ StoreTypeOK
  BY DEF SameRun, ListHypothesis, StoreInv
<1>1. CASE BalanceRead(j) \/ WithdrawalSent(j) \/ WithdrawalFails(j)
  BY <1>0, <1>1, QuietListing DEF BalanceRead, WithdrawalSent, WithdrawalFails, WithdrawalStep
<1>2. CASE WithdrawalConfirmed(j)
  <2>1. run' = run /\ UpsertsRun("withdrawn")
    BY <1>2 DEF WithdrawalConfirmed, WithdrawalStep
  <2>2. RunGoesOn
    BY <1>0, <2>1, SameRunGoesOn
  <2>4. ReceiptsGoOn /\ EndsInRefund'
    <3> DEFINE x == Refund(withdrawals[j].key)
    <3>1. x \in ReceiptType /\ x.kind = "refund" /\ receipts \in Seq(ReceiptType)
      BY <1>0, <1>2 DEF WithdrawalConfirmed, Refund, ReceiptType, StoreTypeOK
    <3>2. receipts' = Append(receipts, x)
      BY <1>2 DEF WithdrawalConfirmed
    <3> HIDE DEF x
    <3>3. Len(receipts') = Len(receipts) + 1 /\ receipts'[Len(receipts')] = x
          /\ receipts' # <<>>
      BY <3>1, <3>2
    <3> QED BY <3>1, <3>2, <3>3 DEF ReceiptsGoOn, EndsInRefund
  <2>3. ListsRun("withdrawn")
    BY <2>1, <2>2, <2>4 DEF ListsRun, ListHypothesis
  <2> QED BY <1>0, <2>3, ListsRunKeeps DEF ListHypothesis
<1> QED BY <1>1, <1>2 DEF WithdrawalAnswered

LEMMA RestKeepsList ==
    ASSUME ListHypothesis, ReplayVerdict \/ Lands \/ vars' = vars
    PROVE  ListInv' /\ NoneComesBack
<1>0. SameRun(run, run) /\ run \in RunType \cup {NoRun}
  BY DEF SameRun, ListHypothesis, StoreInv, StoreTypeOK
<1>1. CASE ReplayVerdict
  BY <1>0, <1>1, VerdictFacts, QuietListing DEF ReplayVerdict
<1>2. CASE Lands
  <2>1. ChainStep
    BY <1>2 DEF Lands, DelegationLands, LegLands, OrphanLands, WithdrawalLands
  <2> QED BY <1>0, <2>1, QuietListing DEF ChainStep
<1>3. CASE vars' = vars
  BY <1>0, <1>3, QuietListing DEF vars
<1> QED BY <1>1, <1>2, <1>3

LEMMA ListStep ==
    ASSUME StoreInv, ListInv, [Next]_vars
    PROVE  ListInv' /\ NoneComesBack
<1>1. ListHypothesis
  BY TypeStep, StartsStep DEF ListHypothesis, StoreInv
<1> QED BY <1>1, UserKeepsList, DelegationKeepsList, CyclesKeepList, WithdrawalKeepsList,
           RestKeepsList DEF Next

-----------------------------------------------------------------------------
(* The rest of the types.                                                  *)

\* What StoreTypeOK and ListInv leave of TypeOK.
RestTypeOK ==
    /\ approving \in BOOLEAN
    /\ withdraw \in {"idle", "running", "done", "failed"}
    /\ replays \in 0..MaxReplays
    /\ orphans \in [Keys -> Nat]

LEMMA RestTypeStep ==
    ASSUME RestTypeOK, [Next]_vars
    PROVE  RestTypeOK'
<1> USE StoreAssumption
<1>1. CASE UserStep
  <2>1. replays' \in {replays, 0} \/ (replays < MaxReplays /\ replays' = replays + 1)
    BY <1>1 DEF UserStep, StartAgent, StopAgent, WithdrawSessionKey, RunReplay,
                ResetAgent, ClearForWallet, CancelsLoop
  <2>2. replays' \in 0..MaxReplays
    BY <2>1 DEF RestTypeOK
  <2>3. orphans' = orphans
    BY <1>1 DEF UserStep, StartAgent, StopAgent, WithdrawSessionKey, RunReplay,
                ResetAgent, ClearForWallet
  <2>4. /\ approving' = approving \/ approving' = TRUE \/ approving' = FALSE
        /\ withdraw' \in {withdraw, "idle", "running"}
    BY <1>1 DEF UserStep, StartAgent, StopAgent, WithdrawSessionKey, RunReplay,
                ResetAgent, ClearForWallet
  <2> QED BY <2>2, <2>3, <2>4 DEF RestTypeOK
<1>2. ASSUME NEW k \in Keys, DelegationAnswered(k) PROVE RestTypeOK'
  BY <1>2 DEF RestTypeOK, DelegationAnswered, DelegationSent, DelegationConfirmed,
              DelegationFails
<1>3. ASSUME NEW l \in Keys, Cycles(l) PROVE RestTypeOK'
  <2>1. orphans' \in [Keys -> Nat]
    <3>1. CASE orphans' = orphans
      BY <3>1 DEF RestTypeOK
    <3>2. CASE LegThrows(l)
      <4>1. orphans' = orphans \/ orphans' = [orphans EXCEPT ![l] = @ + 1]
        BY <3>2 DEF LegThrows
      <4> QED BY <4>1 DEF RestTypeOK
    <3> QED BY <1>3, <3>1, <3>2 DEF Cycles, WakesDead, NextCycle, StageDone, LegSent,
                                    LegConfirmed, LegRecorded
  <2>2. approving' = approving /\ withdraw' = withdraw /\ replays' = replays
    BY <1>3 DEF Cycles, WakesDead, NextCycle, StageDone, LegSent, LegConfirmed,
                LegThrows, LegRecorded, LoopStep
  <2> QED BY <2>1, <2>2 DEF RestTypeOK
<1>4. ASSUME NEW j \in Jobs, WithdrawalAnswered(j) PROVE RestTypeOK'
  BY <1>4 DEF RestTypeOK, WithdrawalAnswered, BalanceRead, WithdrawalSent,
              WithdrawalConfirmed, WithdrawalFails, WithdrawalStep
<1>5. CASE Lands
  <2>1. orphans' \in [Keys -> Nat]
    BY <1>5 DEF RestTypeOK, Lands, DelegationLands, LegLands, OrphanLands, WithdrawalLands
  <2>2. ChainStep
    BY <1>5 DEF Lands, DelegationLands, LegLands, OrphanLands, WithdrawalLands
  <2> QED BY <2>1, <2>2 DEF RestTypeOK, ChainStep
<1>6. CASE ReplayVerdict \/ UNCHANGED vars
  BY <1>6 DEF RestTypeOK, ReplayVerdict, vars
<1> QED BY <1>1, <1>2, <1>3, <1>4, <1>5, <1>6 DEF Next

LEMMA ListInit == Init => ListInv /\ RestTypeOK
<1> SUFFICES ASSUME Init PROVE ListInv /\ RestTypeOK
  OBVIOUS
<1>1. portfolio \in Seq(EntryType) /\ Len(portfolio) = 0
  BY DEF Init
<1>2. RestTypeOK
  <2>1. 0 \in 0..MaxReplays
    BY StoreAssumption
  <2>2. orphans \in [Keys -> Nat]
    BY DEF Init
  <2> QED BY <2>1, <2>2, Zenon DEF Init, RestTypeOK
<1> QED BY <1>1, <1>2 DEF Init, ListInv, Distinct, PortfolioInStep

-----------------------------------------------------------------------------
(* A run that shows as running.                                            *)

\* A loop is cancelled or active only once its start was confirmed, and so a start that
\* is confirmed brings a loop that was never cancelled.  A run without a loop was
\* cancelled by a start that the wallet is asked for, or by one that failed.
HeldInv ==
    /\ \A k \in Keys : k \in cancelled \/ activeLoop = k => starts[k].pc = "done"
    /\ OurMode("running") =>
          \/ IsLive(run.id)
          \/ run.id \in cancelled /\ (approving \/ burner = NoKey)

LEMMA HeldInit == Init => HeldInv
BY DEF Init, HeldInv, OurMode, Keys, NoKey

\* A step that leaves the run, its loop and the start that is asked for.
LEMMA HeldKeeps ==
    ASSUME StoreInv, HeldInv, StartsGoOn, SameRun(run, run'),
           UNCHANGED <<cancelled, activeLoop, approving, burner>>
    PROVE  HeldInv'
<1>1. \A k \in Keys : k \in cancelled' \/ activeLoop' = k => starts'[k].pc = "done"
  BY DEF HeldInv, StartsGoOn
<1>2. OurMode("running")' => OurMode("running") /\ run'.id = run.id
  BY DEF OurMode, SameRun
<1> QED BY <1>1, <1>2 DEF HeldInv, IsLive

LEMMA HeldStep ==
    ASSUME StoreInv, HeldInv, [Next]_vars
    PROVE  HeldInv'
<1>0. /\ StoreTypeOK /\ StartsGoOn /\ run \in RunType \cup {NoRun}
      /\ SameRun(run, run)
      /\ cancelled \subseteq Keys /\ NoKey \notin Keys
  BY StartsStep DEF StoreInv, StoreTypeOK, SameRun, Keys, NoKey
<1>1. ASSUME CancelsLoop
      PROVE  /\ \A k \in Keys : k \in cancelled' \/ activeLoop' = k => starts'[k].pc = "done"
             /\ OurMode("running") => run.id \in cancelled'
  <2>1. cancelled' = cancelled \cup ({activeLoop} \ {NoKey}) /\ activeLoop' = activeLoop
    BY <1>1 DEF CancelsLoop
  <2>2. \A k \in Keys : k \in cancelled' \/ activeLoop' = k => starts'[k].pc = "done"
    BY <1>0, <2>1 DEF HeldInv, StartsGoOn
  <2>3. ASSUME OurMode("running") PROVE run.id \in cancelled'
    <3>1. run.id \in Keys
      BY <1>0, <2>3 DEF OurMode, RunType
    <3> QED BY <1>0, <2>1, <2>3, <3>1 DEF HeldInv, IsLive
  <2> QED BY <2>2, <2>3
<1>2. ASSUME NEW k \in Keys, NEW a \in Agents, NEW w \in Wallets, StartAgent(k, a, w)
      PROVE  HeldInv'
  <2>1. CancelsLoop /\ approving' = TRUE /\ run' = run
    BY <1>2 DEF StartAgent
  <2> QED BY <1>1, <2>1 DEF HeldInv, OurMode
<1>3. CASE StopAgent \/ ResetAgent
  <2>1. CancelsLoop
    BY <1>3 DEF StopAgent, ResetAgent
  <2>2. ~OurMode("running")'
    <3>1. CASE StopAgent
      <4>1. run \in RunType
        BY <1>0, <3>1 DEF StopAgent, OurMode
      <4>2. run'.mode = "stopped"
        BY <3>1, <4>1 DEF StopAgent, RunType
      <4> QED BY <4>2 DEF OurMode
    <3>2. CASE ResetAgent
      BY <3>2 DEF ResetAgent, OurMode
    <3> QED BY <1>3, <3>1, <3>2
  <2> QED BY <1>1, <2>1, <2>2 DEF HeldInv
<1>4. ASSUME NEW k \in Keys, DelegationConfirmed(k)
      PROVE  HeldInv'
  <2> DEFINE r == [id |-> k, agent |-> starts[k].agent, wallet |-> starts[k].wallet,
                   mode |-> "running", stages |-> EmptyStages, legs |-> 0]
  <2>1. r \in RunType /\ starts[k].pc = "sent" /\ starts[k] \in StartType
    BY <1>0, <1>4 DEF DelegationConfirmed, StoreTypeOK, RunType, EmptyStages
  <2>2. PICK fresh \in BOOLEAN : run' = RunAtTop(r, fresh)
    BY <1>4 DEF DelegationConfirmed
  <2>3. r.id = k
    OBVIOUS
  <2> HIDE DEF r
  <2>4. run'.id = k
    BY <2>1, <2>2, <2>3, RunAtTopFacts, RunIsNotNoRun DEF SameRun
  <2>5. cancelled' = cancelled /\ activeLoop' = k
    BY <1>4 DEF DelegationConfirmed
  <2>6. starts'[k].pc = "done"
    <3>1. starts' = [starts EXCEPT ![k] = Answered(starts[k])]
      BY <1>4 DEF DelegationConfirmed
    <3>2. Answered(starts[k]).pc = "done"
      BY <2>1 DEF Answered, StartType
    <3> QED BY <1>0, <3>1, <3>2 DEF StoreTypeOK
  <2>7. k \notin cancelled
    BY <2>1 DEF HeldInv
  <2>8. IsLive(k)'
    BY <2>5, <2>7 DEF IsLive
  <2>9. \A l \in Keys : l \in cancelled' \/ activeLoop' = l => starts'[l].pc = "done"
    BY <1>0, <2>5, <2>6 DEF HeldInv, StartsGoOn
  <2> QED BY <2>4, <2>8, <2>9 DEF HeldInv
<1>5. ASSUME NEW k \in Keys, DelegationFails(k)
      PROVE  HeldInv'
  <2>1. /\ UNCHANGED <<run, cancelled, activeLoop>> /\ burner' = NoKey
    BY <1>5 DEF DelegationFails
  <2> QED BY <1>0, <2>1 DEF HeldInv, StartsGoOn, OurMode, IsLive
<1>6. ASSUME NEW l \in Keys, Cycles(l)
      PROVE  HeldInv'
  <2>1. UNCHANGED <<cancelled, activeLoop, approving, burner>>
    BY <1>6 DEF Cycles, WakesDead, NextCycle, StageDone, LegSent, LegConfirmed,
                LegThrows, LegRecorded, LoopStep
  <2>2. CASE ~LegRecorded(l)
    BY <1>0, <1>6, <2>1, <2>2, CyclesKeepTheRun, HeldKeeps
  <2>3. CASE LegRecorded(l)
    <3>1. IsLive(l) /\ IsLive(l)'
      BY <2>1, <2>3 DEF LegRecorded, IsLive
    <3>2. LiveLoopIsTheRuns'
      BY StoreStep DEF StoreInv
    <3>3. run'.id = l
      BY <3>1, <3>2 DEF LiveLoopIsTheRuns
    <3> QED BY <1>0, <2>1, <3>1, <3>3 DEF HeldInv, StartsGoOn
  <2> QED BY <2>2, <2>3
<1>7. CASE \/ \E j \in Jobs : WithdrawSessionKey(j) \/ WithdrawalAnswered(j)
           \/ \E w \in Wallets : ClearForWallet(w)
           \/ \E k \in Keys : DelegationSent(k)
           \/ Lands
  <2>1. run' = run /\ UNCHANGED <<cancelled, activeLoop, approving, burner>>
    BY <1>7 DEF WithdrawSessionKey, WithdrawalAnswered, BalanceRead, WithdrawalSent,
                WithdrawalConfirmed, WithdrawalFails, WithdrawalStep, ClearForWallet,
                DelegationSent, Lands, DelegationLands, LegLands, OrphanLands,
                WithdrawalLands, ChainStep
  <2> QED BY <1>0, <2>1, HeldKeeps
<1>8. CASE RunReplay
  <2>1. SameRun(run, run')
    BY <1>0, <1>8, StagedFacts, StageFacts DEF RunReplay, StageStates
  <2> QED BY <1>0, <1>8, <2>1, HeldKeeps DEF RunReplay
<1>9. CASE ReplayVerdict
  BY <1>0, <1>9, VerdictFacts, HeldKeeps DEF ReplayVerdict
<1>10. CASE UNCHANGED vars
  BY <1>0, <1>10, HeldKeeps DEF vars
<1> QED BY <1>2, <1>3, <1>4, <1>5, <1>6, <1>7, <1>8, <1>9, <1>10
        DEF Next, UserStep, DelegationAnswered

\* A run shows as running with a loop that something will wake, unless a start for
\* another agent has cancelled it and is still asked for, or has failed and left the
\* store without a key (execution-store.ts:275-277, 342-347, 560-569).
THEOREM RunningIsDrivenHolds == Spec => []RunningIsDriven
<1>1. Init => StoreInv /\ HeldInv
  BY StoreInit, HeldInit
<1>2. StoreInv /\ HeldInv /\ [Next]_vars => (StoreInv /\ HeldInv)'
  BY StoreStep, HeldStep
<1>3. StoreInv /\ HeldInv => RunningIsDriven
  <2> SUFFICES ASSUME StoreInv, HeldInv, OurMode("running"), IsLive(run.id)
               PROVE  Driven
    BY DEF RunningIsDriven, HeldInv
  <2>1. run.id \in Keys
    BY DEF StoreInv, StoreTypeOK, OurMode, RunType
  <2> QED BY <2>1 DEF StoreInv, LiveLoopWakes, Driven
<1> QED BY <1>1, <1>2, <1>3, PTL DEF Spec

-----------------------------------------------------------------------------

\* What the list of runs shows agrees with the store, in every reachable state.
LEMMA ListInvariance == Spec => [](StoreInv /\ ListInv /\ RestTypeOK)
<1> DEFINE Inv == StoreInv /\ ListInv /\ RestTypeOK
<1>1. Init => Inv
  BY StoreInit, ListInit
<1>2. Inv /\ [Next]_vars => Inv'
  BY StoreStep, ListStep, RestTypeStep
<1> QED BY <1>1, <1>2, PTL DEF Spec

\* Every variable of the store, the loop, the list and the chain is well typed
\* (execution-store.ts:60-118, portfolio-store.ts:5-22).
THEOREM StoreTypeCorrect == Spec => []TypeOK
<1>1. StoreInv /\ ListInv /\ RestTypeOK => TypeOK
  BY DEF StoreInv, StoreTypeOK, ListInv, RestTypeOK, TypeOK, Keys, NoKey
<1> QED BY <1>1, ListInvariance, PTL

\* In every order of legs, stops, refunds, Clear and Reset the list holds a run once;
\* of the present run it holds the receipts and the mode, or that a refund came last, and
\* the receipts up to then once a failed start has taken the approval receipt
\* (execution-store.ts:192-223, 342-347; portfolio-store.ts:44-53).
THEOREM PortfolioInStepHolds == Spec => []PortfolioInStep
BY ListInvariance, PTL DEF ListInv

\* No late leg, refund or second start brings a run back that is listed as stopped
\* (portfolio-store.ts:14, execution-store.ts:748-767).
THEOREM StoppedStaysStoppedHolds == Spec => StoppedStaysStopped
<1>1. StoreInv /\ ListInv /\ RestTypeOK /\ [Next]_vars => [NoneComesBack]_vars
  BY ListStep
<1>2. Spec => [][NoneComesBack]_vars
  BY <1>1, ListInvariance, PTL DEF Spec
<1> QED BY <1>2, PTL DEF StoppedStaysStopped, NoneComesBack
=============================================================================
