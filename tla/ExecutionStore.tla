--------------------------- MODULE ExecutionStore ---------------------------
(***************************************************************************)
(* The agent runner of the browser: the store and its loop                 *)
(* (soloraa_frontend/lib/execution-store.ts), the transactions they send   *)
(* (devnet-tx.ts), the list of runs (portfolio-store.ts) and the pages     *)
(* whose buttons call them.                                                *)
(*                                                                         *)
(* JavaScript runs to the next await, so an action is what runs between    *)
(* two awaits; the user, the timers and the network step in between.  The  *)
(* user may be on any page with any wallet connected, and a price may be   *)
(* live or stale whenever the loop looks.  The k-th start draws the k-th   *)
(* session key, and names the run, the loop and the key that come of it.   *)
(* Lamports are counted in fees of 5000.  Events are left out, and the     *)
(* strategy's state, which Strategies models.                              *)
(***************************************************************************)
EXTENDS Naturals, Sequences, FiniteSets

CONSTANTS
    Agents,         \* agents of the catalogue
    Wallets,        \* wallets the user may connect
    NoAgent, NoWallet, NoRun,
    Sleeps,         \* number of stages before the broadcast, 5 in the code
    RelayerMode,    \* NEXT_PUBLIC_SOLORA_RELAYER_URL is set
    Delegated,      \* lamports delegated to a session key
    Capacity,       \* runs the portfolio keeps, 100 in the code
    MaxStarts, MaxWithdraws, MaxCycles, MaxReplays  \* bounds of the model

StageIds ==
    SubSeq(<<"intent", "policy", "oracle", "build", "sign">>, 1, Sleeps)
        \o <<"broadcast", "verify">>
Stages == {StageIds[i] : i \in 1..(Sleeps + 2)}

NoKey == 0
Keys == 1..MaxStarts
Jobs == 1..MaxWithdraws

ASSUME StoreAssumption ==
    /\ Sleeps \in 1..5
    /\ NoRun \notin [id : Nat, agent : Agents, wallet : Wallets, mode : {"running", "stopped"},
                      stages : [Stages -> {"idle", "active", "ok", "rejected"}],
                      legs : Nat]
    /\ RelayerMode \in BOOLEAN
    /\ Delegated \in Nat \ {0} /\ Capacity \in Nat \ {0}
    /\ MaxStarts \in Nat /\ MaxWithdraws \in Nat /\ MaxCycles \in Nat
    /\ MaxReplays \in Nat

VARIABLES
    run,            \* the store's run, with its runId
    burner,         \* burnerKeypair
    approving,      \* approvalStatus is signing or confirming, not at rest
    receipt,        \* approvalReceipt: the key it funded
    receipts,       \* executionReceipts
    withdraw,       \* withdrawStatus
    cancelled,      \* loops whose flag is cancelled
    activeLoop,     \* activeLoopId; activeCancelFlag is this loop's
    replays,        \* how many second timers of runReplay are pending
    portfolio,      \* usePortfolio's runs
    starts, loops, withdrawals, \* the async calls that are under way
    funds,          \* balances of the session keys
    orphans         \* legs in flight that nobody waits for any more

storeVars == <<run, burner, approving, receipt, receipts, withdraw>>
loopVars  == <<cancelled, activeLoop, loops>>
chainVars == <<funds, orphans>>
vars == <<storeVars, loopVars, replays, portfolio,
          starts, withdrawals, chainVars>>

EmptyStages == [s \in Stages |-> "idle"]

Leg(k, cycle) == [kind |-> "leg", key |-> k, cycle |-> cycle]
Refund(k) == [kind |-> "refund", key |-> k, cycle |-> 0]

\* One that never lands stays in flight.
TxStates == {"none", "inflight", "landed", "failed"}
RunType ==
    [id : Keys, agent : Agents, wallet : Wallets, mode : {"running", "stopped"},
     stages : [Stages -> {"idle", "active", "ok", "rejected"}], legs : Nat]
StartType ==
    [pc : {"none", "asking", "sent", "done"}, agent : Agents \cup {NoAgent},
     wallet : Wallets \cup {NoWallet}, tx : TxStates]
LoopType ==
    [pc : Stages \cup {"none", "stale", "gap", "ended"}, cycle : Nat,
     tx : TxStates]
WithdrawalType ==
    [pc : {"none", "reading", "sending", "sent", "done"}, key : Keys \cup {NoKey},
     balance : Nat, tx : TxStates]
ReceiptType == [kind : {"leg", "refund"}, key : Keys, cycle : Nat]
EntryType ==
    [id : Keys, agent : Agents, wallet : Wallets,
     status : {"running", "stopped", "withdrawn"}, receipts : Seq(ReceiptType)]

-----------------------------------------------------------------------------
(* What several operations share.                                          *)

\* Mutants of IsLive: each of its two checks alone.
IsNewest(l) == activeLoop = l
IsUncancelled(l) == l \notin cancelled /\ loops[l].pc # "none"

IsLive(l) == l \notin cancelled /\ activeLoop = l

\* Loops that wait for a timer of activeTimeouts.
Sleeping(l) == loops[l].pc \in (Stages \ {"broadcast"}) \cup {"stale", "gap"}

\* A loop that has returned, or whose timer was cleared.
Over == [pc |-> "ended", cycle |-> 0, tx |-> "none"]

\* activeTimeouts.forEach(clearTimeout): a loop asleep never wakes again.
ClearedTimers ==
    [l \in Keys |-> IF Sleeping(l) THEN Over ELSE loops[l]]

\* Mutant of CancelsLoop: the timers go, the flag stays.
ClearsTimersOnly ==
    /\ loops' = ClearedTimers
    /\ replays' = 0
    /\ UNCHANGED <<cancelled, activeLoop>>

\* The first three lines of startAgent, stopAgent and resetAgent.
CancelsLoop ==
    /\ cancelled' = cancelled \cup ({activeLoop} \ {NoKey})
    /\ loops' = ClearedTimers
    /\ replays' = 0
    /\ UNCHANGED activeLoop

\* Mutant of Upserted: a run that is listed stays as it is.
AddedOnly(entries, e) ==
    IF \E i \in 1..Len(entries) : entries[i].id = e.id THEN entries
    ELSE SubSeq(<<e>> \o entries, 1,
                IF Len(entries) < Capacity THEN Len(entries) + 1 ELSE Capacity)

\* usePortfolio.upsertRun
Upserted(entries, e) ==
    IF \E i \in 1..Len(entries) : entries[i].id = e.id
    THEN [i \in 1..Len(entries) |-> IF entries[i].id = e.id THEN e ELSE entries[i]]
    ELSE SubSeq(<<e>> \o entries, 1,
                IF Len(entries) < Capacity THEN Len(entries) + 1 ELSE Capacity)

\* upsertRunningPortfolio, on what the store holds after the step
UpsertsRun(status) ==
    portfolio' =
        IF run' = NoRun \/ receipt' = NoKey THEN portfolio
        ELSE Upserted(portfolio,
                [id |-> run'.id, agent |-> run'.agent, wallet |-> run'.wallet,
                 status |-> status, receipts |-> receipts'])

\* One turn of the loop from its head to its first await: with a stale price it
\* sleeps, else it ticks the strategy and shows the first stage.
LoopAtTop(loop, fresh) ==
    IF fresh
    THEN [pc |-> StageIds[1], cycle |-> loop.cycle + 1, tx |-> "none"]
    ELSE [loop EXCEPT !.pc = "stale"]
RunAtTop(r, fresh) ==
    IF fresh /\ r # NoRun
    THEN [r EXCEPT !.stages = [EmptyStages EXCEPT ![StageIds[1]] = "active"]]
    ELSE r

\* setStage
Staged(r, id, state) == IF r = NoRun THEN r ELSE [r EXCEPT !.stages[id] = state]

-----------------------------------------------------------------------------
(* The pages.                                                              *)

\* The buttons on the page of the run's own agent: Stop, or Withdraw, Replay, Reset.
OurMode(mode) == run # NoRun /\ run.mode = mode

\* Run and then Approve, on the page of an agent that the store's run is not of.
\* The modal closes when a run is confirmed, so it adds nothing to this.
MayApprove(a) ==
    /\ run # NoRun => run.agent # a
    /\ ~approving

\* startAgent up to the wallet's answer; its early returns only show a message.
\* The run before it stays in the store.
StartAgent(k, a, w) ==
    /\ MayApprove(a)
    /\ starts[k].pc = "none" /\ \A j \in 1..(k - 1) : starts[j].pc # "none"
    /\ CancelsLoop
    /\ approving' = TRUE
    /\ withdraw' = "idle"
    /\ burner' = k
    /\ starts' = [starts EXCEPT ![k] =
                     [pc |-> "asking", agent |-> a, wallet |-> w, tx |-> "none"]]
    /\ UNCHANGED <<run, receipt, receipts, portfolio,
                   withdrawals, chainVars>>

StopAgent ==
    /\ OurMode("running")
    /\ CancelsLoop
    /\ run' = [run EXCEPT !.mode = "stopped", !.stages = EmptyStages]
    /\ UNCHANGED <<burner, approving, receipt, receipts, withdraw>>
    /\ UpsertsRun("stopped")
    /\ UNCHANGED <<starts, withdrawals, chainVars>>

\* Mutant of WithdrawSessionKey: the store trusts the button, which does not ask
\* whether there still is a key.
WithdrawsBlindly(j) ==
    /\ OurMode("stopped")
    /\ withdraw \notin {"running", "done"}
    /\ withdrawals[j].pc = "none" /\ \A i \in 1..(j - 1) : withdrawals[i].pc # "none"
    /\ withdraw' = "running"
    /\ withdrawals' = [withdrawals EXCEPT ![j] =
                          [pc |-> "reading", key |-> burner, balance |-> 0, tx |-> "none"]]
    /\ UNCHANGED <<run, burner, approving, receipt, receipts,
                   loopVars, replays, portfolio, starts, chainVars>>

WithdrawSessionKey(j) ==
    /\ OurMode("stopped")
    /\ withdraw \notin {"running", "done"} /\ burner # NoKey
    /\ withdrawals[j].pc = "none" /\ \A i \in 1..(j - 1) : withdrawals[i].pc # "none"
    /\ withdraw' = "running"
    /\ withdrawals' = [withdrawals EXCEPT ![j] =
                          [pc |-> "reading", key |-> burner, balance |-> 0, tx |-> "none"]]
    /\ UNCHANGED <<run, burner, approving, receipt, receipts,
                   loopVars, replays, portfolio, starts, chainVars>>

\* The attempt's timer only adds an event; the verdict's is modelled.
RunReplay ==
    /\ OurMode("stopped") /\ run.legs > 0
    /\ replays < MaxReplays
    /\ run' = Staged(run, "broadcast", "active")
    /\ replays' = replays + 1
    /\ UNCHANGED <<burner, approving, receipt, receipts,
                   withdraw, loopVars, portfolio, starts, withdrawals, chainVars>>

ReplayVerdict ==
    /\ replays > 0
    /\ replays' = replays - 1
    /\ run' = IF run = NoRun THEN run
              ELSE [run EXCEPT !.stages["broadcast"] = "rejected",
                               !.stages["verify"] = "rejected"]
    /\ UNCHANGED <<burner, approving, receipt, receipts,
                   withdraw, loopVars, portfolio, starts, withdrawals, chainVars>>

ResetAgent ==
    /\ OurMode("stopped")
    /\ CancelsLoop
    /\ run' = NoRun /\ burner' = NoKey /\ approving' = FALSE /\ receipt' = NoKey
    /\ receipts' = <<>> /\ withdraw' = "idle"
    /\ UNCHANGED <<portfolio, starts, withdrawals,
                   chainVars>>

\* The portfolio page's Clear, shown for a wallet that has runs: filter keeps the
\* entries of other wallets, in their order.
ClearForWallet(w) ==
    /\ \E i \in 1..Len(portfolio) : portfolio[i].wallet = w
    /\ LET others == {i \in 1..Len(portfolio) : portfolio[i].wallet # w}
           count == Cardinality(others)
       IN  \E place \in [1..count -> others] :
              /\ \A i, j \in 1..count : i < j => place[i] < place[j]
              /\ portfolio' = [i \in 1..count |-> portfolio[place[i]]]
    /\ UNCHANGED <<storeVars, loopVars, replays,
                   starts, withdrawals, chainVars>>

-----------------------------------------------------------------------------
(* startAgent after its await: delegateToBurner.                           *)

\* The call has returned: only whether its transaction may still land matters.
Answered(start) ==
    [start EXCEPT !.pc = "done", !.agent = NoAgent, !.wallet = NoWallet,
                  !.tx = IF @ = "inflight" THEN @ ELSE "none"]

\* The wallet signed and sent, its preflight passed.
DelegationSent(k) ==
    /\ starts[k].pc = "asking"
    /\ starts' = [starts EXCEPT ![k].pc = "sent", ![k].tx = "inflight"]
    /\ UNCHANGED <<storeVars, loopVars, replays, portfolio,
                   withdrawals, chainVars>>

\* confirmTransaction resolves for a transaction that landed, be it with an error.
DelegationConfirmed(k) ==
    /\ starts[k].pc = "sent" /\ starts[k].tx \in {"landed", "failed"}
    /\ starts' = [starts EXCEPT ![k] = Answered(starts[k])]
    /\ receipt' = k /\ approving' = FALSE /\ receipts' = <<>>
    /\ activeLoop' = k
    \* startLoop runs to its first await at once
    /\ \E fresh \in BOOLEAN :
          /\ run' = RunAtTop([id |-> k, agent |-> starts[k].agent,
                              wallet |-> starts[k].wallet, mode |-> "running",
                              stages |-> EmptyStages, legs |-> 0], fresh)
          /\ loops' = [loops EXCEPT ![k] = LoopAtTop(loops[k], fresh)]
    /\ UpsertsRun("running")
    /\ UNCHANGED <<burner, withdraw, cancelled, replays,
                   withdrawals, chainVars>>

\* The catch, after the user's refusal or any failing request.
DelegationFails(k) ==
    /\ starts[k].pc \in {"asking", "sent"}
    /\ starts' = [starts EXCEPT ![k] = Answered(starts[k])]
    /\ approving' = FALSE /\ receipt' = NoKey /\ burner' = NoKey
    /\ UNCHANGED <<run, receipts, withdraw, loopVars,
                   replays, portfolio, withdrawals, chainVars>>

-----------------------------------------------------------------------------
(* The loop.                                                               *)

LoopStep(l, loop) ==
    /\ loops' = [loops EXCEPT ![l] = loop]
    /\ UNCHANGED <<burner, approving, receipt, withdraw,
                   cancelled, activeLoop, replays, starts, withdrawals, funds>>

\* A sleep ends in a loop that is not live any more.
WakesDead(l) ==
    /\ Sleeping(l) /\ ~IsLive(l)
    /\ LoopStep(l, Over)
    /\ UNCHANGED <<run, receipts, portfolio, orphans>>

\* The gap between cycles, or the pause for a stale price, ends.
NextCycle(l) ==
    /\ loops[l].pc \in {"gap", "stale"} /\ IsLive(l)
    /\ loops[l].cycle < MaxCycles
    /\ \E fresh \in BOOLEAN :
          /\ LoopStep(l, IF fresh /\ run = NoRun THEN Over ELSE LoopAtTop(loops[l], fresh))
          /\ run' = RunAtTop(run, fresh)
    /\ UNCHANGED <<receipts, portfolio, orphans>>

\* The sleep of one of the stages before the broadcast ends.
StageDone(l) ==
    \E i \in 1..Sleeps :
        /\ loops[l].pc = StageIds[i] /\ IsLive(l)
        /\ LoopStep(l, [loops[l] EXCEPT !.pc = StageIds[i + 1]])
        /\ run' = Staged(Staged(run, StageIds[i], "ok"), StageIds[i + 1], "active")
        /\ UNCHANGED <<receipts, portfolio, orphans>>

\* The memo is signed and passes preflight, or the relayer got the request.
\* Nothing asks between the start of the broadcast and this whether the loop
\* still is live.
LegSent(l) ==
    /\ loops[l].pc = "broadcast" /\ loops[l].tx = "none"
    /\ RelayerMode \/ funds[l] > 0
    /\ LoopStep(l, [loops[l] EXCEPT !.tx = "inflight"])
    /\ UNCHANGED <<run, receipts, portfolio, orphans>>

LegConfirmed(l) ==
    /\ loops[l].pc = "broadcast" /\ loops[l].tx = "landed"
    /\ IF IsLive(l)
       THEN /\ LoopStep(l, [loops[l] EXCEPT !.pc = "verify"])
            /\ run' = Staged(Staged(run, "broadcast", "ok"), "verify", "active")
       ELSE LoopStep(l, Over) /\ UNCHANGED run
    /\ UNCHANGED <<receipts, portfolio, orphans>>

\* A request of the broadcast fails, at any point of it.
LegThrows(l) ==
    /\ loops[l].pc = "broadcast"
    /\ IF IsLive(l)
       THEN /\ LoopStep(l, [loops[l] EXCEPT !.pc = "gap"])
            /\ run' = Staged(run, "broadcast", "rejected")
       ELSE LoopStep(l, Over) /\ UNCHANGED run
    /\ orphans' = IF loops[l].tx = "inflight" THEN [orphans EXCEPT ![l] = @ + 1] ELSE orphans
    /\ UNCHANGED <<receipts, portfolio>>

\* The verify stage's sleep ends, and the leg is written down.
LegRecorded(l) ==
    /\ loops[l].pc = "verify" /\ IsLive(l)
    /\ LoopStep(l, [loops[l] EXCEPT !.pc = "gap"])
    /\ IF run = NoRun THEN UNCHANGED <<run, receipts>>
       ELSE /\ run' = [Staged(run, "verify", "ok") EXCEPT !.legs = @ + 1]
            /\ receipts' = Append(receipts, Leg(l, loops[l].cycle))
    /\ UpsertsRun("running")
    /\ UNCHANGED <<orphans>>

-----------------------------------------------------------------------------
(* withdrawSessionKey after its awaits: withdrawFromBurner.                *)

WithdrawalStep(j, job) ==
    /\ withdrawals' = [withdrawals EXCEPT ![j] = job]
    /\ UNCHANGED <<run, burner, approving, receipt, loopVars,
                   replays, starts, chainVars>>

\* As for a start: of a call that has returned, a transaction may still land.
Returned(job) ==
    [job EXCEPT !.pc = "done", !.balance = IF job.tx = "inflight" THEN @ ELSE 0,
                !.tx = IF @ = "inflight" THEN @ ELSE "none"]

\* The balance is read; with no more than the fee in it, the call throws.
BalanceRead(j) ==
    /\ withdrawals[j].pc = "reading" /\ funds[withdrawals[j].key] > 1
    /\ WithdrawalStep(j, [withdrawals[j] EXCEPT !.pc = "sending",
                                                !.balance = funds[withdrawals[j].key]])
    /\ UNCHANGED <<receipts, withdraw, portfolio>>

\* Preflight: the key still holds the amount and the fee.
WithdrawalSent(j) ==
    /\ withdrawals[j].pc = "sending"
    /\ funds[withdrawals[j].key] >= withdrawals[j].balance
    /\ WithdrawalStep(j, [withdrawals[j] EXCEPT !.pc = "sent", !.tx = "inflight"])
    /\ UNCHANGED <<receipts, withdraw, portfolio>>

\* The receipt, the status and the entry go to whatever run the store has now.
WithdrawalConfirmed(j) ==
    /\ withdrawals[j].pc = "sent" /\ withdrawals[j].tx \in {"landed", "failed"}
    /\ WithdrawalStep(j, Returned(withdrawals[j]))
    /\ withdraw' = "done"
    /\ receipts' = Append(receipts, Refund(withdrawals[j].key))
    /\ UpsertsRun("withdrawn")

\* Mutant of WithdrawalFails: the catch leaves the status as it is.
WithdrawalFailsSilently(j) ==
    /\ withdrawals[j].pc \in {"reading", "sending", "sent"}
    /\ WithdrawalStep(j, Returned(withdrawals[j]))
    /\ UNCHANGED <<receipts, withdraw, portfolio>>

WithdrawalFails(j) ==
    /\ withdrawals[j].pc \in {"reading", "sending", "sent"}
    /\ WithdrawalStep(j, Returned(withdrawals[j]))
    /\ withdraw' = "failed"
    /\ UNCHANGED <<receipts, portfolio>>

-----------------------------------------------------------------------------
(* The chain.                                                              *)

ChainStep == UNCHANGED <<storeVars, cancelled, activeLoop,
                         replays, portfolio>>

DelegationLands(k) ==
    /\ starts[k].tx = "inflight"
    /\ \E tx \in {"landed", "failed"} :
          /\ starts' = [starts EXCEPT ![k].tx = tx]
          /\ funds' = IF tx = "landed" THEN [funds EXCEPT ![k] = @ + Delegated] ELSE funds
    /\ UNCHANGED <<loops, withdrawals, orphans>>
    /\ ChainStep

\* A memo costs the session key its fee; the relayer sends the key two fees' worth.
AfterLeg(k) == [funds EXCEPT ![k] = IF RelayerMode THEN @ + 2 ELSE @ - 1]

LegLands(l) ==
    /\ loops[l].tx = "inflight" /\ loops[l].pc = "broadcast"
    /\ RelayerMode \/ funds[l] > 0
    /\ loops' = [loops EXCEPT ![l].tx = "landed"]
    /\ funds' = AfterLeg(l)
    /\ UNCHANGED <<starts, withdrawals, orphans>>
    /\ ChainStep

OrphanLands(l) ==
    /\ orphans[l] > 0
    /\ orphans' = [orphans EXCEPT ![l] = @ - 1]
    /\ RelayerMode \/ funds[l] > 0
    /\ funds' = AfterLeg(l)
    /\ UNCHANGED <<starts, loops, withdrawals>>
    /\ ChainStep

\* The fee is taken first; a transfer of more than what is left fails and
\* keeps the fee.
WithdrawalLands(j) ==
    LET k == withdrawals[j].key IN
    /\ withdrawals[j].tx = "inflight"
    /\ \/ /\ funds[k] >= withdrawals[j].balance
          /\ withdrawals' = [withdrawals EXCEPT ![j].tx = "landed"]
          /\ funds' = [funds EXCEPT ![k] = @ - withdrawals[j].balance]
       \/ /\ funds[k] \in 1..(withdrawals[j].balance - 1)
          /\ withdrawals' = [withdrawals EXCEPT ![j].tx = "failed"]
          /\ funds' = [funds EXCEPT ![k] = @ - 1]
    /\ UNCHANGED <<starts, loops, orphans>>
    /\ ChainStep

-----------------------------------------------------------------------------

Init ==
    /\ run = NoRun /\ burner = NoKey /\ approving = FALSE /\ receipt = NoKey
    /\ receipts = <<>> /\ withdraw = "idle"
    /\ cancelled = {} /\ activeLoop = NoKey /\ replays = 0
    /\ portfolio = <<>>
    /\ starts = [k \in Keys |->
                    [pc |-> "none", agent |-> NoAgent, wallet |-> NoWallet, tx |-> "none"]]
    /\ loops = [k \in Keys |-> [pc |-> "none", cycle |-> 0, tx |-> "none"]]
    /\ withdrawals = [j \in Jobs |->
                         [pc |-> "none", key |-> NoKey, balance |-> 0, tx |-> "none"]]
    /\ funds = [k \in Keys |-> 0] /\ orphans = [k \in Keys |-> 0]

UserStep ==
    \/ \E k \in Keys, a \in Agents, w \in Wallets : StartAgent(k, a, w)
    \/ StopAgent
    \/ \E j \in Jobs : WithdrawSessionKey(j)
    \/ RunReplay
    \/ ResetAgent
    \/ \E w \in Wallets : ClearForWallet(w)

\* Steps of the call that startAgent waits for.
DelegationAnswered(k) == DelegationSent(k) \/ DelegationConfirmed(k) \/ DelegationFails(k)

Cycles(l) ==
    \/ WakesDead(l)
    \/ NextCycle(l)
    \/ StageDone(l)
    \/ LegSent(l)
    \/ LegConfirmed(l)
    \/ LegThrows(l)
    \/ LegRecorded(l)

WithdrawalAnswered(j) ==
    BalanceRead(j) \/ WithdrawalSent(j) \/ WithdrawalConfirmed(j) \/ WithdrawalFails(j)

Lands ==
    \/ \E k \in Keys : DelegationLands(k) \/ LegLands(k) \/ OrphanLands(k)
    \/ \E j \in Jobs : WithdrawalLands(j)

Next ==
    \/ UserStep
    \/ ReplayVerdict
    \/ \E k \in Keys : DelegationAnswered(k) \/ Cycles(k)
    \/ \E j \in Jobs : WithdrawalAnswered(j)
    \/ Lands

Spec == Init /\ [][Next]_vars

-----------------------------------------------------------------------------

\* Type invariant: whatever became of the starts, a withdrawal is of a session key
\* (execution-store.ts:416-419).
TypeOK ==
    /\ run \in RunType \cup {NoRun}
    /\ burner \in Keys \cup {NoKey} /\ receipt \in Keys \cup {NoKey}
    /\ approving \in BOOLEAN
    /\ receipts \in Seq(ReceiptType)
    /\ withdraw \in {"idle", "running", "done", "failed"}
    /\ cancelled \subseteq Keys /\ activeLoop \in Keys \cup {NoKey}
    /\ replays \in 0..MaxReplays
    /\ portfolio \in Seq(EntryType)
    /\ starts \in [Keys -> StartType]
    /\ loops \in [Keys -> LoopType]
    /\ withdrawals \in [Jobs -> WithdrawalType]
    /\ \A j \in Jobs : withdrawals[j].pc # "none" => withdrawals[j].key # NoKey
    /\ funds \in [Keys -> Nat] /\ orphans \in [Keys -> Nat]

\* Where a list of receipts has legs.
LegsIn(list) == {i \in 1..Len(list) : list[i].kind = "leg"}

\* Every leg the store lists was signed by the session key of the run it lists
\* them under, in the order of the cycles, and legsConfirmed counts them: no loop of an
\* earlier run writes into a later one, even when two starts were pending at
\* once (execution-store.ts:565-568, 748-767).
LegsAreOfThisRun ==
    run # NoRun =>
        /\ Cardinality(LegsIn(receipts)) = run.legs
        /\ \A i \in LegsIn(receipts) : receipts[i].key = run.id
        /\ \A i, j \in LegsIn(receipts) : i < j => receipts[i].cycle < receipts[j].cycle

\* The loop that is live is the loop of the run in the store, which is running:
\* the head of the loop takes a run for granted (execution-store.ts:582-599).
LiveLoopIsTheRuns ==
    \A l \in Keys : IsLive(l) =>
        run # NoRun /\ run.id = l /\ run.mode = "running"

EndsInRefund == receipts # <<>> /\ receipts[Len(receipts)].kind = "refund"

\* The list in local storage holds a run once, after every order of legs, stops,
\* refunds, Clear and Reset.  What it holds for the present run is the store's
\* receipts, and its mode, unless a refund is the last of them, be it one of an
\* earlier run's key: that lists the run as withdrawn.  Once a start that failed has
\* taken the store's approval receipt, nothing reaches the list any more, which
\* keeps the receipts up to then (execution-store.ts:192-223, 342-347;
\* portfolio-store.ts:44-53).
PortfolioInStep ==
    /\ \A i, j \in 1..Len(portfolio) : portfolio[i].id = portfolio[j].id => i = j
    /\ run # NoRun => \A i \in 1..Len(portfolio) : portfolio[i].id = run.id =>
          /\ \E n \in 0..Len(receipts) : portfolio[i].receipts = SubSeq(receipts, 1, n)
          /\ receipt # NoKey =>
                /\ portfolio[i].receipts = receipts
                /\ \/ portfolio[i].status = run.mode
                   \/ portfolio[i].status = "withdrawn" /\ EndsInRefund

\* A run listed as stopped is never listed as running again (portfolio-store.ts:14).
StoppedStaysStopped ==
    [][\A i \in 1..Len(portfolio), j \in 1..Len(portfolio') :
          portfolio[i].id = portfolio'[j].id /\ portfolio[i].status = "stopped"
              => portfolio'[j].status # "running"]_vars

Driven == IsLive(run.id) /\ loops[run.id].pc \notin {"none", "ended"}

\* A run that shows as running has a live loop, with a timer or a request to wake it,
\* until Approve for another agent cancels that loop.  From then on nothing drives the
\* run, but then either the wallet is still asked, or it refused and the store has no
\* session key: no run is left without a loop in any other way
\* (execution-store.ts:275-277, 342-347, 560-569).
RunningIsDriven ==
    OurMode("running") =>
        \/ Driven
        \/ run.id \in cancelled /\ (approving \/ burner = NoKey)

\* The Withdraw button is disabled only while a withdrawal is under way that will
\* enable it again, be it one of an earlier run (execution-store.ts:416-465).
WithdrawAwaited ==
    withdraw = "running" =>
        \E j \in Jobs : withdrawals[j].pc \in {"reading", "sending", "sent"}

-----------------------------------------------------------------------------
(* A claim of the page that the store does not keep.                       *)

\* agent-runner.tsx:249-250: once the status is done, "Refunded - session key
\* drained."  confirmTransaction's error is not looked at (devnet-tx.ts:170-177).
DoneMeansDrained ==
    withdraw = "done" /\ run # NoRun /\ burner = run.id => funds[burner] = 0
=============================================================================
