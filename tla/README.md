# Solora in TLA+

A model of the Solora wallet: an on-chain program that moves a wallet's funds
on messages signed by an enclave, the enclave that signs them, and the services
around the two. The modules are translated from the sources, the runs
check them with TLC on small instances, and the proof modules prove
the main results with TLAPS for every value of the constants.

## Inventory

| Component | State it keeps | Operations | What is hard | What makes it correct |
|---|---|---|---|---|
| Wallet program (`programs/solora/src`) | one account per authority: `enclave_signer`, `nonce`, `is_active`, `unlock_timestamp`, limits, allowlist; its lamports; one `MeasurementRegistry` | 13 handlers | any key may submit any signed message at any time, again and again; two handlers reset the nonce; an emptied account is deleted and may be made anew | each nonce used once and in order, funds leave only by an intent or by the timelock, CPIs only to granted programs, revoked images never back a rotation, the escape always ends |
| Enclave: decisions (`solora_enclave_v2/src/policy.rs`, `routes.rs`) | none between requests | `sign-transfer-intent`, `sign-trade-intent` | two RPC reads of "confirmed" state before a signature, each stale when used | what it signs was allowed by the policy it read; a trade's price was within the slippage limit |
| Enclave: prices (`pyth.rs`, `wormhole.rs`) | guardian set | parse and verify one update | quorum, Merkle path, integer scaling | quorum of distinct guardians, the scaled price is the signed one |
| Enclave: key (`enclave_key.rs`, `attestation/`) | the key file | load or generate, attest | a crash in the write; a new key after the loss of the file | one key over restarts, the attested key is the serving key |
| Relayer (`solora_relayer/server.ts`) | none between cycles | `executeCycle` | cycles run concurrently and share one nonce; a confirmation that failed | a reported execution took place, a withheld intent dies |
| Relayer operations (`ops.ts`, `oyster_attestation.ts`) | none; a command is a script of operations | registry, wallet, funding, registration, allowlist, transfer, CPI, two demos | every operation reads, sends and confirms in separate requests; two of the ways to confirm hide a failure; the container reruns `demo-local` over what a crashed run has left | a rerun sets the wallet up, what is landed was signed over what was read, a replay that is accepted is explained |
| SDK (`packages/soloraa-sdk`) | none | HTTP client, `verifyIntent` | - | a returned result means an execution |
| Frontend agent runner (`soloraa_frontend/lib/execution-store.ts`, `devnet-tx.ts`, `portfolio-store.ts`) | the run, its session key, the live loop, receipts, the list of runs | start, stop, reset, withdraw, replay, the loop, clear | every operation awaits the network with module globals in between; transactions that land late or never | at most one live loop, which is the run's; receipts, count and list agree; a withdrawal that is shown as done has drained the key |
| Frontend strategies (`strategies.ts`) | inventory, spent budget, last action | `tick`, `summary` of six strategies | state advances before the leg is sent; bounded by the order of decisions | position and budget stay in bounds, the page shows what was sent |
| Frontend price feed (`pyth-feed.ts`) | latest price, stale timer, count of users | subscribe, update, tear down | timer against update and tear-down | a price is live only while something will end that |

The enclave reads the program's accounts over RPC; the relayer asks it for
signatures and submits transactions with the Ed25519 instruction before the
program's; the program reads both of them from the instructions sysvar and the
blockhash from SlotHashes; the frontend runs agents of its own with a session
key, on prices of its own feed.

## What is modelled

| Module | Models | How |
|---|---|---|
| `Policy` | `struct Policy`, its membership test and the two changes of its array | operators only: array with a count, append, swap-remove |
| `Allowlist` | `add_allowed_program`, `remove_allowed_program` on one wallet | state machine over `Policy` |
| `AllowedSet` | what an allowlist promises | a set; `Allowlist` refines it |
| `Registry` | `struct MeasurementRegistry` and its lookups and changes | operators only; append-only sequence of entries |
| `SoloraProgram` | every handler of the program and both verifiers | one action per handler; EXTENDS `Policy` and `Registry` |
| `IntentPipeline` | the enclave's decisions, the relayer's `executeCycle`, `executeTransfer` and `executeCpi`, the network | jobs that interleave with each other and with every step of the program; EXTENDS `SoloraProgram` |
| `Operations` | the relayer's command line, `ops.ts` | processes that read, send and confirm, over every step of the program they send; EXTENDS `SoloraProgram` |
| `ExecutionStore` | the browser's agent runner | one action for what JavaScript runs between two awaits |
| `Strategies` | the six strategies | operators only: a tick maps a state to the set of its outcomes |
| `PriceFeed` | the shared price stream and its staleness timer | actions for hook, stream and timer |
| `StrategyLoop` | a run as strategy and feed see it | composes `Strategies` and `PriceFeed` with the outcomes of a leg |
| `MCAllowlist`, `MCSoloraProgram`, `MCIntentPipeline`, `MCOperations`, `MCExecutionStore`, `MCStrategies` | - | small instances |
| `PolicyProofs`, `AllowlistProofs`, `SoloraProgramProofs`, `FundsProofs`, `PipelineProofs`, `OperationsProofs`, `ExecutionStoreProofs`, `StrategyProofs` | - | theorems |

### `SoloraProgram`

A step is a successful transaction with one instruction of the program. A
handler that fails a check fails the transaction, and the runtime rolls back
what it did, so each `require!` is a guard and a failing call is no step. The
state is what the accounts hold:

* `open` is the set of authorities whose wallet account exists, `wallet`,
  `policy` and `lamports` its data and balance. A wallet's address is derived
  from its authority, so the authority names it.
* `governor` and `entries` are the registry, `NoGovernor` standing for an account
  that does not exist. Whoever calls `init_measurement_registry` first is governor.
* `slot` and `now` are the two clocks the program reads.
* `epoch`, `baseSigner`, `granted`, `initiatedAt`, `revoked` and `consumed` are
  history. The properties read them, no guard does but for the bound `MaxEpoch`.

Messages are constants: `Intents` and `Proofs` are sets of all the messages
that keys may ever have signed, and a step may submit any of them at any time.
This is the weakest thing to assume of enclave, relayer and governor, so replay, reordering,
delay and loss need no further modelling: a message that is never
submitted is lost. What the program checks is whether a message is bound to
this program, wallet and nonce, is fresh, and covers the call.

Facts of the runtime that matter: an account that ends a transaction with no
lamports is deleted, so `ExecuteEscape` closes the wallet, and `InitializeWallet`
may make it anew with nonce zero; `Deposit` may credit an address at any
time, before the account exists too; and the sysvar SlotHashes holds the latest `Window`
blocks, not slots. `Blocks` are the slots that hold one, so `InSlotHashes` reaches further back
where slots were skipped, and a skipped slot has no entry.

Abstracted: equal payload hashes mean equal payloads; Ed25519 signatures
are a field naming the key; the offsets and lengths of messages; the labels and slots
of registry entries; events and log lines. The program invoked by a CPI cannot debit a wallet
(only the owning program can) nor re-enter this one with a signature, but it may credit
any wallet, as a System transfer from the payer does: `ExecuteArbitraryCpi` advances the nonce and
adds any amounts to the balances.

### `IntentPipeline`

A job is one run of `executeCycle` (server.ts), or of `executeTransfer` or
`executeCpi` (ops.ts) with an enclave over HTTP. Jobs run concurrently and
share nothing but the wallet, whose nonce they compete for. Each `await` ends
an action, so that other jobs, the owner, the governor and the clock step in
between:

| Action | Code | What it reads or does |
|---|---|---|
| `Begins` | the relayer's first RPC calls | that the wallet exists, the slot, from which the expiry is computed |
| `ReadsWallet` | `decide_transfer`, `decide_trade`: the wallet account | pause, nonce; for a trade limits and allowlist |
| `VerifiesPrice` | the price update | against the limits read one step before |
| `Signs` | the SlotHashes account, then the signature | the newest blockhash; the nonce is the one of `ReadsWallet` |
| `Builds` | `getLatestBlockhash` | the transaction's own blockhash |
| `Sends` | `sendRawTransaction` with preflight | runs all checks on the state of now; the answer may be lost |
| `Confirms` | `confirmTransaction` | waits for a status, does not look at its error |
| `Fails` | the `catch` | any await may throw |
| `Resubmits`, `Executes`, `Rejects` | the network | a transaction lands once, while its blockhash is good, or never; its message may be sent again by anyone in a new one |

The chain's state is that of `SoloraProgram`, and its steps are too: owner,
registry, rotation and clock step at any time (`OtherStep`), transfers and CPIs
come out of the network only. Here messages are no longer assumed: the enclave
makes them, and `SignableAssumption` says that `Intents` contains whatever it
can be brought to sign within the bounds.

`signedAt`, `epoch` and `limitsSince` are history. Abstracted: a transaction is
a message and a blockhash; a price is the slippage it amounts to
(`Slippages`); the relayer's option of signing with a mock enclave in
its own process is left out.

### `Operations`

A job is one process of the command line: `Script` gives the operations that a command
runs, `ReadsOf` the requests each makes before it sends, in the order of the code.
`Asks` and `Reads` are those requests, one action for each kind (`ReadsKey`, `ReadsNonce`,
`ReadsSlot`, `ReadsHash`, `ReadsBalance`, `ReadsAccount`, `ReadsAttestation`), `Sends`
the transaction with its preflight, `Lands` its execution, `Confirmed` and `Refused`
what the job learns, `Replays` the second sending of `--replay`. `Effect` runs the very
handlers of `SoloraProgram`, and `Passes` is their guards as preflight sees them.

* `tryOp` of the two demos goes on after an exception, every other command ends
  (`AfterException`).
* `rpc()` and `sendAndConfirmTransaction` throw when the transaction fails on
  chain; `connection.confirmTransaction` resolves. `Unchecked` names the operations that use
  the latter and take a failed transaction for a confirmed one.
* `Unsendable` operations never leave the process: `--system-transfer` names
  the wallet PDA as a signer, and the label of the Oyster measurement is passed as a string
  where the instruction's coder wants bytes. So `register-oyster-enclave` stops after the
  attestation, before the rotation. (Past that, the measurement would be a PCR of 48
  bytes where the program has 32, and the error it catches, `MeasurementAlreadyPresent`, is not the
  program's `DuplicateMeasurement`.)
* A request may fail (`Throws`), the process may die (`Crashes`); what it has
  sent may still land (`StrayLands`). The enclave may come back with another
  key (`EnclaveRestarts`). A job may be run again by another one, as the container that
  runs `demo-local` on each boot is (README.md:104, docker-compose.yml:68-76).
* `demo-local` asks only whether there is an account at the wallet's address. Lamports
  there are one (`FundedWithoutWallet`), so it then skips `init_wallet`.

All jobs have the same keypairs, image and amounts. `clean` is history: the jobs
that no fault and no other job's effect has disturbed, and whose message has not expired
before it landed (`Expires`). `SignableAssumption` says that `Intents` and `Proofs`
contain whatever the jobs can have signed within the bounds. A `cpi --replay` sends
the identical bytes, which the runtime takes for the same transaction, and is left out.

### `ExecutionStore`

The variables are the fields of the store, the module's globals (the cancel flags, the active
loop, the replays whose verdict is awaited), the list in local storage and the async calls under way: `starts`,
`loops`, `withdrawals`, each a program counter with the local variables that survive its awaits.
An action is what runs between two awaits:

| Actions | Code |
|---|---|
| `StartAgent`; `DelegationSent`, `DelegationConfirmed`, `DelegationFails` | `startAgent` up to the wallet's answer, and `delegateToBurner` |
| `NextCycle`, `WakesDead`, `StageDone`, `LegSent`, `LegConfirmed`, `LegThrows`, `LegRecorded` | `startLoop`, stage by stage, and `sendMemoWithSigner` |
| `StopAgent`, `ResetAgent`, `RunReplay`, `ReplayVerdict`, `ClearForWallet` | the buttons; the replay's timer |
| `WithdrawSessionKey`; `BalanceRead`, `WithdrawalSent`, `WithdrawalConfirmed`, `WithdrawalFails` | `withdrawSessionKey`, `withdrawFromBurner` |
| `DelegationLands`, `LegLands`, `OrphanLands`, `WithdrawalLands` | validators: a transaction lands at any time, succeeds or fails by the balance it finds |

Buttons are enabled as the pages enable them (`OurMode`, `MayApprove`): an agent's
page shows the store's run only if it is of that agent, so the user may start a second agent
while the first runs, or while its delegation is pending and the page left. Abstracted:
lamports are counted in fees; a withdrawal that has returned keeps of its locals only the
transaction that may still land (`Returned`); notional, texts, events and the strategy's state are left
out; a loop's price is live or stale whenever it looks. With `RelayerMode` the leg is
a transfer that the relayer makes to the session key.

### `Strategies`, `PriceFeed`, `StrategyLoop`

A strategy's `tick` maps its state to the next one, a memo and a notional. `Math.random` and
the walks of rates and weights become the set of outcomes: a better venue or none, a drift
over the band or under it. Inventory and budget are kept, in hundredths of a SOL and
whole USDC, prices and profits are not. `DcaShown`, `ArbShown`, `TreasuryShown`,
`PortfolioShown` are the counts that the summaries show. Those of the two rebalancers leave
out a trade until a later cycle has settled it (`Unsettled`), and the treasury's counts
a rebalance for every snapshot without drift, when nothing was traded; `calm` is the
history of those.

`PriceFeed` counts the mounted hooks, opens and closes the stream, and keeps the timer
of 30 seconds that marks the price stale. `StrategyLoop` ticks when the snapshot is live,
and the leg is confirmed, fails, or is cut off by Stop.

## Runs

| Run | Question | Instance | Result |
|---|---|---|---|
| `allowlist` | Is the swap-remove array a set? | 6 ids, 4 slots | holds |
| `spend` | Can submissions in any order break the nonce, the signer's succession, the balance, the allowlist or a revocation? | 1 owner, 2 accounts that may govern, 2 enclave keys, intents for nonces 0-3 (transfers and CPIs to the program with the all-zero id), 2 attestations, a skipped slot, 1 image, 2 lives of the account | holds |
| `pair` | Do two wallets under one key interfere? | 2 owners, 4 intents that pay each other, oneself, an outsider | holds |
| `escape` | Does the owner get the funds in the end? | 1 owner, 1 intent, 1 attestation, delay 2 | holds under `EscapeSpec` |
| `rotation_cosigned` | Does a rotation need the authority's signature, as README.md says? | 2 accounts | violated |
| `intent_replay` | Can an intent take effect twice? The trust model says no. | 1 intent | violated |
| `pipeline` | Can what is read too early or sent too late have an effect? | 1 owner, a transfer and a trade, 2 settings of the limits, nonces 0-2, slots 1-4 of which one is skipped | holds |
| `success_means_executed` | Does the relayer's success mean that the transfer took place, as the SDK's README says? | 1 owner, 2 transfers | violated |
| `operations` | Do the scripts do what they are for, beside one another, after a crash or a failed request? | 2 jobs of 7 commands, target 4, 1 fault, nonces 0-6 | holds |
| `agent` | Do run, loop, receipts and list agree whatever overlaps? | 2 agents, 3 starts, 2 withdrawals, 2 replays, 1 cycle, 1 stage before the broadcast, a list of 2 | holds |
| `withdraw_drained` | Is a session key empty once its withdrawal is done, as the page says? | the same with 2 starts, 1 withdrawal and 1 replay | violated |
| `strategies` | Do positions, budgets and what is shown stay true over failed legs, and does a live price always end? | 6 kinds, 6 cycles, 2 mounted hooks | holds |

Why the bounds suffice. Every comparison in the code is between two
values of the same kind (nonce against nonce, slot against expiry, time against unlock, balance
against minimum), so what matters is that every order of the two occurs. In
`spend` the nonce reaches its bound `MaxNonce` and stops there, intents expire
(`MaxSlot` is past the expiry), their blockhash leaves the window
(`Window` = 2 blocks, of the three before `MaxSlot` = 4: slot 2 is skipped), the balance is spent down to `RentMin`, and the
account is emptied and made anew (`MaxEpoch` = 2: once by `initialize_wallet`
and once by a reset or a second `initialize_wallet`). Intents for the nonces
that come after the rotation are signed by the former and by the new key.
`InitiateTimelock` is cut off where its deadline would pass `MaxTime`, so that
every pending deadline lies within the modelled time. `MaxLamports` bounds deposits
and incoming transfers.

In `pipeline` the chain has the slots 1 to 4 with slot 2 skipped, and SlotHashes holds `Window` = 2
blocks. A transfer may be late by 1 slot and a trade by 3, so the expiry stops the one while its
blockhash is still in the window, and the window stops the other before its expiry; an intent signed
in slot 1 lands in slot 3. A transaction's own blockhash lasts one slot (`TxLife` = 1), so what lands
later than that was submitted again. The transfer moves nothing: `pair` and `spend` have the amounts.
The nonce is reset in no behaviour (`MaxEpoch` = 1; `RegisterEnclave` and a second `InitializeWallet` need
another epoch), and the theorems cover that. Two jobs are the fewest
that compete for a nonce, and of two settings of the limits one allows the trade, so the owner
may tighten and loosen them around the enclave's read.

In `operations` two jobs are the fewest that interfere. The commands are both
demos and those that undo what a demo does: a revocation, a change of governor, a removal
from the allowlist, a rotation and a CPI that takes the nonce. The target exceeds what one run
pays out, so a rerun tops up; `MaxNonce` is past what two demos use, so no
nonce is refused for the bound; with `MaxSlot` = 2, of which slot 1 is skipped, and `ExpirySlots` = 1 messages can be signed and can expire
at every point of a job. `Amounts` holds all that a top-up to the target may have to pay. `MaxFaults` = 1 puts the
fault at every point of every run. Jobs are interchangeable, hence the symmetry.

In `agent` two starts overlap, with one agent's loop running while the wallet is asked for the other, and a
third comes while the second is pending and the first one's legs are under way. A second withdrawal is of
another run's key, a second replay one that is clicked before the verdict on the first. Third start and
withdrawals, which are most of the states, are not explored together (the constraint `ThirdStartAlone`).
One stage before the broadcast stands for five that are alike (`StageDone`), and
`Delegated` = 3 fees pay for a leg and leave something to withdraw. A list of 2 shows a run
listed twice, and overflows at a third. With `MaxCycles` = 1 no run has two legs, so the clause of
`LegsAreOfThisRun` on the order of cycles says nothing here and is left to its theorem. The
relayer's mode is not run either (the proofs cover it): there a leg adds to the session key and cannot
fail for want of a fee.

In `strategies` the fill and trim sizes are the smallest and the
largest the code draws, `Threshold` is the code's, and six cycles go round the three DCA tranches twice and
through the longest sequence of watching, trading and settling twice.

`agent`, `withdraw_drained`, `strategies` and `operations` have the deadlock check off: they
end when the bounded calls of the user are used up. In the others the clock bounds
leave `TogglePause` and `UpdatePolicy` enabled once a wallet exists, and one can always
be made.

**Fairness.** Only `EscapeSpec` has any: weak fairness of the clock, which runs
by itself, and of `ExecuteEscape(a)`, the authority's own call. A pending
escape is disabled by nothing the others can do: that is what `escape` shows. Its one
exit is a renewed `InitiateTimelock` by the owner, which pushes the deadline on;
`MaxTime` bounds how often. An owner who renews for ever never gets the funds.
No assumption is made on enclave, relayer, governor, or the landing of anyone
else's transactions.

## What the violations say

* A rotation needs the governor's signed message and nobody else's signature:
  `RegisterEnclaveV2` (lib.rs:617-635) has no signer among its accounts, and the
  relayer sends it as the governor.
* `register_enclave` sets the nonce to zero, so an intent accepted before it is
  accepted again while its expiry and blockhash hold. The run
  re-registers the same key.
* The relayer's success means that the transaction has a status. A pause, or
  another transfer on the same nonce, between preflight and landing makes it fail on
  chain; `confirmTransaction` resolves with the error in its value
  (server.ts:134-141), which is not looked at, and the SDK reports an execution.
* A withdrawal sends the balance it read, less the fee. A leg sent before Stop that lands
  in between takes its own fee, the transfer fails on chain, `confirmTransaction`
  resolves (devnet-tx.ts:170-177), and the status is done: the page says that the key is
  drained and takes the button away, and Reset drops the key.

Other flaws and divergences are plain to read and have no run.
`demo-local` (ops.ts:997-1010) takes lamports at the wallet's address for a wallet: if `init_wallet` fails and
the funding after it succeeds, every rerun finds an account, skips `init_wallet` and never sets up.
No document speaks of the case; `DemoSetsUp` leaves it out by name, and `WalletBeforeFunds` says that it
takes a fault. Approve for a second agent stops the first one's loop before the wallet is asked
(execution-store.ts:275-277), and if the wallet refuses, the first agent's page shows a run that nothing
drives and whose session key is gone: `RunningIsDriven` states this as the one exception. Likewise a start that
fails late takes the approval receipt (execution-store.ts:344) of the run that has begun since, and nothing
of that run reaches the list in local storage any more: `PortfolioInStep` states what is listed still. A refund of an earlier
run's key lists the present run as withdrawn. `register_enclave` installs any
key on the authority's word (lib.rs:141-154), while docs/trust_model.md:152-155 says that
the authority alone cannot install a signer; and `revoke_measurement` keeps the slot (lib.rs:373-376),
while the text of the full registry's error (error.rs:73) advises to revoke one.

## What is proved

From the assumptions named in the modules, and nothing else:
`ProgramsAssumption`, `MaxAllowedAssumption`, `MaxMeasurementsAssumption`,
`AccountsAssumption`, `FiniteAssumption` (there are finitely many authorities: a key has
32 bytes), `MessagesAssumption`, `LamportsAssumption`, `BoundsAssumption`, `BlocksAssumption`; for the
pipeline also `RequestAssumption` and its `SignableAssumption`; for the command line
`OperationsAssumption` and its `SignableAssumption`; for the strategies
`StrategiesAssumption` and `LoopAssumption`; for the agent runner `StoreAssumption` alone.
TLC evaluates each of them on the runs. The theorems hold for any number of wallets, keys,
messages, jobs, agents, starts and hooks, any sizes of arrays, and any bounds:

| Theorem | States |
|---|---|
| `TypeCorrect` | `Spec => []TypeOK` |
| `NonceOrder` | `Spec => []NonceSpentInOrder` |
| `SignerOrder` | `Spec => []SpentUnderSignerInForce` |
| `EffectOnce` | `Spec => []MessageTakesEffectOnce` |
| `RentKept` | `Spec => []RentExempt` |
| `FundsGuarded` | `Spec => FundsLeaveByIntentOrTimelock` |
| `CpiGuarded` | `Spec => CpiTargetGranted` |
| `RevocationFinal` | `Spec => RevocationIsFinal` |
| `LamportsAreConserved` | `Spec => LamportsConserved` |
| `PipelineTypeCorrect` | `PipelineSpec => []PipelineTypeOK` |
| `PipelineImplementsProgram` | `PipelineSpec => Spec` |
| `StaleIntentDies` | `PipelineSpec => StaleIntentNeverLands` |
| `ExpiredIntentDies` | `PipelineSpec => ExpiredIntentNeverLands` |
| `TradeJudged` | `PipelineSpec => TradeWithinRecentLimits` |
| `PipelineSafe` | the program's theorems hold of `PipelineSpec` too |
| `OperationsTypeCorrect` | `OperationsSpec => []OperationsTypeOK` |
| `OperationsImplementProgram` | `OperationsSpec => Spec` |
| `MessagesLandOnCurrentNonce` | `OperationsSpec => ReadsStillTrue` |
| `ReplaysAreRefused` | `OperationsSpec => ReplayOnlyAfterFailure` |
| `UndisturbedDemoSetsUp` | `OperationsSpec => []DemoSetsUp` |
| `WellFormedAlways` | `Allowlist!Spec => []AllowlistWellFormed` |
| `AllowlistTypeCorrect` | `Allowlist!Spec => []TypeOK` |
| `AllowlistImplementsSet` | `Allowlist!Spec => AsSet!Spec` |
| `StoreInvariance` | `ExecutionStore!Spec => []StoreInv` |
| `LiveLoopIsTheRunsHolds`, `RunningIsDrivenHolds`, `LegsAreOfThisRunHolds`, `WithdrawAwaitedHolds`, `PortfolioInStepHolds` | `ExecutionStore!Spec => []` of the property each is named for |
| `StoreTypeCorrect` | `ExecutionStore!Spec => []TypeOK` |
| `StoppedStaysStoppedHolds` | `ExecutionStore!Spec => StoppedStaysStopped` |
| `StrategyTypeCorrect` | `StrategyLoop!Spec => []TypeOK` |
| `LivePriceIsTimed` | `StrategyLoop!Spec => []LiveIsTimed` |
| `InventoryStaysBounded` | `StrategyLoop!Spec => []InventoryBounded` |
| `SummariesCountWhatWasSent` | `StrategyLoop!Spec => []ShownIsSent` |
| `NoTwoTradesRunning` | `StrategyLoop!Spec => WatchesBetweenTrades` |

`PolicyProofs` and the first part of `SoloraProgramProofs` state what the operators on the two arrays
return and preserve (that a swap-remove drops exactly the id named, that the
first entry found for a measurement is the only one), and
the others cite them.

The invariants are not inductive as they stand:

* The nonce. `NonceInv` (in `SoloraProgramProofs`) says of every wallet, open or
  not, that records never belong to a later epoch than the current one, that
  those of the current one lie below the nonce, one for each value, and that the
  signer is the one the last rotation installed. The 18 kinds of step fall into
  four (`StepKinds`): `Untouched`, `Consumes` one message at the current nonce,
  `Resets` to a new epoch with nonce zero, `Closes` the account. Each
  preserves `NonceInv`; the three theorems follow.
* Funds. `TimelocksKept`: a wallet with a deadline has
  an `initiatedAt` a full `Delay` before it, and without one a zero deadline. With it the
  escape's guard gives the delay.
* CPIs. `GrantsKept`: the array's members are the history's grants, and the array is well
  formed, without which a removal would not withdraw the id.
* Revocation. `RevocationsKept`: entries are distinct, and every measurement revoked is
  there with status revoked. Without distinctness the
  first match might be an older or newer entry.
* Lamports. `LamportsConserved` speaks of a fold over the authorities. The library's
  theorems on folds and on induction take operators, so the sum is built anew: `Sums(f, b, U)` says that the function
  `f` gives the sum of the balances `b` over every subset of `U`, taking the terms in the order of
  the fold. `SubsetInduction`, from the well-foundedness of strict inclusion, shows that
  two such functions agree, that one exists, and that the fold is it; `TotalOfChange` that
  one balance's change is the total's; `MovedTotal` that a transfer between two wallets, or
  from a wallet to itself, changes nothing.
* Expiry. `PipelineInv` says of every job (`JobInv`) that what it holds
  is what its step promises: the expiry is at most `expirySlots` past a slot
  that has been, the message is `IntentMessage` of the job's own fields, over the newest block
  before `signedAt`. The program's guards then give the bound on the slot and, as there is
  one block more since that block than since `signedAt` (`OneBlockBefore`), the bound on the blocks.
* Limits. The enclave's judgement is about limits read earlier. `ReadInv` says of a
  job that has read, in the wallet's current epoch and at its current nonce, that the limits
  read are in `limitsSince`. A change of limits adds to the history, and a spend, which starts it anew, moves
  the nonce past the job's. So a message that is accepted at its nonce
  was judged by limits of the current history.
* The agent runner. `StoreInv` conjoins a type invariant, three of the properties, that no live loop has lost what wakes it
  (`LiveLoopWakes`), and `LegsOfEarlierCycles`: what a live loop has recorded is of its earlier cycles, without
  which the receipts would not be in order of their cycles. Without `LiveLoopIsTheRuns`
  a leg might be recorded under another run's; without the type invariant's
  clause on `starts` a delegation confirmed late would have no agent. The steps
  fall into kinds with a lemma each: those that touch no loop and no receipt
  (`Quiet`), those that cancel the loop (`CancelKeeps`), those that move one (`MoveKeeps`),
  the record of a leg (`RecordedKeepsRun`) and those of a delegation, whose
  confirmation makes a new run (`DelegationKeepsRun`).
* A run that shows as running. `HeldInv` beside `StoreInv`: a loop is cancelled or active only once its start was
  confirmed, without which a new run might begin with a cancelled loop; and a running run without a live loop was
  cancelled by an Approve.
* The agent's list. It needs `ListInv`: no run is listed twice, every run that is listed, like the
  store's, comes from a start that has been confirmed and will not be again, what is listed as stopped does not
  run, and what is listed of the present run agrees with the store. Without the first an update might reach one of two entries, without the second
  a new run might take the id of an old entry. The steps fall into three kinds by what they do to the
  list (`ListsNothing`, `ListsRun`, `ListsNewRun`), and `UpsertedFacts` and the lemma on the filter say what the
  list's two operations leave. A step that changes the receipts without listing them may do so only where the store
  has no approval receipt (`ListsNothing`); there `BeginningFacts` keeps what is listed a beginning of them.
* The command line. `OpsInv` says of every job (`JobInv`) that it stands within its script,
  has read what it has read (a key that the enclave serves, slots that have been) and
  has read all before it sends, without which a transaction would not be among `Intents` or
  `Proofs`. With it `EffectIsStep` makes a landing a handler of the program.
  `ReadsStillTrue` follows from the program's `NonceInv`: the nonce the message is accepted at is
  above all that were spent. `ReplayOnlyAfterFailure` needs `SpentInv`: the message of a job
  whose transaction has landed lies below the wallet's nonce for good, as nothing that a command
  sends resets it.
* The demo. `DemosInv` says of every undisturbed run of `demo-local` what its first `d`
  operations have achieved (`SetUp(d)`) and that what it has read for the present one is
  true (`Prepared`). An operation that fails on the way, because its effect is there already,
  has achieved the same (`DemoRefusal`): that is why a rerun works. A run that finds an account and no wallet
  is not among them. This rests on `HomeInv`: the registry's entries and the owner's
  grants are those of this relayer, so "full" means "mine", and a lone revoked entry was revoked in the history.
* The strategies. `RunInv` adds to the properties that a strategy's last action shows that it
  traded (`TradeShows`), without which `WatchesBetweenTrades` does not follow, and each strategy has
  a lemma on what a tick does to its state, the unsettled trade and the snapshot without one included. `FeedInv` adds to `LiveIsTimed` that a stream has a hook
  mounted, without which an update would make a price live with nobody to end it.

`PipelineImplementsProgram` and `OperationsImplementProgram` are refinements: under the identity
mapping, a step of a job is a stutter of the program and a landing is one of its handlers. So all
that is proved of `Spec` for arbitrary messages holds for those that relayer and enclave make.

Each invariant was first checked by TLC on the instance of a run: of `spend` and `pair`, `pipeline`,
`operations`, `agent` and `strategies`.

Only model-checked are `EscapeReachable`, a liveness property under fairness, as neither
that nor ENABLED is in the provers' reach, and `WalletBeforeFunds`, which would need an invariant on what every command
has achieved before each of its operations. The violations are TLC's, too.

## What is not modelled

* The enclave's prices (`pyth.rs`, `wormhole.rs`, the slippage in `policy.rs`): functions without
  state, over integers of 64 and 128 bits and up to nineteen guardians. On the
  small integers that TLC enumerates the scaling never matters, and what their loops
  compute is beyond the provers. `IntentPipeline` takes the verdict as a choice.
* The enclave's key file and attestation providers: files and HTTP at start-up. What they do to the rest,
  another key after a restart and an attestation over the key that is asked for, is in `Operations`.
* The bytes of messages, the parsing of the Ed25519 instruction and the binary search over
  SlotHashes: the verifiers take their answers.
* The signatures of the attestation document, which the code does not verify either
  (oyster_attestation.ts:19-30).
* That a job or a call is answered. Each await has a timeout of a library's, if any,
  and no code that runs again on its own; so liveness is stated only where the code is
  the last to act, in the escape.
* Amounts, prices and profits in the browser; events and messages shown.
* Pages, the catalogue of agents, the animated replay demonstration, the legacy
  `solora_enclave`, the smoke test, scripts and deployment; `verifyIntent` of the SDK, a
  stateless repetition of the program's first checks.
