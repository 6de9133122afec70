--------------------------- MODULE IntentPipeline ---------------------------
(***************************************************************************)
(* From a request to its effect on chain.  A job is one run of the         *)
(* relayer's executeCycle (solora_relayer/server.ts) or of executeTransfer *)
(* or executeCpi (solora_relayer/ops.ts, with an enclave over HTTP).  It   *)
(* asks the enclave (solora_enclave_v2/src/policy.rs) for a signature,     *)
(* builds a transaction around it, sends it with preflight and waits for a *)
(* confirmation.  Every await is a point where other jobs, the wallet's    *)
(* owner and the chain step in, so the enclave's two reads, the relayer's  *)
(* own, the preflight and the landing each see a state of their own.       *)
(*                                                                         *)
(* The chain is SoloraProgram: its owner, registry and chain steps happen  *)
(* at any time, while transfers and CPIs come out of the network only,     *)
(* where anyone who has seen a transaction may send its message again.     *)
(***************************************************************************)
EXTENDS SoloraProgram

CONSTANTS
    Jobs,
    Request,        \* what each job was asked for
    EnclaveKey,     \* the key the enclave holds
    NoMessage,      \* a job's message before there is one
    Slippages,      \* slippage that a verified price may amount to
    TxLife          \* blocks for which a transaction's blockhash is good, 150

\* A transfer's size and slippage say nothing.
RequestType ==
    [wallet : Authorities, payload : TransferPayloads \cup CpiPayloads,
     expirySlots : Nat, size : Nat, slippage : Nat]

\* What the enclave signs for request q.
IntentMessage(q, nonce, expiry, blockhashSlot) ==
    [signer |-> EnclaveKey, program |-> Solora, wallet |-> q.wallet, nonce |-> nonce,
     expiry |-> expiry, blockhash |-> BlockHash[blockhashSlot],
     blockhashSlot |-> blockhashSlot, kind |-> q.payload.kind, payload |-> q.payload]

ASSUME RequestAssumption ==
    /\ Request \in [Jobs -> RequestType]
    /\ EnclaveKey \in Keys
    /\ NoMessage \notin Intents
    /\ Limits \subseteq [size : Nat, slippage : Nat] /\ NoLimits \notin Limits
    /\ Slippages \subseteq Nat
    /\ TxLife \in Nat

\* Intents leaves out nothing that may be asked for within the bounds.
ASSUME SignableAssumption ==
    \A j \in Jobs : \A nonce \in 0..MaxNonce, s \in 0..MaxSlot :
        \A expiry \in 0..(MaxSlot + Request[j].expirySlots) :
            IntentMessage(Request[j], nonce, expiry, s) \in Intents

VARIABLES
    job,            \* how far each job is, and what it holds
    network,        \* transactions sent so far
    executed,       \* those that succeeded on chain
    rejected,       \* those that failed on chain
    limitsSince     \* history: limits in force since a wallet's last spend

jobVars == <<job, limitsSince>>
networkVars == <<network, executed, rejected>>
pipelineVars == <<vars, jobVars, networkVars>>

Steps == {"idle", "read", "price", "sign", "build", "send", "confirm", "ok", "failed"}
Answered == {"ok", "failed"}

\* expiry and blockhash are the relayer's, nonce and limits what the enclave
\* read; epoch and signedAt are history.
JobType ==
    [step : Steps, expiry : Nat, nonce : 0..MaxNonce, limits : Limits \cup {NoLimits},
     msg : Intents \cup {NoMessage}, blockhash : Nat, epoch : Nat, signedAt : Nat]

NewJob ==
    [step |-> "idle", expiry |-> 0, nonce |-> 0, limits |-> NoLimits,
     msg |-> NoMessage, blockhash |-> 0, epoch |-> 0, signedAt |-> 0]

TxType == [msg : Intents, blockhash : Nat]

\* Same message, payer and blockhash make the same transaction.
TxOf(j) == [msg |-> job[j].msg, blockhash |-> job[j].blockhash]

Processed == executed \cup rejected
Alive(tx) == BlocksSince(tx.blockhash) <= TxLife

\* All checks of the handler that the transaction calls.
Passes(m) ==
    LET a == m.wallet
        p == m.payload
    IN  \/ p.kind = "transfer" /\ TransferPasses(a, m, p.dest, p.amount)
        \/ p.kind = "cpi" /\ CpiPasses(a, m, p.target, p.call)

-----------------------------------------------------------------------------
(* The relayer asks.                                                       *)

\* Fetches the wallet, of which only the existence matters, and the slot.
Begins(j) ==
    /\ job[j].step = "idle"
    /\ Request[j].payload.kind = "transfer" => Request[j].wallet \in open
    /\ job' = [job EXCEPT ![j].step = "read",
                          ![j].expiry = slot + Request[j].expirySlots]
    /\ UNCHANGED networkVars

-----------------------------------------------------------------------------
(* The enclave decides.                                                    *)

\* Mutant of WithinLimits: the trade's size is not compared.
SlippageWithinLimits(q, limits) == q.slippage <= limits.slippage

WithinLimits(q, limits) == q.size <= limits.size /\ q.slippage <= limits.slippage

\* The first read.  Limits and allowlist are asked of trades, not of transfers.
ReadsWallet(j) ==
    LET a == Request[j].wallet
        p == Request[j].payload
    IN  /\ job[j].step = "read"
        /\ a \in open
        /\ wallet[a].active
        /\ p.kind = "cpi" =>
              /\ WithinLimits(Request[j], wallet[a].limits)
              /\ Contains(policy[a], p.target)
        /\ job' = [job EXCEPT ![j].step = IF p.kind = "cpi" THEN "price" ELSE "sign",
                              ![j].nonce = wallet[a].nonce,
                              ![j].limits = wallet[a].limits,
                              ![j].epoch = epoch[a]]
        /\ UNCHANGED networkVars

\* A verified price, against the limits that were read.
VerifiesPrice(j) ==
    /\ job[j].step = "price"
    /\ \E s \in Slippages : s <= job[j].limits.slippage /\ s <= Request[j].slippage
    /\ job' = [job EXCEPT ![j].step = "sign"]
    /\ UNCHANGED networkVars

\* Mutant of BuildIntentMessage: the kind byte is not the payload's.
BuildTransferMessage(q, nonce, expiry, s) ==
    [IntentMessage(q, nonce, expiry, s) EXCEPT !.kind = "transfer"]

BuildIntentMessage(q, nonce, expiry, s) == IntentMessage(q, nonce, expiry, s)

\* The second read, of SlotHashes, and the signature.
Signs(j) ==
    /\ job[j].step = "sign"
    /\ \E s \in NewestEntry :
          job' = [job EXCEPT
                     ![j].step = "build",
                     ![j].msg = BuildIntentMessage(Request[j], job[j].nonce,
                                                   job[j].expiry, s),
                     ![j].signedAt = slot]
    /\ UNCHANGED networkVars

-----------------------------------------------------------------------------
(* The relayer sends.                                                      *)

Builds(j) ==
    /\ job[j].step = "build"
    /\ job' = [job EXCEPT ![j].step = "send", ![j].blockhash = slot]
    /\ UNCHANGED networkVars

\* Preflight runs the transaction on the state of now; the answer to a send
\* that went through may be lost.
Sends(j) ==
    /\ job[j].step = "send"
    /\ Passes(job[j].msg)
    /\ TxOf(j) \notin Processed
    /\ Alive(TxOf(j))
    /\ network' = network \cup {TxOf(j)}
    /\ \E s \in {"confirm", "failed"} : job' = [job EXCEPT ![j].step = s]
    /\ UNCHANGED <<executed, rejected>>

\* confirmTransaction resolves once the transaction has a status, and nobody
\* looks at the error the status may hold.
Confirms(j) ==
    /\ job[j].step = "confirm"
    /\ TxOf(j) \in Processed
    /\ job' = [job EXCEPT ![j].step = "ok"]
    /\ UNCHANGED networkVars

\* Every await may throw: what was asked for is refused, is not there, is not
\* answered in time.  What the job held is gone, unless it has sent it.
Fails(j) ==
    /\ job[j].step \notin Answered
    /\ job' = [job EXCEPT ![j] =
                   [(IF @.step = "confirm" THEN @ ELSE NewJob) EXCEPT !.step = "failed"]]
    /\ UNCHANGED networkVars

-----------------------------------------------------------------------------
(* The network.                                                            *)

\* Anyone who has seen a message may send it again, over a later blockhash.
Resubmits(tx) ==
    /\ network' = network \cup {[tx EXCEPT !.blockhash = slot]}
    /\ UNCHANGED <<executed, rejected>>

Executes(tx) ==
    LET a == tx.msg.wallet
        p == tx.msg.payload
    IN  /\ tx \notin Processed
        /\ Alive(tx)
        /\ \/ p.kind = "transfer" /\ ExecuteTransfer(a, tx.msg, p.dest, p.amount)
           \/ p.kind = "cpi" /\ ExecuteArbitraryCpi(a, tx.msg, p.target, p.call)
        /\ executed' = executed \cup {tx}
        /\ UNCHANGED <<network, rejected>>

\* The program's checks fail, or the program that a CPI invokes does.
Rejects(tx) ==
    /\ tx \notin Processed
    /\ Alive(tx)
    /\ ~Passes(tx.msg) \/ tx.msg.kind = "cpi"
    /\ rejected' = rejected \cup {tx}
    /\ UNCHANGED <<network, executed>>

-----------------------------------------------------------------------------

PipelineInit ==
    /\ Init
    /\ job = [j \in Jobs |-> NewJob]
    /\ network = {} /\ executed = {} /\ rejected = {}
    /\ limitsSince = [a \in Authorities |-> {}]

JobStep(j) ==
    \/ ReadsWallet(j) \/ VerifiesPrice(j) \/ Signs(j)
    \/ Builds(j) \/ Sends(j) \/ Confirms(j)
    \/ Fails(j)

\* What everybody else does to the chain.
OtherStep ==
    \/ \E a \in Authorities : OwnerStep(a)
    \/ \E a \in Authorities, m \in Proofs, payer \in Accounts :
          RegisterEnclaveV2(a, m, payer)
    \/ \E g \in Governors : RegistryStep(g)
    \/ ChainStep

SpendsFrom(a) == \E r \in consumed' \ consumed : r.wallet = a

\* A wallet's history of limits starts anew when it accepts a message.
RemembersLimits ==
    limitsSince' =
        [a \in Authorities |->
            IF a \notin open' THEN {}
            ELSE {wallet'[a].limits} \cup (IF SpendsFrom(a) THEN {} ELSE limitsSince[a])]

PipelineNext ==
    \/ /\ \E j \in Jobs : Begins(j) \/ JobStep(j)
       /\ UNCHANGED <<vars, limitsSince>>
    \/ /\ \E tx \in network : Resubmits(tx) \/ Rejects(tx)
       /\ UNCHANGED <<vars, jobVars>>
    \/ (\E tx \in network : Executes(tx)) /\ RemembersLimits /\ UNCHANGED job
    \/ OtherStep /\ RemembersLimits /\ UNCHANGED <<job, networkVars>>

PipelineSpec == PipelineInit /\ [][PipelineNext]_pipelineVars

-----------------------------------------------------------------------------

\* Type invariant: whatever the enclave signs is one of the messages that the
\* program knows, its kind the payload's (policy.rs:70-79, 153-162).
PipelineTypeOK ==
    /\ job \in [Jobs -> JobType]
    /\ network \subseteq TxType
    /\ executed \subseteq network /\ rejected \subseteq network
    /\ limitsSince \in [Authorities -> SUBSET Limits]

Spends == {r \in consumed' \ consumed : r.use = "spend"}

\* A message takes effect before Window blocks were made since it was signed,
\* however long it was held back, by whomever and in however many transactions
\* (policy.rs:179-180, verify.rs:85-99).
StaleIntentNeverLands ==
    [][\A r \in Spends, j \in Jobs :
          r.msg = job[j].msg => BlocksSince(job[j].signedAt) < Window]_pipelineVars

\* Nor does it later than the slots that the request allowed, counted from its
\* signature, a later resubmission included (server.ts:94-95, ops.ts:692-693,
\* verify.rs:80-83).
ExpiredIntentNeverLands ==
    [][\A r \in Spends, j \in Jobs :
          r.msg = job[j].msg =>
              slot <= job[j].signedAt + Request[j].expirySlots]_pipelineVars

\* The enclave judges a trade by limits it has read some time before, and the
\* owner may change them meanwhile.  Still a trade that takes effect was within
\* limits that were in force at some time since the wallet's previous spend
\* (policy.rs:97-123), but for a reset of the nonce in between.
TradeWithinRecentLimits ==
    [][\A r \in Spends, j \in Jobs :
          (r.msg = job[j].msg /\ r.msg.kind = "cpi" /\ r.epoch = job[j].epoch) =>
              \E limits \in limitsSince[r.wallet] :
                  /\ Request[j].size <= limits.size
                  /\ Request[j].slippage <= limits.slippage]_pipelineVars

\* The SDK's executeTransfer returns, and does not throw, when the relayer's
\* answer is not an error and holds a signature.
ExecutionResult(j) == job[j].step = "ok"

\* packages/soloraa-sdk/README.md:100: executeTransfer "Throws
\* `SoloraaExecutionError` on on-chain rejection".  The relayer answers with
\* success for a transaction that was rejected (server.ts:134-141).
SuccessMeansExecuted == \A j \in Jobs : ExecutionResult(j) => TxOf(j) \in executed
=============================================================================
