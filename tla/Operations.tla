----------------------------- MODULE Operations ------------------------------
(***************************************************************************)
(* The admin command line of the relayer (solora_relayer/ops.ts).  A job   *)
(* is one process: it runs the operations of its command in order, each of *)
(* which reads what it needs, one request after the other, sends a         *)
(* transaction and waits for its confirmation.  Other jobs, an enclave     *)
(* that restarts with another key and transactions that nobody waits for   *)
(* any more step in between; a job may crash and be started again, as the  *)
(* container that runs demo-local on boot is (docker-compose.yml).         *)
(*                                                                         *)
(* All jobs have the same keypairs, image and amounts.  Transfers and CPIs *)
(* are those of the mock enclave: with an enclave over HTTP they are jobs  *)
(* of IntentPipeline.  Logs and metrics are left out.                      *)
(***************************************************************************)
EXTENDS SoloraProgram

CONSTANTS
    Jobs,
    Commands,           \* commands that may be run
    Owner,              \* --authority
    Gov, Successor,     \* --governor; --new of transfer-governor
    Image,              \* --pcr and --measurement
    DefaultLimits,      \* --max-trade, --max-slippage
    Target,             \* what demo-local funds the wallet to, 10^8 lamports
    Amount,             \* --amount
    Call,               \* --data and --account; those of --system-transfer
                        \* are told apart by the operation
    ExpirySlots,        \* --expiry-slots, 60 and 200 by default
    ServedKeys,         \* keys of the enclave, one for each of its starts
    NoCommand,
    MaxFaults           \* bound of the model: failed requests, crashes, restarts

Script ==
    [c \in Commands |->
        CASE c = "demo-local" ->
                <<"initRegistry", "addMeasurement", "initWalletOnce", "fundWalletPda",
                  "registerEnclaveV2", "systemTransfer", "allow", "transfer",
                  "systemTransfer", "transferReplay">>
          [] c = "demo-devnet" ->
                <<"initRegistry", "addMeasurement", "initWallet", "registerEnclaveV2",
                  "allow", "transfer", "systemTransfer">>
          [] c = "register-oyster-enclave" -> <<"addOysterMeasurement", "registerEnclaveV2">>
          [] OTHER -> <<c>>]

\* The requests that an operation makes before it sends.
ReadsOf(op) ==
    CASE op = "initWallet" -> <<"key">>
      [] op = "initWalletOnce" -> <<"account", "key">>
      [] op = "fundWalletPda" -> <<"balance">>
      [] op = "registerEnclaveV2" -> <<"key", "nonce", "slot">>
      [] op = "addOysterMeasurement" -> <<"key", "attestation">>
      [] op \in {"transfer", "transferReplay"} -> <<"key", "nonce", "slot", "hash">>
      [] op = "cpi" -> <<"slot", "key", "nonce", "hash">>
      [] OTHER -> <<>>

ASSUME OperationsAssumption ==
    /\ Owner \in Authorities /\ {Gov, Successor} \subseteq Governors
    /\ Image \in Measurements /\ DefaultLimits \in Limits
    /\ Target \in Nat /\ 0..Target \subseteq Amounts
    /\ Amount \in Amounts /\ Call \in Calls
    /\ ExpirySlots \in Nat
    /\ ServedKeys \in Seq(Keys) /\ Len(ServedKeys) > 0
    /\ NoCommand \notin Commands
    /\ MaxFaults \in Nat

VARIABLES
    job,            \* how far each job is, and what it has read
    strays,         \* transactions sent that nobody waits for
    enclaveStart,   \* how often the enclave was started
    faults,         \* failed requests, crashes and restarts so far
    clean           \* history: jobs that nothing and nobody disturbed, that were
                    \* not overtaken by an expiry, and that took no funded
                    \* address for a wallet

opsVars == <<job, strays, enclaveStart, faults, clean>>
allVars == <<vars, opsVars>>

CommandOps == UNION {{Script[c][i] : i \in 1..Len(Script[c])} : c \in Commands}

JobType ==
    [command : Commands \cup {NoCommand}, at : 0..11, reads : 0..4,
     tx : {"none", "inflight", "landed", "failed"}, key : Keys \cup {NoKey},
     nonce : 0..MaxNonce, expiry : Nat, hash : Nat, amount : 0..Target]

NewJob ==
    [command |-> NoCommand, at |-> 0, reads |-> 0, tx |-> "none", key |-> NoKey,
     nonce |-> 0, expiry |-> 0, hash |-> 0, amount |-> 0]

Running(j) == job[j].command # NoCommand /\ job[j].at <= Len(Script[job[j].command])
Op(j) == Script[job[j].command][job[j].at]
IsDemo(j) == job[j].command \in {"demo-local", "demo-devnet"}

\* The request that j makes next.
Asks(j, r) ==
    /\ Running(j) /\ job[j].tx = "none"
    /\ job[j].reads < Len(ReadsOf(Op(j)))
    /\ ReadsOf(Op(j))[job[j].reads + 1] = r

ReadAll(j) == Running(j) /\ job[j].tx = "none" /\ job[j].reads = Len(ReadsOf(Op(j)))

\* The next operation, or the end of the script.
Advanced(rec) == [NewJob EXCEPT !.command = rec.command, !.at = rec.at + 1]

Ended(rec) == [NewJob EXCEPT !.command = rec.command, !.at = Len(Script[rec.command]) + 1]

JobMoves(j, rec) ==
    /\ job' = [job EXCEPT ![j] = rec]
    /\ UNCHANGED <<vars, strays, enclaveStart, faults>>

\* One that got its answer: nothing else changes.
Reads(j, r, rec) ==
    /\ Asks(j, r)
    /\ JobMoves(j, rec)
    /\ UNCHANGED clean

OneReadMore(j) == [job[j] EXCEPT !.reads = @ + 1]

-----------------------------------------------------------------------------
(* Transactions.                                                           *)

TxOf(j) ==
    [by |-> j, op |-> Op(j), key |-> job[j].key, nonce |-> job[j].nonce,
     expiry |-> job[j].expiry, hash |-> job[j].hash, amount |-> job[j].amount]

TxType ==
    [by : Jobs, op : CommandOps, key : Keys \cup {NoKey}, nonce : 0..MaxNonce,
     expiry : Nat, hash : Nat, amount : 0..Target]

\* The attestation that registerEnclaveV2 has the governor sign.
ProofOf(tx) ==
    [governor |-> Gov, program |-> Solora, wallet |-> Owner, key |-> tx.key,
     measurement |-> Image, expiry |-> tx.expiry, nonce |-> tx.nonce]

\* The message the mock enclave signs.
IntentOf(tx, payload) ==
    [signer |-> tx.key, program |-> Solora, wallet |-> Owner, nonce |-> tx.nonce,
     expiry |-> tx.expiry, blockhash |-> BlockHash[tx.hash], blockhashSlot |-> tx.hash,
     kind |-> payload.kind, payload |-> payload]

\* Intents and Proofs leave out nothing that may be signed within the bounds.
ASSUME SignableAssumption ==
    \A i \in 1..Len(ServedKeys), n \in 0..MaxNonce, s \in 0..MaxSlot :
        \A e \in 0..(MaxSlot + ExpirySlots) :
            LET tx == [key |-> ServedKeys[i], nonce |-> n, expiry |-> e, hash |-> s]
            IN  /\ ProofOf(tx) \in Proofs
                /\ IntentOf(tx, TransferPayload(Outside, Amount)) \in Intents
                /\ IntentOf(tx, CpiPayload(SystemProgram, Call)) \in Intents

IsTransfer(tx) == tx.op \in {"transfer", "transferReplay"}

\* What tx does when it lands.
RegistryEffect(tx) ==
    \/ tx.op = "initRegistry" /\ InitMeasurementRegistry(Gov)
    \/ tx.op = "addMeasurement" /\ AddMeasurement(Gov, Image)
    \/ tx.op = "revokeMeasurement" /\ RevokeMeasurement(Gov, Image)
    \/ tx.op = "transferGovernor" /\ TransferGovernor(Gov, Successor)

WalletEffect(tx) ==
    \/ /\ tx.op \in {"initWallet", "initWalletOnce"}
       /\ InitializeWallet(Owner, tx.key, DefaultLimits)
    \/ tx.op = "fundWalletPda" /\ Deposit(Owner, tx.amount)
    \/ tx.op = "registerEnclaveV2" /\ RegisterEnclaveV2(Owner, ProofOf(tx), Gov)

AllowlistEffect(tx) ==
    \/ tx.op = "allow" /\ AddAllowedProgram(Owner, SystemProgram)
    \/ tx.op = "disallow" /\ RemoveAllowedProgram(Owner, SystemProgram)

IntentEffect(tx) ==
    \/ /\ IsTransfer(tx)
       /\ ExecuteTransfer(Owner, IntentOf(tx, TransferPayload(Outside, Amount)),
                          Outside, Amount)
    \/ /\ tx.op = "cpi"
       /\ ExecuteArbitraryCpi(Owner, IntentOf(tx, CpiPayload(SystemProgram, Call)),
                              SystemProgram, Call)

Effect(tx) ==
    RegistryEffect(tx) \/ WalletEffect(tx) \/ AllowlistEffect(tx) \/ IntentEffect(tx)

IsGovernor == RegistryOpen /\ governor = Gov

\* The program's checks on it, which preflight runs too.
Passes(tx) ==
    \/ tx.op = "initRegistry" /\ ~RegistryOpen
    \/ tx.op = "addMeasurement" /\ IsGovernor /\ MayAddMeasurement(entries, Image)
    \/ tx.op = "revokeMeasurement" /\ IsGovernor /\ Present(entries, Image)
    \/ tx.op = "transferGovernor" /\ IsGovernor
    \/ tx.op \in {"initWallet", "initWalletOnce"} /\ Owner \notin open
    \/ tx.op = "fundWalletPda"
    \/ /\ tx.op = "registerEnclaveV2"
       /\ Owner \in open /\ RegistryOpen
       /\ VerifyAttestationProof(Owner, ProofOf(tx))
       /\ IsActive(entries, Image)
       /\ NonceCanAdvance(Owner)
    \/ tx.op = "allow" /\ Owner \in open /\ MayAdd(policy[Owner], SystemProgram)
    \/ tx.op = "disallow" /\ Owner \in open /\ Contains(policy[Owner], SystemProgram)
    \/ /\ IsTransfer(tx)
       /\ TransferPasses(Owner, IntentOf(tx, TransferPayload(Outside, Amount)),
                         Outside, Amount)
    \/ /\ tx.op = "cpi"
       /\ CpiPasses(Owner, IntentOf(tx, CpiPayload(SystemProgram, Call)),
                    SystemProgram, Call)

\* These confirm with confirmTransaction and do not look at its error; the
\* others go through rpc() or sendAndConfirmTransaction, which throw it.
Unchecked == {"registerEnclaveV2", "transfer", "transferReplay", "cpi"}

\* Never sent.  The CPI of --system-transfer names the wallet as a signer, which
\* no keypair is, so the transaction does not serialize; the label of the Oyster
\* measurement is a string where add_measurement's coder wants bytes.
Unsendable == {"systemTransfer", "addOysterMeasurement"}

-----------------------------------------------------------------------------
(* A job.                                                                  *)

Begins(j, c) ==
    /\ job[j].command = NoCommand
    /\ JobMoves(j, [NewJob EXCEPT !.command = c, !.at = 1])
    /\ clean' = clean \cup {j}

\* resolveEnclavePubkey, resolveEnclaveMode
ReadsKey(j) ==
    Reads(j, "key", [OneReadMore(j) EXCEPT !.key = ServedKeys[enclaveStart]])

ReadsNonce(j) ==
    Owner \in open /\ Reads(j, "nonce", [OneReadMore(j) EXCEPT !.nonce = wallet[Owner].nonce])

ReadsSlot(j) ==
    Reads(j, "slot", [OneReadMore(j) EXCEPT !.expiry = slot + ExpirySlots])

\* Mutant of ReadsHash: an empty sysvar goes unnoticed.
ReadsHashUnchecked(j) ==
    \E s \in IF NewestEntry = {} THEN {-1} ELSE NewestEntry :
        Reads(j, "hash", [OneReadMore(j) EXCEPT !.hash = s])

\* parseMostRecentSlotHash
ReadsHash(j) ==
    \E s \in NewestEntry : Reads(j, "hash", [OneReadMore(j) EXCEPT !.hash = s])

\* fundWalletPda: nothing to do, or the difference.
ReadsBalance(j) ==
    Reads(j, "balance",
          IF lamports[Owner] >= Target THEN Advanced(job[j])
          ELSE [OneReadMore(j) EXCEPT !.amount = Target - lamports[Owner]])

\* Lamports at the wallet's address make an account of it, wallet or not.
FundedWithoutWallet == Owner \notin open /\ lamports[Owner] > 0

\* demo-local takes any account at the address for a wallet.
ReadsAccount(j) ==
    /\ Asks(j, "account")
    /\ JobMoves(j, IF Owner \in open \/ FundedWithoutWallet THEN Advanced(job[j])
                   ELSE OneReadMore(j))
    /\ clean' = IF FundedWithoutWallet THEN clean \ {j} ELSE clean

\* Mutant of AfterException: a demo ends like any other command.
AlwaysEnds(j) == Ended(job[j])

\* tryOp goes on with the next operation; else main exits.
AfterException(j) == IF IsDemo(j) THEN Advanced(job[j]) ELSE Ended(job[j])

\* What the attestation server answers and the parser takes out of it: the image
\* and, as public_key and as user_data, the key that was asked for.  Without an
\* answer, or with one of another form, the request fails (Throws).
Attestation(key, fresh) ==
    [pcr0 |-> Image, publicKey |-> key, userData |-> key, fresh |-> fresh]

\* assertBindsPubkey, assertFresh
Accepts(doc, key) == doc.publicKey = key /\ doc.userData = key /\ doc.fresh

ReadsAttestation(j) ==
    \E fresh \in BOOLEAN :
        Reads(j, "attestation",
              IF Accepts(Attestation(job[j].key, fresh), job[j].key)
                THEN OneReadMore(j)
                ELSE AfterException(j))

Sends(j) ==
    /\ ReadAll(j)
    /\ Op(j) \notin Unsendable
    /\ Passes(TxOf(j))
    /\ JobMoves(j, [job[j] EXCEPT !.tx = "inflight"])
    /\ UNCHANGED clean

\* The read finds no account, preflight refuses, the transaction fails, or
\* cannot be sent at all.
Refused(j) ==
    /\ \/ Asks(j, "nonce") /\ Owner \notin open
       \/ Asks(j, "hash") /\ NewestEntry = {}
       \/ ReadAll(j) /\ Op(j) \in Unsendable
       \/ ReadAll(j) /\ Op(j) \notin Unsendable /\ ~Passes(TxOf(j))
       \/ Running(j) /\ job[j].tx = "failed" /\ Op(j) \notin Unchecked
    /\ JobMoves(j, AfterException(j))
    /\ UNCHANGED clean

\* Mutant of Confirmed: goes on once the transaction is sent.
ConfirmedUnseen(j) ==
    /\ Running(j)
    /\ job[j].tx # "none"
    /\ Op(j) # "transferReplay"
    /\ JobMoves(j, Advanced(job[j]))
    /\ UNCHANGED clean

Confirmed(j) ==
    /\ Running(j)
    /\ job[j].tx = "landed" \/ (job[j].tx = "failed" /\ Op(j) \in Unchecked)
    /\ Op(j) # "transferReplay"
    /\ JobMoves(j, Advanced(job[j]))
    /\ UNCHANGED clean

\* --replay: after the confirmation, the same instructions over a fresh
\* blockhash; whether this one lands nobody asks.
Replays(j) ==
    /\ Running(j) /\ Op(j) = "transferReplay" /\ job[j].tx \in {"landed", "failed"}
    /\ strays' = IF Passes(TxOf(j)) THEN strays \cup {TxOf(j)} ELSE strays
    /\ job' = [job EXCEPT ![j] = Advanced(job[j])]
    /\ UNCHANGED <<vars, enclaveStart, faults, clean>>

\* What j has sent it does not wait for any longer.
Faults(j, rec) ==
    /\ Running(j)
    /\ faults < MaxFaults /\ faults' = faults + 1
    /\ strays' = IF job[j].tx = "inflight" THEN strays \cup {TxOf(j)} ELSE strays
    /\ job' = [job EXCEPT ![j] = rec]
    /\ clean' = clean \ {j}
    /\ UNCHANGED <<vars, enclaveStart>>

\* A request fails or times out.
Throws(j) == Faults(j, AfterException(j))

Crashes(j) == Faults(j, Ended(job[j]))

-----------------------------------------------------------------------------
(* The chain and the enclave.                                              *)

Lands(j) ==
    /\ Running(j) /\ job[j].tx = "inflight"
    /\ \/ /\ Effect(TxOf(j))
          /\ job' = [job EXCEPT ![j].tx = "landed"]
          /\ clean' = clean \cap {j}
       \/ /\ ~Passes(TxOf(j))
          /\ job' = [job EXCEPT ![j].tx = "failed"]
          /\ UNCHANGED <<vars, clean>>
    /\ UNCHANGED <<strays, enclaveStart, faults>>

StrayLands(tx) ==
    /\ \/ Effect(tx) /\ clean' = {}
       \/ ~Passes(tx) /\ UNCHANGED <<vars, clean>>
    /\ strays' = strays \ {tx}
    /\ UNCHANGED <<job, enclaveStart, faults>>

\* An enclave without its sealed key, or another mock file.
EnclaveRestarts ==
    /\ enclaveStart < Len(ServedKeys)
    /\ faults < MaxFaults /\ faults' = faults + 1
    /\ enclaveStart' = enclaveStart + 1
    /\ clean' = {}
    /\ UNCHANGED <<vars, job, strays>>

\* The time is over for what j signs, or has the governor sign.
Expires(j) ==
    /\ Running(j) /\ job[j].tx \in {"none", "inflight"}
    /\ \E i \in 1..job[j].reads : ReadsOf(Op(j))[i] = "slot"
    /\ slot' > job[j].expiry

SlotPasses ==
    /\ NextSlot
    /\ clean' = {j \in clean : ~Expires(j)}
    /\ UNCHANGED <<job, strays, enclaveStart, faults>>

OperationsInit ==
    /\ Init
    /\ job = [j \in Jobs |-> NewJob]
    /\ strays = {} /\ enclaveStart = 1 /\ faults = 0 /\ clean = {}

JobReads(j) ==
    \/ ReadsKey(j) \/ ReadsNonce(j) \/ ReadsSlot(j) \/ ReadsHash(j)
    \/ ReadsBalance(j) \/ ReadsAccount(j) \/ ReadsAttestation(j)

OperationsNext ==
    \/ \E j \in Jobs, c \in Commands : Begins(j, c)
    \/ \E j \in Jobs :
          \/ JobReads(j)
          \/ Sends(j) \/ Refused(j) \/ Confirmed(j) \/ Replays(j)
          \/ Throws(j) \/ Crashes(j)
          \/ Lands(j)
    \/ \E tx \in strays : StrayLands(tx)
    \/ EnclaveRestarts
    \/ SlotPasses

OperationsSpec == OperationsInit /\ [][OperationsNext]_allVars

-----------------------------------------------------------------------------

\* Type invariant: no job moves more than the target, or less than nothing, to
\* the wallet (ops.ts:250-256), or signs over a slot that is not there (intent.ts:86-97).
OperationsTypeOK ==
    /\ job \in [Jobs -> JobType]
    /\ strays \subseteq TxType
    /\ enclaveStart \in 1..Len(ServedKeys) /\ faults \in 0..MaxFaults
    /\ clean \subseteq Jobs

\* The environment demo-local takes for granted.
MayBeSetUp ==
    /\ governor = Gov /\ Image \notin revoked
    /\ wallet[Owner].nonce < MaxNonce

\* demo-local may be run again on what earlier runs have left behind, those that
\* crashed half-way included, unless they funded the address without a wallet:
\* then no later run makes one (ops.ts:997-1002).  Else one that no request
\* failed and nobody else disturbed ends with the registry open, the wallet made,
\* funded to the target but for what it paid out itself, and ready to take the
\* enclave's transfers and System Program CPIs, if it has sent what it signed in
\* time (ops.ts:993-1028, 1136-1143; docker-compose.yml:68-76).
DemoSetsUp ==
    \A j \in clean :
        (job[j].command = "demo-local" /\ ~Running(j) /\ MayBeSetUp) =>
            /\ Owner \in open
            /\ wallet[Owner].signer = ServedKeys[enclaveStart]
            /\ IsActive(entries, Image)
            /\ Contains(policy[Owner], SystemProgram)
            /\ lamports[Owner] >= Target - 2 * Amount

\* That case needs a fault: as long as no request failed, nothing crashed and the
\* enclave kept its key, no job funds the address before it has a wallet
\* (ops.ts:997-1010).
WalletBeforeFunds == FundedWithoutWallet => faults > 0

\* Between the read of the nonce and the landing of what was signed for it,
\* however many requests lie between, no other message takes effect on the
\* wallet (ops.ts:435-455, 688-706, 899-910).
ReadsStillTrue ==
    [][\A j \in Jobs :
          (job[j].tx = "inflight" /\ job'[j].tx = "landed" /\ Op(j) \in Unchecked) =>
              \A r \in ThisEpoch(Owner) : r.nonce < job[j].nonce]_allVars

\* A replay goes through, and raises its alarm, only if the transfer it repeats
\* had failed on landing, which its confirmation did not tell (ops.ts:786-810).
ReplayOnlyAfterFailure ==
    [][\A j \in Jobs :
          (job[j].tx = "landed" /\ job'[j] # job[j]) => strays' = strays]_allVars
=============================================================================
