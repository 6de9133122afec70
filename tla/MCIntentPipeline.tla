-------------------------- MODULE MCIntentPipeline --------------------------
(* Small instances of IntentPipeline: one wallet, a few jobs that compete   *)
(* for its nonce.                                                           *)
EXTENDS IntentPipeline, TLC

CONSTANTS
    alice, k1, k2, h, sysprog, solora, outside, call,
    pay, pay2, trade    \* jobs

MCBlockHash == [s \in 0..MaxSlot |-> h]

Tight == [size |-> 1, slippage |-> 1]
Loose == [size |-> 2, slippage |-> 2]
MCLimits == {Tight, Loose}

Pay(amount) ==
    [wallet |-> alice, payload |-> TransferPayload(outside, amount),
     expirySlots |-> 1, size |-> 0, slippage |-> 0]
Trade ==
    [wallet |-> alice, payload |-> CpiPayload(sysprog, call),
     expirySlots |-> 3, size |-> 2, slippage |-> 1]

\* A transfer, the amount of which does not matter, and a trade.
TradeRequests == (pay :> Pay(0)) @@ (trade :> Trade)
\* Two transfers of different amounts.
PayRequests == (pay :> Pay(1)) @@ (pay2 :> Pay(2))

\* Every message the enclave can be brought to sign within the bounds.
MCIntents ==
    UNION {{IntentMessage(Request[j], n, e, s) :
               n \in 0..MaxNonce, s \in 0..MaxSlot,
               e \in 0..(MaxSlot + Request[j].expirySlots)} : j \in Jobs}
=============================================================================
