---------------------------- MODULE MCOperations ----------------------------
(* A small instance of Operations: two jobs, one wallet, an enclave that    *)
(* restarts once.                                                           *)
EXTENDS Operations, TLC

CONSTANTS alice, gov, next, k1, k2, h, sysprog, solora, outside, call, img, lim, boot, other

JobSymmetry == Permutations({boot, other})

MCServedKeys == <<k1, k2>>
MCBlockHash == [s \in 0..MaxSlot |-> h]

MCIntents ==
    {[signer |-> k, program |-> solora, wallet |-> alice, nonce |-> n, expiry |-> e,
      blockhash |-> h, blockhashSlot |-> s, kind |-> p.kind, payload |-> p] :
         k \in {k1, k2}, n \in 0..MaxNonce, e \in 0..(MaxSlot + ExpirySlots),
         s \in 0..MaxSlot,
         p \in {TransferPayload(outside, Amount), CpiPayload(sysprog, call)}}
MCProofs ==
    {[governor |-> gov, program |-> solora, wallet |-> alice, key |-> k,
      measurement |-> img, expiry |-> e, nonce |-> n] :
         k \in {k1, k2}, e \in 0..(MaxSlot + ExpirySlots), n \in 0..MaxNonce}
=============================================================================
