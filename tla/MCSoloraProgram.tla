-------------------------- MODULE MCSoloraProgram ---------------------------
(* Small instances of SoloraProgram.  Each run chooses the messages that    *)
(* may turn up and the bounds that let them meet.                           *)
EXTENDS SoloraProgram

CONSTANTS
    alice, bob,         \* owners
    gov,                \* another key that signs transactions
    k1, k2,             \* enclave keys
    h, orphan,          \* the blockhash of this chain's slots; one of a fork
    sysprog, solora,
    img1,               \* an enclave image
    outside, call, bigcall, lo

Intent(k, a, n, exp, s, hash, payload) ==
    [signer |-> k, program |-> solora, wallet |-> a, nonce |-> n,
     expiry |-> exp, blockhash |-> hash, blockhashSlot |-> s,
     kind |-> payload.kind, payload |-> payload]

Attestation(g, a, k, img, exp, n) ==
    [governor |-> g, program |-> solora, wallet |-> a, key |-> k,
     measurement |-> img, expiry |-> exp, nonce |-> n]

MCBlockHash == [s \in 0..MaxSlot |-> h]

-----------------------------------------------------------------------------
(* spend: one owner; transfers and CPIs for nonces 0 and 1 under two keys,  *)
(* one of them signed over a fork's blockhash, one for another program, one *)
(* over the size caps and one of this program itself, and rotations         *)
(* attested by the first governor and by its successor, while the image     *)
(* they name is added and revoked.                                          *)

SpendIntents ==
    LET send == TransferPayload(outside, 1)
        loop == TransferPayload(alice, 1)
        invoke == CpiPayload(sysprog, call)
    IN  {Intent(k1, alice, 0, 3, 0, h, send),
         Intent(k1, alice, 1, 3, 0, h, send),
         Intent(k1, alice, 1, 3, 0, h, invoke),
         Intent(k2, alice, 1, 1, 0, h, send),
         Intent(k2, alice, 2, 3, 1, h, loop),
         Intent(k2, alice, 3, 3, 1, h, send),
         Intent(k1, alice, 2, 3, 0, h, send),
         Intent(k1, alice, 0, 3, 0, orphan, invoke),
         Intent(k1, alice, 0, 3, 0, h, CpiPayload(sysprog, bigcall)),
         Intent(k1, alice, 1, 3, 0, h, CpiPayload(solora, call)),
         [Intent(k1, alice, 0, 3, 0, h, send) EXCEPT !.program = sysprog]}

SpendProofs ==
    {Attestation(alice, alice, k2, img1, 3, 0),
     Attestation(gov, alice, k2, img1, 3, 1)}

-----------------------------------------------------------------------------
(* pair: two wallets that pay each other.                                   *)

PairIntents ==
    {Intent(k1, alice, 0, 1, 0, h, TransferPayload(bob, 2)),
     Intent(k1, alice, 1, 1, 0, h, TransferPayload(outside, 1)),
     Intent(k1, bob, 0, 1, 0, h, TransferPayload(alice, 1)),
     Intent(k1, bob, 0, 1, 0, h, TransferPayload(bob, 1))}

-----------------------------------------------------------------------------
(* One intent and one attestation, for the runs about the owner.            *)

OneIntent == {Intent(k1, alice, 0, 1, 0, h, TransferPayload(outside, 1))}
OneProof == {Attestation(alice, alice, k2, img1, 1, 0)}
=============================================================================
