---------------------------- MODULE MCAllowlist -----------------------------
(* Allowlist on six program ids and an array of four slots: the array     *)
(* fills up, is emptied from the front, the middle and the back, and the    *)
(* all-zero id is both what an unused slot holds and an allowed target.     *)
EXTENDS Allowlist

CONSTANTS sysprog, solora, jupiter, orca, spl, memo

MCPrograms == {sysprog, solora, jupiter, orca, spl, memo}
=============================================================================
