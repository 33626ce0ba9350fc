------------------------------ MODULE CbcDecrypt ------------------------------
(***************************************************************************)
(* What the rounds promise together (the loop of decrypt_blocks_into in    *)
(* src/src/rounds.rs): cipher block chaining.  Byte k of block b is byte k *)
(* of the deciphered block XORed with byte k of the ciphertext block       *)
(* before it, or of the initial vector for the first block; the blocks     *)
(* leave in their order.                                                   *)
(***************************************************************************)
EXTENDS Integers, Sequences

CONSTANT NBlocks
VARIABLE plain

Plaintext(b) == [k \in 0 .. 15 |->
    [aes   |-> <<b, k>>,
     chain |-> IF b = 0 THEN <<"iv", k>> ELSE <<"ct", 16 * (b - 1) + k>>]]

Init == plain = <<>>

NextBlock ==
    /\ Len(plain) < NBlocks
    /\ plain' = Append(plain, Plaintext(Len(plain)))

Safety == Init /\ [][NextBlock]_plain
Spec   == Safety /\ WF_plain(NextBlock)
===============================================================================
