------------------------------ MODULE BlockAddress ------------------------------
(***************************************************************************)
(* Where a block's ciphertext bytes lie in the sample, as the rounds find  *)
(* them (src/src/rounds.rs, process_block, and src/src/rounds_gen.rs,      *)
(* round1_mid).  The code never writes 16 * bi + k: it starts from two     *)
(* registers, rdi (a constant XORed with the block number shifted left by  *)
(* four) and rsi (8 plus the same), ORs the wanted nibble into rdi, XORs   *)
(* the constant out again, and takes the page part of the index from rsi   *)
(* and the rest from the result.                                           *)
(* A register is the set of its bit positions: OR is union, XOR symmetric  *)
(* difference, and adding numbers with no common bit is union.             *)
(***************************************************************************)
EXTENDS Integers, FiniteSetsExt

CONSTANTS
    PageBits,   \* the code masks with 0xFFF: 12 (a smaller value makes
                \* a short sample cross a page)
    WordBits    \* the width of a register: 32 (no less than the constants
                \* below need)

ASSUME AddressAssumption ==
    /\ PageBits \in Nat /\ PageBits >= 4
    /\ WordBits \in Nat /\ WordBits >= 29 /\ WordBits >= PageBits

Nibble == 0 .. 3
Page   == 0 .. PageBits - 1
Word   == 0 .. WordBits - 1

Xor(A, B) == (A \ B) \cup (B \ A)

(* 0x1EB2C6B4, the constant in rdi, and the two constants XORed out again: *)
(* the same one, and 515032752, the same without bit 2.                    *)
Mask == {2, 4, 5, 7, 9, 10, 14, 15, 17, 20, 21, 23, 25, 26, 27, 28}
MaskNoBit2 == Mask \ {2}

(* bi << 4 for a block number given by its bits: what does not fit is lost.*)
Shifted(block) == {i + 4 : i \in block} \cap Word

rdi(block) == Xor(Mask, Shifted(block))
rsi(block) == {3} \cup Shifted(block)

(* (rdi | or) ^ xor: the offset stored in a slot and used as an index.     *)
Offset(block, or, xor) == Xor(rdi(block) \cup or, xor)

(* ct[(x & 0xFFF) + (regs.rsi & !0xFFF)]                                   *)
Address(block, x) == (x \cap Page) \cup (rsi(block) \ Page)

(* The number a register holds and its bits.  NatOf reads the bits from the*)
(* highest down.                                                           *)
Power[i \in 0 .. WordBits] == IF i = 0 THEN 1 ELSE 2 * Power[i - 1]
BitsOf(n) == {i \in Word : (n \div Power[i]) % 2 = 1}
Above(bits) ==      \* Above(bits)[j]: the number that the j highest bits make
    LET above[j \in 0 .. WordBits] ==
            IF j = 0 THEN 0
            ELSE 2 * above[j - 1] + (IF WordBits - j \in bits THEN 1 ELSE 0)
    IN above
NatOf(bits) == Above(bits)[WordBits]
===============================================================================
