---------------------------- MODULE RoundInvariant ----------------------------
(***************************************************************************)
(* The inductive invariant of RoundChain.  Every block runs the program on *)
(* a fresh share of ciphertext: its values are those of the first block,   *)
(* with the number of the block added (Matches), as long as no step reads  *)
(* what an earlier block left behind.  That, and what the values of the    *)
(* first block are, does not depend on the number of blocks, on the size of*)
(* a page or on the width of a register: ProgramFits and ResultFits speak  *)
(* of the text of the program alone, and executing it once decides them.   *)
(***************************************************************************)
EXTENDS RoundChain, SequencesExt

Sources == {"binary", "json"}
Past    == Len(Program) + 1

-------------------------------------------------------------------------------
(* The values of the first block before every step, put down without the   *)
(* address arithmetic: an offset is the nibble that the code means, and the*)
(* byte read there is the byte of that number.                             *)
NibbleNumber(m) ==
    LET bit(i) == IF i \in m THEN 1 ELSE 0 IN bit(0) + 2 * bit(1) + 4 * bit(2) + 8 * bit(3)
Meant(step) == NibbleNumber(IF step.of[2] THEN step.of[1] \ {2} ELSE step.of[1] \cup {2})
FirstEffect(step, h) ==
    CASE step.op = "sum"    -> SumValue(step, h)
      [] step.op = "copy"   -> h[step.at]
      [] step.op = "byte"   -> ByteValue(step, h)
      [] step.op = "offset" -> NumberOf(Meant(step))
      [] step.op = "load"   -> CipherByte(NumberIn(h[step.at]))
FirstRegister(o) == IF o = RSI THEN NumberOf(8) ELSE Register(0, o)
Entered(src) == [o \in Places |-> IF o \in Locals THEN FirstRegister(o) ELSE Loaded(src, o[2])]
FirstBlock == [src \in Sources |->
    FoldLeft(LAMBDA hs, step :
                Append(hs, [hs[Len(hs)] EXCEPT ![step.to] = FirstEffect(step, hs[Len(hs)])]),
             <<Entered(src)>>, Program)]
Sought(step, h) ==
    IF step.op = "sum" THEN LookedUp(step.of, Seen(Summed(step), h)) ELSE {}
Words(src) == UNION {Sought(Program[k], FirstBlock[src][k]) : k \in DOMAIN Program}

(* The places whose value a step may use: what the program has written by  *)
(* then in this block, the registers, and what nothing ever writes.        *)
WrittenBy(steps) == {steps[i].to : i \in DOMAIN steps}
Stored     == WrittenBy(Program)
Carried    == {S(p[1]) : p \in Copies}
Kept       == Places \ (Locals \cup Stored \cup Carried \cup {S(Counter)})
Ready(k)   == Kept \cup Locals \cup {Program[j].to : j \in 1 .. k - 1}

-------------------------------------------------------------------------------
(* A step reads what is ready, and its operands are well formed.           *)
StepFits(step, ready) ==
    /\ step.op \in {"sum", "copy", "byte", "offset", "load"}
    /\ step.to \in Places /\ ReadBy(step) \subseteq ready
    /\ step.op = "offset" => step.of[1] \subseteq Nibble /\ step.of[2] \in BOOLEAN

(* What it writes is not junk, comes from no other block, and is a number  *)
(* of this block where a load takes it as one.                             *)
ValueFits(step, h, next) ==
    LET x == FirstEffect(step, h) IN
        /\ DOMAIN h = Places
        /\ next = [h EXCEPT ![step.to] = x]
        /\ Junk \notin x.parts /\ x.blocks \subseteq {0}
        /\ step.op = "load" => \E n \in 0 .. 15 : h[step.at] = NumberOf(n)

(* The words of a block: their keys are the template's, in slots that hold *)
(* them for ever, each of one column of one round; the branches share none.*)
WordsFit(src, W) ==
    /\ \A w, x \in W : w.key \cap x.key # {} => w.r = x.r /\ w.c = x.c
    /\ \A w, x \in {y \in W : y.r \in 8 .. 9} :
            w.r = x.r => w.via = x.via \/ w.via \cap x.via = {}
    /\ \A w \in W : \A s \in w.key \cap Slots :
            S(s) \in Kept /\ Loaded(src, s).parts = {Key(s)}

ProgramFits ==
    /\ Len(Program) \in Nat /\ DOMAIN Program = 1 .. Len(Program)
    /\ \A k \in DOMAIN Program : StepFits(Program[k], Ready(k))
    /\ Carried \cap (Stored \cup {S(Counter)}) = {} /\ S(Counter) \notin Stored
    /\ \A p, q \in Copies : S(p[1]) = S(q[1]) => p = q
    /\ \A p \in Copies : S(p[2]) \in Ready(Past)
    /\ \A src \in Sources :
        /\ FirstBlock[src][1] = Entered(src)
        /\ \A k \in DOMAIN Program :
                ValueFits(Program[k], FirstBlock[src][k], FirstBlock[src][k + 1])
        /\ WordsFit(src, Words(src))

(* The block that comes out: every offset in its place (that of byte 8 is  *)
(* the counter's), byte k of a word of the last round, and, kept for the   *)
(* next block, byte k of the ciphertext.                                   *)
ByteFits(src, h, ready, i) ==
    LET n == S(pt[i][1]) IN
        /\ \/ n = S(Counter) /\ i = 9
           \/ n \in ready /\ h[n] = NumberOf(i - 1)
        /\ pt[i][3] \in ready /\ h[pt[i][3]].blocks = {0}
        /\ AesByte(h[pt[i][3]], pt[i][4]) = <<0, i - 1>>
        /\ Loaded(src, pt[i][2]).parts = Vector(i - 1)
        /\ \E p \in Copies : p[1] = pt[i][2] /\ h[S(p[2])] = CipherByte(i - 1)

ResultFits ==
    /\ FirstOffset = 8
    /\ DOMAIN pt = 1 .. 16
    /\ \A i, j \in 1 .. 16 : pt[i][2] = pt[j][2] => i = j
    /\ \A src \in Sources : \A i \in 1 .. 16 :
            ByteFits(src, FirstBlock[src][Past], Ready(Past), i)

(* The block numbers of the sample fit a register shifted left by four.    *)
SampleFits == NBlocks <= Power[WordBits - 4]

-------------------------------------------------------------------------------
(* The value x of the first block as block b has it.                       *)
At(b, x) == Value({b + i : i \in x.blocks}, x.parts, x.sel)

TypeOK ==
    /\ source \in Sources /\ bi \in 0 .. NBlocks /\ pc \in 0 .. Past
    /\ pc # 0 => bi < NBlocks
    /\ DOMAIN held = Places /\ held = [o \in Places |-> held[o]]
    /\ out = [b \in 1 .. bi |-> out[b]]

(* What nothing writes is the template's; what is ready is the first       *)
(* block's; what is carried over is what the block before left.            *)
KeptMatch  == \A o \in Kept : held[o] = Loaded(source, o[2])
ReadyMatch == pc # 0 => \A o \in Ready(pc) : held[o] = At(bi, FirstBlock[source][pc][o])
CarriedMatch ==
    \A p \in Copies : held[S(p[1])] =
        IF bi = 0 THEN Loaded(source, p[1]) ELSE At(bi - 1, FirstBlock[source][Past][S(p[2])])
Matches == KeptMatch /\ ReadyMatch /\ CarriedMatch /\ words \subseteq Words(source)

(* The numbers that only the output depends on.                            *)
Delivered ==
    /\ bi < NBlocks => held[S(Counter)] = NumberOf(16 * bi + 8)
    /\ \A b \in 1 .. bi : PlainBlock(out[b]) = Cbc!Plaintext(b - 1)

RoundInv ==
    /\ ProgramFits /\ ResultFits /\ SampleFits
    /\ TypeOK /\ Matches /\ ColumnsWhole /\ Delivered
===============================================================================
