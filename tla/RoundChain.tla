------------------------------ MODULE RoundChain ------------------------------
(***************************************************************************)
(* The decryption of one sample, step by step (src/src/rounds.rs,          *)
(* decrypt_blocks_into and process_block; the steps are in RoundProgram).  *)
(* Every block runs the same straight-line program on the same array of    *)
(* slots: most slots hold the template's keys, some are scratch, written   *)
(* over several times within a block, and a few carry the ciphertext and   *)
(* the offset counter from a block to the next.                            *)
(*                                                                         *)
(* Data are symbolic: a value is the set of the atoms XORed together in it,*)
(* the blocks of ciphertext it was computed from and, for a byte cut out of*)
(* a word, which byte.  An atom is a key, a key byte, a ciphertext byte, a *)
(* number, or an entry of a table, which is named by the word that indexes *)
(* it: so the name of a word tells where every byte that went into it came *)
(* from.  A sum that is not a whole column of the previous round with a    *)
(* whole round key has no name: looking it up gives junk.                  *)
(***************************************************************************)
EXTENDS BlockAddress, RoundProgram, TemplateSlots

CONSTANTS
    NBlocks,        \* blocks of the sample
    FirstOffset     \* what the template holds in slot 0x220 (544)

ASSUME SampleAssumption == NBlocks \in Nat /\ FirstOffset \in Nat

VARIABLES
    source,     \* how the template was loaded: "binary" or "json"
    bi,         \* the block being deciphered
    pc,         \* the next step of the program, 0 before the block begins
    held,       \* the value of every slot, local and register: held[S(n)] is
                \* st[n]
    words,      \* the words used as indexes so far
    out         \* the blocks written

vars == <<source, bi, pc, held, words, out>>

Summed(step) == UNION {t.of : t \in step.of}
ReadBy(step) ==
    CASE step.op = "sum" -> Summed(step)
      [] step.op = "offset" -> {}
      [] OTHER -> {step.at}
OperandsOf(steps) == UNION {{steps[i].to} \cup ReadBy(steps[i]) : i \in DOMAIN steps}
Operands == OperandsOf(Program)
Counter  == 544     \* 0x220
Slots    == {o[2] : o \in {p \in Operands : p[1] = "st"}}
            \cup {p[1] : p \in Copies} \cup {Counter}
Locals   == {o \in Operands : o[1] # "st"}
Places   == Locals \cup {S(n) : n \in Slots}

-------------------------------------------------------------------------------
(* Values.  A number, which is an offset into the ciphertext, is held as a *)
(* block and a place in it; a ciphertext byte is that of the number it was *)
(* read at.                                                                *)

Value(blocks, parts, sel) == [blocks |-> blocks, parts |-> parts, sel |-> sel]
Nothing    == Value({}, {}, Whole)
Key(s)     == [kind |-> "key", slot |-> s]
KeyByte(s, l) == [kind |-> "kb", slot |-> s, lane |-> l]
Cipher(k, l)  == [kind |-> "ct", k |-> k, lane |-> l]
Number(k)  == [kind |-> "num", k |-> k]
Entry(kind, w, l) == [kind |-> kind, word |-> w, lane |-> l]
Mixed      == [kind |-> "mix"]
Junk       == [kind |-> "junk"]

NumberOf(n)   == Value({n \div 16}, {Number(n % 16)}, Whole)
CipherByte(n) == Value({n \div 16}, {Cipher(n % 16, 0)}, Whole)
NumberIn(x)   == 16 * (CHOOSE b \in x.blocks : TRUE) + (CHOOSE y \in x.parts : TRUE).k

(* What a term sees of the operands it reads: a function from the operands *)
(* to parts and selected byte.                                             *)
Seen(os, h) == [o \in os |-> [parts |-> h[o].parts, sel |-> h[o].sel]]
Atoms(f)    == FoldSet(LAMBDA o, acc : Xor(f[o].parts, acc), {}, DOMAIN f)
Kind(A, k) == {x \in A : x.kind = k}
KeysOf(A)  == {x.slot : x \in Kind(A, "key") \cup Kind(A, "kb")}

(* One key slot, or four key bytes, one in every lane.                     *)
WholeKey(A) ==
    LET bytes == Kind(A, "kb") IN
    \/ Cardinality(Kind(A, "key")) = 1 /\ bytes = {}
    \/ Kind(A, "key") = {} /\ Cardinality(bytes) = 4 /\ {x.lane : x \in bytes} = 0 .. 3

(* A round word: lane l is row 3 - l, which the inverse ShiftRows moves    *)
(* 3 - l columns to the right; the four bytes come from one round and one  *)
(* branch.                                                                 *)
ColumnOf(x) == (x.word.c + 3 - x.lane) % 4
WholeColumn(E) ==
    /\ Cardinality(E) = 4 /\ {x.lane : x \in E} = 0 .. 3
    /\ \A x, y \in E : /\ x.word.r = y.word.r /\ x.word.via = y.word.via
                       /\ ColumnOf(x) = ColumnOf(y)

(* The name of a word: round, column, its own key slots, those of the words*)
(* it was looked up with, and whether the mixing term is in it.            *)
NameOf(A, table) ==
    LET E == Kind(A, table)
        x == CHOOSE y \in E : TRUE
    IN [r |-> x.word.r + 1, c |-> ColumnOf(x), key |-> KeysOf(A),
        via |-> IF x.word.r = 0 THEN {} ELSE UNION {y.word.key : y \in E},
        mixed |-> Kind(A, "mix") # {}]

IsWord(A, table) ==
    /\ WholeColumn(Kind(A, table)) /\ WholeKey(A)
    /\ \A x \in A : x.kind \in {table, "key", "kb", "mix"}

(* An input byte: lane l of a column of ciphertext, with its key byte.     *)
InLane(A, l) == {x \in Kind(A, "ct") \cup Kind(A, "kb") : x.lane = l}
IsInput(A, l) ==
    \E x, k \in InLane(A, l) :
        /\ InLane(A, l) = {x, k} /\ x.kind = "ct" /\ k.kind = "kb"
        /\ x.k % 4 = 3 - l
InputOf(A, l) ==
    LET x == CHOOSE y \in InLane(A, l) : y.kind = "ct"
    IN [r |-> 0, c |-> x.k \div 4, key |-> KeysOf(InLane(A, l)), via |-> {}, mixed |-> FALSE]

(* The word a term looks up, as a set of at most one.                      *)
Cut(f, l) == \A o \in DOMAIN f : f[o].sel \in {l, Whole}
Indexed(t, f) ==
    LET A == Atoms(f) IN
    CASE ~ Cut(f, t.lane) -> {}
      [] t.op = "look" /\ Kind(A, "ct") # {} ->
            IF IsInput(A, t.lane) THEN {InputOf(A, t.lane)} ELSE {}
      [] OTHER ->
            {w \in (IF IsWord(A, "look") THEN {NameOf(A, "look")} ELSE {}) :
                /\ w.r \in (IF t.op = "look" THEN 1 .. 8 ELSE {9})
                /\ w.mixed = (t.op = "last")}

(* The eight words that are mixed: round 9, four columns, two branches.    *)
NineOf(f) == {NameOf(f[o].parts, "look") : o \in
                {p \in DOMAIN f : f[p].sel = Whole /\ IsWord(f[p].parts, "look")}}
BothBranches(W) ==
    /\ Cardinality(W) = 8
    /\ \A w \in W : w.r = 9
    /\ Cardinality({<<w.c, w.via>> : w \in W}) = 8
    /\ Cardinality({w.via : w \in W}) = 2

Eval(t, f) ==
    LET A == Atoms(f) IN
    CASE t.op = "all" -> IF Cut(f, Whole) THEN A ELSE {Junk}
      [] t.op = "byte" ->
            {CASE x.kind = "ct"  -> Cipher(x.k, t.lane)
               [] x.kind \in {"key", "kb"} -> KeyByte(x.slot, t.lane)
               [] OTHER -> Junk : x \in A}
      [] t.op = "mix" -> IF BothBranches(NineOf(f)) THEN {Mixed} ELSE {Junk}
      [] OTHER -> IF Indexed(t, f) = {} THEN {Junk}
                  ELSE {Entry(t.op, w, t.lane) : w \in Indexed(t, f)}

(* A sum: the XOR of its terms, and the words it looks up on the way; f is *)
(* what all its operands show.                                             *)
Restricted(f, os) == [o \in os |-> f[o]]
SumOf(terms, f) ==
    FoldSet(LAMBDA t, acc : Xor(Eval(t, Restricted(f, t.of)), acc), {}, terms)
LookedUp(terms, f) ==
    UNION {Indexed(t, Restricted(f, t.of)) : t \in {u \in terms : u.op \in {"look", "last"}}}

-------------------------------------------------------------------------------
(* What a step computes, from the values h of the operands; b is the block.*)

(* A sum of table entries, keys and other sums.                            *)
SumValue(step, h) ==
    Value(UNION {h[o].blocks : o \in Summed(step)},
          SumOf(step.of, Seen(Summed(step), h)), Whole)

(* One byte of a number, which must hold that byte.                        *)
ByteValue(step, h) ==
    LET x == h[step.at] IN
    Value(x.blocks, IF x.sel \in {step.sel, Whole} THEN x.parts ELSE {Junk}, step.sel)

(* An offset, computed from the block number.                              *)
OffsetValue(step, b) ==
    NumberOf(NatOf(Offset(BitsOf(b), step.of[1], IF step.of[2] THEN Mask ELSE MaskNoBit2)))

(* A ciphertext byte, read at the offset a slot or register holds.         *)
LoadValue(step, b, h) ==
    CipherByte(NatOf(Address(BitsOf(b), BitsOf(NumberIn(h[step.at])))))

-------------------------------------------------------------------------------
(* How a template reaches the array: load_binary_template copies every     *)
(* slot, template_from_json those of ST_SLOTS; the others are zero.        *)
Loaded(src, s) ==
    CASE s = Counter -> NumberOf(FirstOffset)
      [] src = "json" /\ s \notin StSlots -> Nothing
      [] OTHER -> Value({}, {Key(s)}, Whole)

Init ==
    /\ source \in {"binary", "json"}
    /\ bi = 0 /\ pc = 0 /\ out = <<>> /\ words = {}
    /\ held = [o \in Places |-> IF o \in Locals THEN Nothing ELSE Loaded(source, o[2])]

(* process_block sets up the registers.                                    *)
Register(b, o) ==
    CASE o = RSI -> NumberOf(NatOf(rsi(BitsOf(b))))
      [] o \in {RCX, RAX} -> Value({}, {Key(0 - o[2])}, Whole)
      [] OTHER -> Nothing

Begin ==
    /\ pc = 0 /\ bi < NBlocks
    /\ pc' = 1
    /\ held' = [o \in Places |-> IF o \in Locals THEN Register(bi, o) ELSE held[o]]
    /\ UNCHANGED <<source, bi, words, out>>

Current == Program[pc]
Running(op) == pc \in DOMAIN Program /\ Current.op = op

Write(value) ==
    /\ pc' = pc + 1
    /\ held' = [held EXCEPT ![Current.to] = value]
    /\ UNCHANGED <<source, bi, out>>

ComputeSum ==
    /\ Running("sum")
    /\ Write(SumValue(Current, held))
    /\ words' = words \cup LookedUp(Current.of, Seen(Summed(Current), held))

Copy ==
    /\ Running("copy")
    /\ Write(held[Current.at])
    /\ UNCHANGED words

CutByte ==
    /\ Running("byte")
    /\ Write(ByteValue(Current, held))
    /\ UNCHANGED words

StoreOffset ==
    /\ Running("offset")
    /\ Write(OffsetValue(Current, bi))
    /\ UNCHANGED words

LoadByte ==
    /\ Running("load")
    /\ Write(LoadValue(Current, bi, held))
    /\ UNCHANGED words

-------------------------------------------------------------------------------
(* The end of a block: the array pt, reconstruct_block, the ciphertext kept*)
(* for the next block, and the counter.                                    *)

(* A byte of plaintext is byte j of a word of the last round XORed with the*)
(* byte in a slot: of the initial vector, or of the ciphertext.            *)
BlockOf(x) == IF Cardinality(x.blocks) = 1 THEN CHOOSE b \in x.blocks : TRUE ELSE -1
AesByte(x, j) ==
    IF IsWord(x.parts, "last") THEN <<BlockOf(x), 4 * NameOf(x.parts, "last").c + 3 - j>>
    ELSE <<-1, -1>>
Vector(k) == {Key(pt[k + 1][2])}
ChainByte(x) ==
    CASE \E k \in 0 .. 15 : x.parts = {Cipher(k, 0)} ->
            <<"ct", 16 * BlockOf(x) + (CHOOSE k \in 0 .. 15 : x.parts = {Cipher(k, 0)})>>
      [] \E k \in 0 .. 15 : x.parts = Vector(k) ->
            <<"iv", CHOOSE k \in 0 .. 15 : x.parts = Vector(k)>>
      [] OTHER -> <<"none", 0>>
PlainByte(p) ==
    [offset |-> NumberIn(held[S(p[1])]), aes |-> AesByte(held[p[3]], p[4]),
     chain |-> ChainByte(held[S(p[2])])]

(* reconstruct_block: the smallest offset is the base; a byte whose offset *)
(* is 16 or more past it is dropped.  A byte nobody wrote stays zero: {}.  *)
Reconstructed(bytes) ==
    LET base == Min({x.offset : x \in bytes}) IN
    [k \in 0 .. 15 |-> {x \in bytes : x.offset - base = k}]

NextCounter(n) == (n + 16) % Power[WordBits]

EndBlock ==
    /\ pc = Len(Program) + 1
    /\ out' = Append(out, Reconstructed({PlainByte(pt[i]) : i \in DOMAIN pt}))
    /\ held' = [o \in Places |->
        CASE o = S(Counter) -> NumberOf(NextCounter(NumberIn(held[o])))
          [] \E p \in Copies : S(p[1]) = o ->
                held[S((CHOOSE p \in Copies : S(p[1]) = o)[2])]
          [] OTHER -> held[o]]
    /\ bi' = bi + 1 /\ pc' = 0
    /\ UNCHANGED <<source, words>>

Finished == bi = NBlocks /\ UNCHANGED vars

Next == \/ Begin \/ ComputeSum \/ Copy \/ CutByte \/ StoreOffset \/ LoadByte
        \/ EndBlock \/ Finished

Spec == Init /\ [][Next]_vars /\ WF_vars(Next)

-------------------------------------------------------------------------------
(* Properties                                                              *)

(* Every number looked up in a round table is a whole word: the four bytes *)
(* that the inverse ShiftRows brings together, each from its own table,    *)
(* with a whole round key, and nothing that a slot still held from before  *)
(* it was due; and no number is put together from two blocks.              *)
ColumnsWhole ==
    \A o \in Places : Junk \notin held[o].parts /\ Cardinality(held[o].blocks) <= 1

(* A key slot serves one column of one round, and once used it keeps the   *)
(* template's key for the blocks to come: no scratch store lands on it.    *)
(* Rounds 7 to 9 are computed twice with two sets of keys: no word is built*)
(* from words of both.                                                     *)
SlotsServeOnce ==
    \A w, x \in words : w.key \cap x.key # {} => w.r = x.r /\ w.c = x.c
KeysKept ==
    pc \in {0, Len(Program) + 1} =>
        \A w \in words : \A s \in w.key \cap Slots : held[S(s)].parts = {Key(s)}
BranchesSeparate ==
    \A w, x \in {y \in words : y.r \in 8 .. 9} :
        w.r = x.r => w.via = x.via \/ w.via \cap x.via = {}
RoundKeys == SlotsServeOnce /\ KeysKept /\ BranchesSeparate

(* The rounds together are cipher block chaining: CbcDecrypt.              *)
PlainBlock(blk) == [k \in 0 .. 15 |->
    IF Cardinality(blk[k]) = 1
    THEN LET x == CHOOSE y \in blk[k] : TRUE IN [aes |-> x.aes, chain |-> x.chain]
    ELSE [aes |-> <<-1, -1>>, chain |-> <<"none", 0>>]]

Plain == [b \in DOMAIN out |-> PlainBlock(out[b])]

Cbc == INSTANCE CbcDecrypt WITH plain <- Plain
CbcSpec == Cbc!Spec
===============================================================================
