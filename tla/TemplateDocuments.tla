--------------------------- MODULE TemplateDocuments ---------------------------
(***************************************************************************)
(* The documents a key server may send to TemplateJson, and what they say, *)
(* by the standards and not by the parser: JSON (RFC 8259) in one object   *)
(* whose first doc.flat members are flat, and base64 (RFC 4648).  What     *)
(* follows a member that is not flat is left open.                         *)
(*                                                                         *)
(* A document is a record of its text; its members ("fields": key and      *)
(* value, in their order); the place where the value of each of them ends; *)
(* how many are flat; and, for those, where their parts stand (layout).    *)
(***************************************************************************)
EXTENDS TemplateJson

-------------------------------------------------------------------------------
(* base64: the letters among the first k characters of s; those before the *)
(* padding; and the bytes that 6-bit letters make, four letters to three.  *)

LettersIn(s) ==
    LET upTo[k \in 0 .. Len(s)] ==
            IF k = 0 THEN <<>>
            ELSE IF s[k] \in DOMAIN Letter THEN Append(upTo[k - 1], Letter[s[k]])
            ELSE upTo[k - 1]
    IN upTo

Padding(s) == Min({k \in DOMAIN s : s[k] = "="} \cup {Len(s) + 1})

ByteAt(l, k) ==
    LET g == 4 * ((k - 1) \div 3) IN
    CASE (k - 1) % 3 = 0 -> l[g + 1] * 4 + l[g + 2] \div 16
      [] (k - 1) % 3 = 1 -> (l[g + 2] % 16) * 16 + l[g + 3] \div 4
      [] (k - 1) % 3 = 2 -> (l[g + 3] % 4) * 64 + l[g + 4]
Bytes(l)   == [k \in 1 .. (6 * Len(l)) \div 8 |-> ByteAt(l, k)]
Decoded(s) == Bytes(LettersIn(s)[Padding(s) - 1])

-------------------------------------------------------------------------------
(* The template the members fs describe, as a set of at most one.          *)

Members(fs, k)   == {j \in DOMAIN fs : fs[j].key = k}
LastMember(fs, k) == fs[Max(Members(fs, k))].val
Number(fs, k)    == IF Members(fs, k) = {} THEN {0} ELSE parse_hex(LastMember(fs, k))

KeysOf(fs) ==
    IF \/ Members(fs, Ctx) = {} \/ Members(fs, State) = {}
       \/ Len(Decoded(LastMember(fs, Ctx))) < CtxSize
       \/ Len(Decoded(LastMember(fs, State))) < StateSize
    THEN {}
    ELSE {[ctx |-> Decoded(LastMember(fs, Ctx)),
           st  |-> [off \in Slots |-> SubSeq(Decoded(LastMember(fs, State)),
                                StateSize - off + 1, StateSize - off + 4)]]}
TemplateOf(fs) ==
    IF \E k \in Registers : Number(fs, k) = {} THEN {}
    ELSE {[ctx |-> e.ctx, st |-> e.st,
           regs |-> [k \in Registers |-> CHOOSE v \in Number(fs, k) : TRUE]] : e \in KeysOf(fs)}

-------------------------------------------------------------------------------
(* How a document is written.                                              *)

(* From p to q, t spells the characters s: one as itself, or an escape.    *)
Itself(t, p, q, s)  == t[p] \notin {Quote, Backslash} /\ q = p + 1 /\ s = <<t[p]>>
Short(t, p, q, s)   ==
    /\ t[p] = Backslash /\ q = p + 2
    /\ \/ t[p + 1] \in {Quote, Backslash, "/"} /\ s = <<t[p + 1]>>
       \/ t[p + 1] = "n" /\ s = <<"\n">>
Unicode(t, p)       == t[p] = Backslash /\ t[p + 1] = "u"
ByNumber(t, p, q, s) ==
    /\ Unicode(t, p) /\ q = p + 6
    /\ IsHex(SubSeq(t, p + 2, p + 5)) /\ s = CharOf(SubSeq(t, p + 2, p + 5))
Piece(t, p, q, s)   == Itself(t, p, q, s) \/ Short(t, p, q, s) \/ ByNumber(t, p, q, s)

(* w spells val between the quotes at first and last: w.at[j] is where its *)
(* j-th piece begins, and w.said[j] how much of val those before it say.   *)
Spells(t, w, first, last, val) ==
    /\ Len(w.at) > 0 /\ Len(w.said) = Len(w.at)
    /\ \A j \in DOMAIN w.at : w.at[j] \in first + 1 .. last /\ w.said[j] \in 0 .. Len(val)
    /\ t[first] = Quote /\ w.at[1] = first + 1 /\ w.said[1] = 0
    /\ t[last] = Quote /\ w.at[Len(w.at)] = last /\ w.said[Len(w.at)] = Len(val)
    /\ \A j \in 1 .. Len(w.at) - 1 :
        /\ w.said[j] <= w.said[j + 1]
        /\ Piece(t, w.at[j], w.at[j + 1], SubSeq(val, w.said[j] + 1, w.said[j + 1]))
    /\ Lossy(val) = val

(* A number, true, false or null, from first to last.                      *)
Bare(t, first, last, val) ==
    /\ first <= last /\ last < Len(t) /\ val = SubSeq(t, first, last)
    /\ \A p \in first .. last : t[p] \notin Space \cup {",", "}", Quote}
    /\ t[last + 1] \in Space \cup {",", "}"}

Filled(t, first, last, chars) == \A p \in first .. last : t[p] \in chars

Before(d, k) == IF k = 1 THEN d.brace ELSE d.ends[k - 1]

FlatMember(d, k) ==
    LET t == d.text
        f == d.layout[k]
    IN /\ Before(d, k) < f.open /\ f.open < f.close /\ f.close < f.colon
       /\ f.colon < f.start /\ f.start < Len(t)
       /\ Filled(t, Before(d, k) + 1, f.open - 1, Space \cup {","})
       /\ Spells(t, f.name, f.open, f.close, d.fields[k].key)
       /\ Filled(t, f.close + 1, f.colon - 1, Space) /\ t[f.colon] = ":"
       /\ Filled(t, f.colon + 1, f.start - 1, Space)
       /\ \/ Spells(t, f.val, f.start, d.ends[k], d.fields[k].val)
          \/ Bare(t, f.start, d.ends[k], d.fields[k].val)

(* The alphabet: what the parser knows, what it puts in, and some besides.  *)
Char     == Gap \cup DOMAIN Letter \cup
            {":", Quote, Backslash, "=", "?", "m1", "m2", "c", "s", "r", "q", "[", "]"}
Spelling == [at : Seq(Nat), said : Seq(Nat)]
Layout   == [open : Nat, close : Nat, colon : Nat, start : Nat, name : Spelling, val : Spelling]

WellTyped(d) ==
    /\ d.text \in Seq(Char) /\ d.brace \in Nat /\ d.flat \in Nat
    /\ d.fields \in Seq([key : Seq(Char), val : Seq(Char)])
    /\ d.ends \in Seq(Nat) /\ Len(d.ends) = Len(d.fields)
    /\ d.layout \in Seq(Layout) /\ Len(d.layout) = Len(d.fields)

(* UTF-8, and an object of members, the first d.flat of them flat.         *)
WellWritten(d) ==
    /\ Lossy(d.text) = d.text
    /\ d.brace \in 1 .. Len(d.text) /\ d.text[d.brace] = "{"
    /\ \A p \in 1 .. d.brace - 1 : d.text[p] \in Space
    /\ d.flat <= Len(d.fields)
    /\ \A k \in 1 .. d.flat : FlatMember(d, k) /\ d.ends[k] < Len(d.text)
    /\ d.flat = Len(d.fields) =>
        Filled(d.text, Before(d, d.flat + 1) + 1, Len(d.text), Space \cup {"}"})

(* The tables and the state stand once in a document; and a \u escape only *)
(* behind what is needed of them: one that is cut leaves its digits in the *)
(* value, as letters.                                                      *)
Needed(k) == IF k = Ctx THEN CtxSize ELSE StateSize
KeysPlain(d) ==
    /\ \A j, k \in DOMAIN d.fields :
        d.fields[j].key = d.fields[k].key /\ d.fields[j].key \in {Ctx, State} => j = k
    /\ \A k \in 1 .. d.flat : d.fields[k].key \in {Ctx, State} =>
        LET w == d.layout[k].val IN
        \A j \in 1 .. Len(w.at) - 1 : Unicode(d.text, w.at[j]) =>
            Needed(d.fields[k].key) <= Len(Decoded(SubSeq(d.fields[k].val, 1, w.said[j])))

ASSUME DocsAssumption ==
    \A d \in Docs :
        /\ WellTyped(d) /\ WellWritten(d) /\ KeysPlain(d)
        /\ d.expect = TemplateOf(d.fields) /\ d.keys = KeysOf(d.fields)
===============================================================================
