------------------------------ MODULE TemplateJson ------------------------------
(***************************************************************************)
(* The construction of a template from the key server's response:          *)
(* parse_flat_json, base64_decode, template_from_json and parse_hex of     *)
(* src/src/template.rs, called through tmpl_from_json of src/src/ffi.rs.   *)
(*                                                                         *)
(* The parser is a hand-written loop over the bytes of the response; one   *)
(* action is one turn of one of its inner loops.  The response is one of a *)
(* set of documents, cut anywhere: the caller fetched it, and a transfer   *)
(* may stop half-way.  A byte is a character of a small alphabet; "m1" and *)
(* "m2" are the two bytes of one character that is not ASCII.              *)
(***************************************************************************)
EXTENDS Integers, Sequences, FiniteSets, FiniteSetsExt, SequencesExt

CONSTANTS
    Docs,           \* the documents: records, see TemplateDocuments
    CtxSize,        \* bytes the tables need (0x8000)
    StateSize,      \* bytes the state needs (0x2000)
    Slots,          \* the slots below ST_SIZE of ST_SLOTS
    WordDigits,     \* hexadecimal digits of a register (8)
    LongDigits,     \* and of the widest number accepted (16)
    BufRange        \* values base64_decode's buffer holds (2^32)

ASSUME TemplateAssumption ==
    /\ {CtxSize, StateSize, WordDigits, LongDigits} \subseteq Nat \ {0}
    /\ Slots \subseteq 4 .. StateSize
    /\ BufRange \in Nat \ {0} /\ BufRange % 2 ^ 14 = 0

VARIABLES
    doc,        \* the document the server sent
    text,       \* the part of it that arrived
    i,          \* the next byte (1 is the first)
    phase,      \* the loop the parser is in
    buf,        \* the string being read
    key,        \* the key of the field being read
    fields,     \* the fields read
    acc,        \* base64_decode: buf and bits, and the bytes it has put out
    ctx,        \* the tables, once decoded
    result      \* the template built, as a set of at most one; {} is NULL

vars == <<doc, text, i, phase, buf, key, fields, acc, ctx, result>>
later  == <<acc, ctx, result>>
Nothing == [buf |-> 0, bits |-> 0, out |-> <<>>]

n     == Len(text)
Quote     == "\""
Backslash == "\\"
Space == {" ", "\n"}
Gap   == Space \cup {",", "{", "}"}
At(chars) == i <= n /\ text[i] \in chars

-------------------------------------------------------------------------------
(* Conversions                                                             *)

DigitValue == [c \in {"0", "3", "8", "d"} |->
    CASE c = "0" -> 0 [] c = "3" -> 3 [] c = "8" -> 8 [] c = "d" -> 13]
IsHex(s)   == \A k \in DOMAIN s : s[k] \in DOMAIN DigitValue

\* mutant: the last digit of an escape is left in the string
ThreeHexDigits == 3
HexDigits == 4

(* The character of \uXXXX: none when it is no number or half of a pair.   *)
CharOf(h) ==
    IF ~ IsHex(h) \/ (h[1] = "d" /\ h[2] \in {"8", "d"}) THEN <<>>
    ELSE IF h = <<"0", "0", "3", "d">> THEN <<"=">> ELSE <<"?">>

(* The other escapes, of which those the parser does not know are dropped. *)
Unescaped(e) ==
    CASE e \in {Quote, Backslash, "/"} -> <<e>>
      [] e = "n" -> <<"\n">>
      [] OTHER -> <<>>

(* from_utf8_lossy: half a character is replaced.                          *)
Lossy(s) == [k \in DOMAIN s |->
    IF \/ s[k] = "m1" /\ (k = Len(s) \/ s[k + 1] # "m2")
       \/ s[k] = "m2" /\ (k = 1 \/ s[k - 1] # "m1")
    THEN "?" ELSE s[k]]

(* The letters of base64.                                                  *)
Letter == [c \in {"A", "Q", "g", "w", "0", "3", "8", "d", "n", "u", "x", "/"} |->
    CASE c = "A" -> 0  [] c = "Q" -> 16 [] c = "g" -> 32 [] c = "w" -> 48
      [] c = "0" -> 52 [] c = "3" -> 55 [] c = "8" -> 60 [] c = "d" -> 29
      [] c = "n" -> 39 [] c = "u" -> 46 [] c = "x" -> 49 [] c = "/" -> 63]

(* parse_hex: a set of at most one number.                                 *)
Trim(s) ==
    LET kept == {k \in DOMAIN s : s[k] \notin Space}
    IN IF kept = {} THEN <<>> ELSE SubSeq(s, Min(kept), Max(kept))
Digits(s) == IF Len(s) >= 2 /\ s[1] = "0" /\ s[2] = "x" THEN SubSeq(s, 3, Len(s)) ELSE s
TooLong(h) == LongDigits <= Len(h) - Min({k \in DOMAIN h : h[k] # "0"} \cup {Len(h)})
parse_hex(s) ==
    LET h == Digits(Trim(s)) IN
    IF h = <<>> \/ ~ IsHex(h) \/ TooLong(h) THEN {}
    ELSE {FoldLeft(LAMBDA v, c : (v * 16 + DigitValue[c]) % 16 ^ WordDigits, 0, h)}

-------------------------------------------------------------------------------
(* template_from_json.  Of the five registers two stand for all.           *)

Ctx       == <<"c">>
State     == <<"s">>
Registers == {<<"r">>, <<"q">>}

Holding(k) == {j \in DOMAIN fields : fields[j].key = k}
\* mutant: the first of two fields with the same key counts
GetFirst(k) == fields[Min(Holding(k))].val
Get(k)      == fields[Max(Holding(k))].val
Register(k) == IF Holding(k) = {} THEN {0} ELSE parse_hex(Get(k))

TheWord(st, off) ==
    LET pos == StateSize - off
    IN IF pos + 4 <= Len(st) THEN SubSeq(st, pos + 1, pos + 4) ELSE <<0, 0, 0, 0>>

Template(tables, st) ==
    [ctx  |-> tables,
     st   |-> [off \in Slots |-> TheWord(st, off)],
     regs |-> [k \in Registers |-> CHOOSE v \in Register(k) : TRUE]]

-------------------------------------------------------------------------------
Init ==
    /\ doc \in Docs
    /\ \E cut \in 0 .. Len(doc.text) : text = SubSeq(doc.text, 1, cut)
    /\ i = 1 /\ phase = "call" /\ buf = <<>> /\ key = <<>> /\ fields = <<>>
    /\ acc = Nothing /\ ctx = <<>> /\ result = {}

Goto(p, j) == phase' = p /\ i' = j
Return(r)  ==
    /\ phase' = "returned" /\ result' = r
    /\ UNCHANGED <<doc, text, i, buf, key, fields, acc, ctx>>

(* tmpl_from_json refuses bytes that are not UTF-8.                        *)
Call ==
    /\ phase = "call"
    /\ IF Lossy(text) # text THEN Return({})
       ELSE Goto("seek", i) /\ UNCHANGED <<doc, text, buf, key, fields, later>>

(* Skip to the first brace, and over it.                                   *)
SkipToBrace ==
    /\ phase = "seek"
    /\ Goto(IF i <= n /\ ~ At({"{"}) THEN "seek" ELSE "gap", i + 1)
    /\ UNCHANGED <<doc, text, buf, key, fields, later>>

(* Between the fields: at the end, or where no key begins, the parser stops*)
SkipGap ==
    /\ phase = "gap"
    /\ CASE At(Gap)      -> Goto("gap", i + 1)
         [] At({Quote})   -> Goto("key", i + 1)
         [] OTHER        -> Goto("lookup", i)
    /\ buf' = <<>>
    /\ UNCHANGED <<doc, text, key, fields, later>>

(* A byte of a quoted string; after a backslash, two.                      *)
Quoted   == phase \in {"key", "value"}
InString == i <= n /\ text[i] # Quote
Escaped  == text[i] = Backslash /\ i + 1 <= n

StringByte ==
    /\ Quoted /\ InString /\ ~ (Escaped /\ text[i + 1] = "u")
    /\ buf' = buf \o (IF Escaped THEN Unescaped(text[i + 1]) ELSE <<text[i]>>)
    /\ i' = i + (IF Escaped THEN 2 ELSE 1)
    /\ UNCHANGED <<doc, text, phase, key, fields, later>>

(* \uXXXX: too near the end it counts as \u and its digits as themselves;  *)
(* a slice that would end within a character panics.                       *)
UnicodeEscape ==
    /\ Quoted /\ InString /\ Escaped /\ text[i + 1] = "u"
    /\ LET last == i + 1 + HexDigits IN
       IF last > n THEN Goto(phase, i + 2) /\ UNCHANGED buf
       ELSE IF last < n /\ text[last + 1] = "m2" THEN Goto("panic", i) /\ UNCHANGED buf
       ELSE Goto(phase, last + 1) /\ buf' = buf \o CharOf(SubSeq(text, i + 2, last))
    /\ UNCHANGED <<doc, text, key, fields, later>>

Add(val) == fields' = Append(fields, [key |-> key, val |-> val])

(* The closing quote, or the end of the input.                             *)
StringEnd ==
    /\ Quoted /\ ~ InString
    /\ IF phase = "key"
       THEN Goto("colon", i + 1) /\ key' = Lossy(buf) /\ UNCHANGED fields
       ELSE Goto("gap", i + 1) /\ Add(Lossy(buf)) /\ UNCHANGED key
    /\ buf' = <<>>
    /\ UNCHANGED <<doc, text, later>>

SkipToColon ==
    /\ phase = "colon"
    /\ Goto(IF i <= n /\ ~ At({":"}) THEN "colon" ELSE "space", i + 1)
    /\ UNCHANGED <<doc, text, buf, key, fields, later>>

SkipSpace ==
    /\ phase = "space"
    /\ CASE At(Space)    -> Goto("space", i + 1)
         [] At({Quote})   -> Goto("value", i + 1)
         [] OTHER        -> Goto("bare", i)
    /\ UNCHANGED <<doc, text, buf, key, fields, later>>

(* A value without quotes; its slice panics when the key was the last thing*)
(* in the input and the index has run past the end.                        *)
BareByte ==
    /\ phase = "bare"
    /\ IF i <= n /\ ~ At(Space \cup {",", "}"})
       THEN Goto("bare", i + 1) /\ buf' = Append(buf, text[i]) /\ UNCHANGED fields
       ELSE IF i > n + 1 THEN Goto("panic", i) /\ UNCHANGED <<buf, fields>>
       ELSE Goto("gap", i) /\ Add(buf) /\ buf' = <<>>
    /\ UNCHANGED <<doc, text, key, later>>

(* template_from_json, once the parser has returned: the last field of each*)
(* name counts; a register that is missing is 0, one that is no number an  *)
(* error.                                                                  *)
Lookup ==
    /\ phase = "lookup"
    /\ IF Holding(Ctx) = {} \/ Holding(State) = {} \/ \E k \in Registers : Register(k) = {}
       THEN Return({})
       ELSE /\ Goto("ctx", 1) /\ buf' = Get(Ctx)
            /\ UNCHANGED <<doc, text, key, fields, later>>

(* base64_decode, of the tables and then of the state: up to the first "=",*)
(* skipping what is no letter.                                             *)
Decoding == phase \in {"ctx", "state"}
InData   == i <= Len(buf) /\ buf[i] # "="

DecodeByte ==
    /\ Decoding /\ InData
    /\ IF buf[i] \in DOMAIN Letter
       THEN LET b    == (acc.buf * 64 + Letter[buf[i]]) % BufRange
                bits == acc.bits + 6
            IN acc' = IF bits < 8 THEN [acc EXCEPT !.buf = b, !.bits = bits]
                      ELSE [buf |-> b, bits |-> bits - 8,
                            out |-> Append(acc.out, (b \div 2 ^ (bits - 8)) % 256)]
       ELSE UNCHANGED acc
    /\ i' = i + 1
    /\ UNCHANGED <<doc, text, phase, buf, key, fields, ctx, result>>

\* mutant: only an empty field is refused
NotEmpty(bytes, size) == Len(bytes) > 0
LongEnough(bytes, size) == Len(bytes) >= size

CtxDecoded ==
    /\ phase = "ctx" /\ ~ InData
    /\ IF ~ LongEnough(acc.out, CtxSize) THEN Return({})
       ELSE /\ Goto("state", 1) /\ ctx' = acc.out /\ buf' = Get(State) /\ acc' = Nothing
            /\ UNCHANGED <<doc, text, key, fields, result>>

StateDecoded ==
    /\ phase = "state" /\ ~ InData
    /\ Return(IF LongEnough(acc.out, StateSize) THEN {Template(ctx, acc.out)} ELSE {})

(* catch_unwind.                                                           *)
\* mutant: the panic leaves the library
UnwindIntoCaller == phase = "panic" /\ UNCHANGED vars
Unwind == phase = "panic" /\ Return({})

Returned == phase = "returned" /\ UNCHANGED vars

Step == \/ Call \/ SkipToBrace \/ SkipGap \/ StringByte \/ UnicodeEscape \/ StringEnd
        \/ SkipToColon \/ SkipSpace \/ BareByte
        \/ Lookup \/ DecodeByte \/ CtxDecoded \/ StateDecoded \/ Unwind
Next == Step \/ Returned
Spec == Init /\ [][Next]_vars /\ WF_vars(Step)

-------------------------------------------------------------------------------
(* Properties                                                              *)

Whole == text = doc.text

(* Wherever the response was cut, a field that arrived in full is read as  *)
(* the document has it, a field begun has the document's key, and none is  *)
(* invented: up to the first value that is not flat.                       *)
FieldsKept ==
    \A k \in DOMAIN fields :
        /\ k <= doc.flat =>
            /\ fields[k].key = doc.fields[k].key
            /\ doc.ends[k] <= n => fields[k] = doc.fields[k]
        /\ k > doc.flat => doc.flat < Len(doc.fields)

(* A flat document that arrived in full yields the template it describes,  *)
(* or NULL where it lacks a part, whatever its order, spacing and escapes. *)
WholeDocsLoad ==
    phase = "returned" /\ Whole /\ doc.flat = Len(doc.fields) => result = doc.expect

(* Wherever the response was cut, a template that is built has the         *)
(* document's tables and keys.  (Not so its registers: see README.)        *)
KeysIntact ==
    phase = "returned" /\ doc.flat = Len(doc.fields) =>
        \A t \in result : \E e \in doc.keys :
            t.st = e.st /\ SubSeq(t.ctx, 1, CtxSize) = SubSeq(e.ctx, 1, CtxSize)

(* No response keeps the parser busy for ever, and the caller always gets  *)
(* an answer, a panic included.                                            *)
CallReturns == <>(phase = "returned")
===============================================================================
