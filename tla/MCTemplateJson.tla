----------------------------- MODULE MCTemplateJson -----------------------------
(***************************************************************************)
(* The documents for TemplateJson: what a key server may answer, each with *)
(* what it says, worked out from its fields and not from its text.         *)
(***************************************************************************)
EXTENDS TemplateDocuments, TLC

(* Pieces of a string: how each is written, and what it says.              *)
Plain(s)   == [j \in DOMAIN s |-> [w |-> <<s[j]>>, says |-> <<s[j]>>]]
Esc(c, is) == <<[w |-> <<"\\", c>>, says |-> <<is>>]>>
Code(h, s) == <<[w |-> <<"\\", "u">> \o h, says |-> s]>>

(* A field: key and value; the pieces of both; whether the value has       *)
(* quotes, and is flat JSON; what it holds: bytes, or a set of at most one *)
(* number.                                                                 *)
Field(k, val, pieces, holds) ==
    [key |-> k, val |-> val, k |-> Plain(k), v |-> pieces,
     quoted |-> TRUE, flat |-> TRUE, holds |-> holds]
Unquoted(k, val, holds) == [Field(k, val, Plain(val), holds) EXCEPT !.quoted = FALSE]
Raw(written) == [Unquoted(<<"n">>, written, <<>>) EXCEPT !.flat = FALSE]

Text(k, val, holds) == Field(k, val, Plain(val), holds)
Tables   == Text(<<"c">>, <<"g", "w", "=", "=">>, <<131>>)
TablesEscaped == Field(<<"c">>, <<"g", "/", "Q", "=">>,
    Plain(<<"g">>) \o Esc("/", "/") \o Plain(<<"Q">>) \o Code(<<"0", "0", "3", "d">>, <<"=">>),
    <<131, 244>>)
TablesEmpty == Text(<<"c">>, <<>>, <<>>)
KeyBlob == Text(<<"s">>, <<"Q", "g", "w", "A", "g", "w", "A", "A">>, <<66, 12, 0, 131, 0, 0>>)
KeyBlobShort == Text(<<"s">>, <<"Q", "g", "w", "A", "g", "w", "A", "=">>, <<66, 12, 0, 131, 0>>)
Rcx   == Text(<<"r">>, <<"0", "x", "3", "d">>, {61})
RcxWide == Unquoted(<<"r">>, <<"8", "8", "d">>, {141})
RcxTooWide == Text(<<"r">>, <<"0", "x", "8", "0", "0", "0", "0">>, {})
Rax   == Unquoted(<<"q">>, <<"8">>, {8})
RaxNull == Unquoted(<<"q">>, <<"n", "u">>, {})
(* An escape of half a surrogate pair yields nothing.                      *)
Other == Field(<<"n">>, <<"m1", "m2", "\\", "\n">>,
    Plain(<<"m1", "m2">>) \o Esc("\\", "\\") \o Code(<<"d", "8", "3", "d">>, <<>>) \o Esc("n", "\n"), <<>>)
EscapedKey == [Text(<<"\"">>, <<"x">>, <<>>) EXCEPT !.k = Esc("\"", "\"")]

(* Not flat: an object of two fields, and an array.                        *)
Q(s)   == <<"\"">> \o s \o <<"\"">>
Object == Raw(<<"{">> \o Q(<<"c">>) \o <<":", "0", ",">> \o Q(<<"s">>) \o <<":", "0", "}">>)
Array  == Raw(<<"[", "3", ",", "8", "]">>)
(* No JSON string: a character where a digit is due.                       *)
BadEscape == Raw(Q(<<"\\", "u", "0", "0", "0", "m1", "m2">>))

-------------------------------------------------------------------------------
Having(fs, k) == {j \in DOMAIN fs : fs[j].key = k}
Held(fs, k)   == fs[Max(Having(fs, k))].holds
Num(fs, k)    == IF Having(fs, k) = {} THEN {0} ELSE Held(fs, k)

Keys(fs) ==
    IF \/ Having(fs, <<"c">>) = {} \/ Having(fs, <<"s">>) = {}
       \/ Len(Held(fs, <<"c">>)) < CtxSize \/ Len(Held(fs, <<"s">>)) < StateSize
    THEN {}
    ELSE {[ctx |-> Held(fs, <<"c">>),
           st  |-> [o \in Slots |-> SubSeq(Held(fs, <<"s">>), StateSize - o + 1,
                                           StateSize - o + 4)]]}
Expect(fs) ==
    {[ctx |-> e.ctx, st |-> e.st, regs |-> [k \in {<<"r">>, <<"q">>} |-> Max(Num(fs, k))]] :
        e \in {x \in Keys(fs) : \A k \in {<<"r">>, <<"q">>} : Num(fs, k) # {}}}

Written(ps)  == FlattenSeq([j \in DOMAIN ps |-> ps[j].w])
Says(ps)     == FlattenSeq([j \in DOMAIN ps |-> ps[j].says])
FirstOf(ps, j) == SubSeq(ps, 1, j - 1)
Spelt(ps, first) ==
    [at   |-> [j \in 1 .. Len(ps) + 1 |-> first + 1 + Len(Written(FirstOf(ps, j)))],
     said |-> [j \in 1 .. Len(ps) + 1 |-> Len(Says(FirstOf(ps, j)))]]

AddField(w, f, break, space) ==
    LET gap   == (IF w.ends = <<>> THEN <<>> ELSE <<",">>) \o break
        open  == Len(w.text) + Len(gap) + 1
        close == open + Len(Written(f.k)) + 1
        start == close + 2 + Len(space)
        value == IF f.quoted THEN Q(Written(f.v)) ELSE Written(f.v)
        t     == w.text \o gap \o Q(Written(f.k)) \o <<":">> \o space \o value
    IN [text |-> t, ends |-> Append(w.ends, Len(t)),
        layout |-> Append(w.layout,
            [open |-> open, close |-> close, colon |-> close + 1, start |-> start,
             name |-> Spelt(f.k, open),
             val  |-> IF f.quoted THEN Spelt(f.v, start) ELSE [at |-> <<>>, said |-> <<>>]])]

Document(fs, break, space) ==
    LET w == FoldLeft(LAMBDA v, f : AddField(v, f, break, space),
                      [text |-> <<"{">>, ends |-> <<>>, layout |-> <<>>], fs) IN
    [text   |-> w.text \o break \o <<"}">>, brace |-> 1, ends |-> w.ends, layout |-> w.layout,
     fields |-> [j \in DOMAIN fs |-> [key |-> fs[j].key, val |-> fs[j].val]],
     flat   |-> Min({j - 1 : j \in {l \in DOMAIN fs : ~ fs[l].flat}} \cup {Len(fs)}),
     keys   |-> Keys(fs), expect |-> Expect(fs)]

Compact(fs) == Document(fs, <<>>, <<>>)
Spaced(fs)  == Document(fs, <<"\n">>, <<" ">>)

Responses == {
    Compact(<<Tables, KeyBlob, Rcx, Rax>>), Spaced(<<Rax, TablesEscaped, Other, KeyBlob, RcxWide>>),
    Spaced(<<KeyBlob, Tables>>), Compact(<<EscapedKey, Rcx, KeyBlob, TablesEscaped, RcxWide>>),
    Compact(<<Tables, KeyBlobShort, Rcx>>), Compact(<<TablesEmpty, KeyBlob>>),
    Spaced(<<Tables, KeyBlob, RaxNull>>), Compact(<<KeyBlob, RcxTooWide, Tables>>),
    Spaced(<<Rcx, KeyBlob>>),
    Compact(<<Tables, KeyBlob, Object, Rcx>>), Spaced(<<Tables, Array, KeyBlob>>),
    Compact(<<Tables, BadEscape, KeyBlob>>), Compact(<<>>)}

===============================================================================
