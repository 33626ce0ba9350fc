------------------------------ MODULE RoundProgram ------------------------------
(***************************************************************************)
(* The straight-line code of src/src/rounds_gen.rs (round1_mid,            *)
(* round1_tail, round2_sub6400, round3_sub8000) and of the boundary before *)
(* round3 in src/src/rounds.rs, as the sequence of its stores and of the   *)
(* sums it builds.                                                         *)
(*                                                                         *)
(* What the code does to a number on its way is left out: the masking      *)
(* arithmetic (x - 2 * (x & c) + c, then ^ c: the identity), the constant  *)
(* XORed into every table index, the shifts that put a byte in its lane.   *)
(* What is kept is where every number comes from and goes to: which byte   *)
(* of which local or state slot indexes which table, what is XORed         *)
(* together, which slot holds the result and until when.  A 32-bit number  *)
(* has four lanes, lane 0 the low byte.                                    *)
(*                                                                         *)
(* Operands: S(n) is st[n]; v(n), a(n) the locals and parameters of the    *)
(* round functions under their own number; R(n) the registers of round1    *)
(* and RCX, RAX those of the template; cp(n) is cp12[n]; In(c) the register*)
(* that gathers the column c of the ciphertext block.                      *)
(***************************************************************************)
EXTENDS Integers, Sequences

S(n)  == <<"st", n>>
v(n)  == <<"v", n>>
a(n)  == <<"a", n>>
R(n)  == <<"r", n>>
cp(n) == <<"cp", n>>
In(c) == <<"in", c>>
RCX   == <<"reg", 1>>
RAX   == <<"reg", 2>>
RSI   == <<"r", 4>>
r8p   == <<"r", 0>>

(* The terms of a sum.  L: t4 of one of the four round tables, the lane's  *)
(* own, at that byte of the operand (LX: of the XOR of two).  F: the same  *)
(* for the tables of the last round.  K: the byte held in the operand, a   *)
(* key byte through its substitution (ctxb), moved to the lane.  X: the    *)
(* operand as it is.  M: the mixing arithmetic of lines 1315-1345.         *)
Term(op, l, os) == [op |-> op, lane |-> l, of |-> os]
LX(l, os)   == Term("look", l, os)
L(l, o)     == LX(l, {o})
F(l, o)     == Term("last", l, {o})
K(l, o)     == Term("byte", l, {o})
X(o)        == Term("all", 0, {o})
M(os)       == Term("mix", 0, os)

(* Four key bytes, highest lane first: the code shifts the first three in. *)
KB(o3, o2, o1, o0) == {K(3, o3), K(2, o2), K(1, o1), K(0, o0)}
KS(s3, s2, s1, s0) == KB(S(s3), S(s2), S(s1), S(s0))

(* The steps.  Sum: to := XOR of the terms.  Put: to := o.  Byte: to := one*)
(* byte of the operand, (x >> 8 * b) & 0xFF or an x >> 8 * b of which only *)
(* that byte is used.  Ofs: to := (rdi | or) ^ xor, by the bits of or and  *)
(* whether the constant has bit 2.  Load: to := the ciphertext byte at the *)
(* offset.                                                                 *)
Whole == 4
Step(op, to, sel, of, at) ==
    [op |-> op, to |-> to, sel |-> sel, of |-> of, at |-> at]
Sum(to, terms)      == Step("sum", to, Whole, terms, to)
Put(to, o)          == Step("copy", to, Whole, {}, o)
\* mutant: the shift is forgotten, the low byte is stored
LowByte(to, b, o)   == Step("byte", to, 0, {}, o)
Byte(to, b, o)      == Step("byte", to, b, {}, o)
Ofs(to, or, bit2)   == Step("offset", to, Whole, <<or, bit2>>, to)
Load(to, at)        == Step("load", to, Whole, {}, at)

-------------------------------------------------------------------------------
(* round1_mid: ciphertext bytes 8 to 11 and their column.                  *)
round1_mid_1 == <<
    Load(S(304), RSI),
    Ofs(S(344), {0, 3}, TRUE),   Load(S(360), S(344)),
    Ofs(S(424), {1, 3}, TRUE),   Load(S(368), S(424)),
    Ofs(S(416), {0, 1, 3}, TRUE), Load(S(384), S(416)),
    Put(S(144), S(384)),         Sum(S(72), {K(0, S(1320))}),
    Sum(In(2), KB(RCX, RAX, S(1280), S(1320))
               \cup KB(S(304), S(360), S(368), S(384))) >>

\* mutant: the word is stored over one of its key's slots
round1_mid_2_on_a_key == << Put(S(80), In(2)), Byte(S(600), 1, In(2)), Put(S(1320), In(2)) >>
round1_mid_2 == << Put(S(80), In(2)), Byte(S(600), 1, In(2)), Put(S(536), In(2)) >>

(* round1_mid: bytes 12 and 13; the offset of byte 5 is stored masked.     *)
round1_mid_3 == <<
    Ofs(S(176), {0, 2}, FALSE),
    Ofs(S(448), {2, 3}, FALSE),  Load(S(1088), S(448)),
    Ofs(S(440), {0, 2, 3}, FALSE), Load(S(584), S(440)) >>

(* round1_mid: the other offsets, then the other bytes; r13, r15, r8 and   *)
(* r14 keep bytes 6, 4, 5 and 15 for round1_tail.                          *)
round1_mid_4 == <<
    Ofs(S(408), {2}, FALSE),     Ofs(S(120), {}, TRUE),
    Ofs(S(608), {0, 1, 2}, FALSE), Ofs(S(528), {0, 1}, TRUE),
    Ofs(S(560), {0}, TRUE),      Ofs(S(432), {1, 2}, FALSE),
    Ofs(S(152), {1}, TRUE),      Ofs(S(696), {1, 2, 3}, FALSE),
    Load(S(96), S(608)),
    Load(R(13), S(432)),         Put(S(552), R(13)),
    Put(S(176), S(176)),         Ofs(S(736), {0, 1, 2, 3}, FALSE),
    Load(S(88), S(120)),         Load(S(336), S(528)),
    Load(R(15), S(408)),         Put(S(568), R(15)),
    Load(S(104), S(560)),        Load(S(576), S(696)),
    Load(R(8), S(176)),          Put(S(512), R(8)),
    Load(S(112), S(152)),
    Load(R(14), S(736)),         Put(S(672), R(14)) >>

(* round1_mid: the column of bytes 12 to 15.                               *)
round1_mid_5 == <<
    Sum(S(592), {K(0, S(1096))}),
    Sum(In(3), KS(776, 1672, 1312, 1096)
               \cup KB(S(1088), S(584), S(576), R(14))) >>

(* round1_tail: bytes 4 to 7.  The results are named as round2's           *)
(* parameters: a1..a6, v6.. are rdi, rsi, rdx, rcx, r8, r9, rax, rbx, ...  *)
round1_tail_1 == <<
    Byte(S(616), 1, In(3)), Put(v(10), In(3)),
    Sum(In(1), KS(760, 1712, 1128, 1288)
               \cup KB(R(15), R(8), R(13), S(96))) >>

(* round1_tail: bytes 0 to 3; byte 3 and its key byte leave apart, as do   *)
(* byte 15 and its own.                                                    *)
round1_tail_2 == <<
    Put(v(11), In(1)), Put(a(6), In(1)), Byte(v(13), 1, In(1)), Put(v(12), R(14)),
    Sum(v(9), {K(0, S(1680))}), Put(a(5), S(336)) >>
round1_tail_3 == <<
    Sum(In(0), KS(888, 1736, 1304, 1680)
               \cup KB(S(88), S(104), S(112), S(336))),
    Sum(v(7), {L(0, In(1)), L(2, In(3))}),
    Put(a(3), In(0)), Byte(a(2), 1, In(0)), Byte(v(6), 3, In(0)) >>

-------------------------------------------------------------------------------
(* round2_sub6400, lines 941 to 988.                                       *)
round2_1 == <<
    Sum(v(14), {L(3, v(6)), X(v(7))}),
    Sum(v(15), {L(1, a(2)), L(2, v(11)), X(S(1568)), L(3, S(536))}),
    Sum(v(16), {L(1, v(13)), LX(0, {v(9), a(5)}), L(3, v(10)), X(S(1704)), L(2, S(80))}),
    Byte(S(656), 1, v(16)), Put(S(80), v(16)),
    Sum(v(17), {L(2, a(3)), X(S(1552)), L(3, a(6))}),
    Sum(v(18), {LX(0, {S(592), v(12)}), X(v(15))}),
    Byte(S(536), 0, v(18)), Byte(S(592), 1, v(18)),
    Sum(v(28), KS(768, 1648, 1160, 1152) \cup {L(1, S(600)), X(v(14))}),
    Byte(v(29), 0, v(28)), Byte(v(30), 1, v(28)),
    Sum(v(31), {LX(0, {S(72), S(144)}), L(1, S(616)), X(v(17))}),
    Byte(S(72), 0, v(31)),
    Sum(v(32), {L(1, v(30)), L(2, v(31)), L(0, v(16)), X(S(1760)), L(3, v(18))}),
    Sum(v(33), {L(1, v(31)), L(3, v(16)), X(S(1560)), L(2, v(18))}),
    Put(v(34), v(32)), Byte(S(144), 0, v(32)), Byte(v(35), 1, v(32)), Put(S(648), v(32)),
    Sum(v(36), {L(0, v(29)), X(v(33))}), Byte(S(616), 0, v(36)),
    Sum(v(37), {L(1, S(656)), L(2, v(28)), X(S(1720)), L(3, v(31))}),
    Sum(v(47), {L(0, S(536)), X(v(37))}) >>

(* round2_sub6400, lines 989 to 1027.                                      *)
round2_2 == <<
    Sum(v(48), KS(704, 1688, 1120, 1248)
               \cup {L(2, S(80)), L(3, v(28)), L(1, S(592)), L(0, S(72))}),
    Byte(v(49), 0, v(48)), Byte(v(50), 1, v(48)), Byte(v(51), 2, v(48)),
    Sum(S(72), {L(1, v(36)), X(S(1632)), L(3, v(47))}),
    Byte(v(61), 0, v(47)),
    Sum(v(62), KS(880, 1752, 1136, 1256) \cup {L(2, v(36)), L(3, v(48)), L(0, v(61))}),
    Byte(v(63), 1, v(47)),
    Sum(v(64), {L(3, v(34)), X(S(1416)), L(2, v(47))}),
    Sum(v(65), {L(1, v(35)), X(v(62))}),
    Byte(v(66), 0, v(65)), Byte(S(600), 1, v(65)), Byte(v(35), 2, v(65)),
    Sum(v(67), {L(0, v(49)), L(2, S(648)), L(3, v(36)), X(S(1384)), L(1, v(63))}),
    Sum(v(77), {L(0, S(616)), L(1, v(50)), X(v(64))}),
    Sum(v(78), {L(0, S(144)), L(2, v(51)), X(S(72))}) >>

(* round2_sub6400, lines 1028 to 1066.                                     *)
round2_3 == <<
    Sum(v(79), KS(688, 1728, 1104, 1144)
               \cup {L(1, v(77)), L(0, v(78)), L(3, v(65)), L(2, v(67))}),
    Byte(v(80), 0, v(77)), Put(v(81), v(77)),
    Sum(v(82), {L(1, v(78)), L(2, v(77)), X(S(1512)), L(3, v(67))}),
    Sum(v(83), {L(3, v(78)), X(S(1536)), L(2, v(35))}),
    Put(S(680), v(79)), Byte(S(536), 0, v(79)), Byte(S(72), 1, v(79)), Put(S(80), v(79)),
    Sum(v(84), {L(1, v(67)), X(v(83))}), Sum(v(85), {L(0, v(66)), X(v(82))}),
    Byte(v(86), 2, v(78)),
    Sum(v(87), {L(0, v(67)), L(3, v(81)), X(S(1480)), L(1, S(600))}),
    Byte(v(88), 2, v(85)), Byte(S(720), 0, v(85)), Byte(S(624), 1, v(85)), Put(S(144), v(85)),
    Sum(v(89), {L(0, v(80)), X(v(84))}), Sum(v(90), {L(2, v(86)), X(v(87))}),
    Byte(S(616), 0, v(90)), Byte(S(648), 1, v(90)),
    Put(v(91), v(89)), Byte(S(640), 0, v(89)), Byte(S(656), 1, v(89)),
    Sum(v(101), {L(2, v(89))}) >>

(* round2_sub6400, lines 1067 to 1105: the bytes of round 4's words are    *)
(* spread over the slots before round 5 is built from them.                *)
round2_4 == <<
    Sum(S(600), {K(0, S(968))}), Sum(S(592), {K(0, S(976))}),
    Byte(v(85), 3, S(80)), Byte(v(105), 2, S(680)),
    Byte(S(144), 3, S(144)), Put(S(80), v(85)), Byte(S(72), 1, S(72)), Byte(S(680), 2, v(90)),
    Byte(v(106), 3, v(91)),
    Sum(v(111), {L(1, S(624)), L(3, v(106)), X(S(1544)), L(2, v(105))}),
    Sum(v(112), KS(848, 1664, 832, 744) \cup {L(0, S(640)), L(3, S(80)), L(2, v(88))}),
    Sum(v(113), {X(S(1592)), L(3, v(90)), X(v(101)), L(1, S(72)), L(0, S(720))}),
    Byte(S(80), 1, v(113)), Put(v(114), v(113)),
    Sum(v(115), {L(1, S(648)), X(v(112))}), Sum(v(116), {L(0, S(616)), X(v(111))}),
    Sum(v(117), {L(2, S(680)), X(S(1368)), L(3, S(144))}),
    Byte(v(118), 0, v(116)), Put(S(72), v(116)), Byte(S(648), 1, v(116)),
    Sum(v(119), {L(1, S(656)), L(0, S(536)), X(v(117))}),
    Byte(S(656), 1, v(115)), Put(v(120), v(115)),
    Sum(v(121), {L(0, v(113)), L(2, v(115)), L(1, v(119)), X(S(1432)), L(3, v(116))}),
    Sum(v(122), {L(3, v(119)), X(S(1392)), L(2, v(113))}) >>

(* round2_sub6400, lines 1106 to 1137: round 6 and the first word of       *)
(* round 7.                                                                *)
round2_5 == <<
    Put(S(144), v(121)), Byte(v(123), 0, v(121)), Byte(v(124), 1, v(121)), Put(S(616), v(121)),
    Sum(v(125), {L(0, v(115)), L(1, S(648)), X(v(122))}),
    Byte(S(536), 0, v(125)), Byte(v(126), 2, v(125)), Byte(S(680), 1, v(125)),
    Put(v(127), v(125)),
    Sum(v(133), KB(S(592), S(1640), S(784), S(1048))
                \cup {L(2, v(119)), L(3, v(120)), L(0, v(118)), L(1, S(80))}),
    Byte(S(640), 1, v(133)),
    Sum(v(134), {L(3, v(114)), L(1, S(656)), L(2, S(72)), X(S(1624)), L(0, v(119))}),
    Sum(v(135), {L(0, v(133)), L(3, v(127)), L(1, v(124))}), Put(S(656), v(135)),
    Sum(v(121), {L(2, v(134))}), Put(S(592), v(121)),
    Sum(v(136), {X(v(121)), X(S(1528)), X(v(135))}),
    Put(S(72), v(136)), Byte(S(648), 0, v(136)), Byte(S(728), 1, v(136)),
    Put(S(720), v(136)) >>

(* round2_sub6400, lines 1139 to 1174: from here round 7 is computed twice,*)
(* with two sets of keys.                                                  *)
round2_6 == <<
    Sum(v(145), {L(2, v(126)), L(1, v(134)), L(3, v(133)), L(0, v(123))}),
    Put(S(752), v(145)),
    Sum(v(121), KS(856, 1656, 864, 808) \cup {X(v(145))}), Put(S(816), v(121)),
    Byte(S(624), 0, v(121)), Byte(S(792), 1, v(121)), Put(S(80), v(121)),
    Sum(v(146), {L(1, S(680))}), Sum(v(147), {L(1, S(640))}),
    Sum(v(151), {K(3, S(600)), K(2, S(1768)), K(1, S(800))}),
    Sum(v(155), {L(3, v(134)), L(2, S(144))}),
    Sum(v(156), {L(2, v(133)), L(3, S(616)), L(0, v(134))}),
    Sum(v(158), {X(v(146)), X(S(1360)), X(v(156))}) >>

(* round2_sub6400, lines 1175 to 1206.                                     *)
round2_7 == <<
    Put(S(144), v(158)),
    Sum(v(159), {X(v(146)), X(S(1456)), X(v(156))}),
    Sum(v(121), {X(v(147)), X(S(1440)), X(v(155))}),
    Sum(v(161), {X(S(1408)), X(v(155))}),
    Sum(S(600), {K(3, S(920))}), Sum(S(872), {K(3, S(1056))}),
    Sum(v(165), {L(0, S(536))}), Put(S(616), v(165)),
    Byte(v(166), 2, S(720)), Byte(S(72), 3, S(72)),
    Sum(v(167), {X(v(165)), X(v(121))}),
    Byte(S(824), 3, v(158)), Byte(S(80), 2, S(80)), Byte(S(944), 2, S(144)),
    Put(S(640), v(159)), Byte(S(536), 0, v(159)), Byte(S(912), 1, v(159)),
    Sum(v(171), {X(v(161)), X(v(147)), X(S(616))}), Byte(S(720), 0, v(171)),
    Put(S(664), v(167)), Byte(S(616), 1, v(167)), Put(v(172), S(144)) >>

(* round2_sub6400, lines 1207 to 1236: round 8 of the first branch; cp12   *)
(* keeps three slots before they are written over.                         *)
round2_8 == <<
    Sum(v(173), {L(1, v(171)), L(3, S(816)), L(2, v(166)), L(0, v(172))}),
    Byte(S(816), 1, v(172)),
    Sum(v(176), {X(v(151)), K(0, S(904)), X(S(752))}),
    Put(S(752), v(176)), Byte(S(960), 0, v(176)), Put(S(680), v(176)), Byte(S(952), 1, v(176)),
    Sum(S(144), {L(1, S(728)), X(S(1576)), L(3, S(824))}),
    Put(cp(0), S(72)), Put(cp(1), S(592)), Put(cp(2), S(656)),
    Sum(v(187), KB(S(872), S(1784), S(1168), S(1064)) \cup {X(v(173))}),
    Sum(v(188), {L(3, v(171)), L(2, S(944)), X(S(1328)), L(1, S(792))}),
    Put(S(592), v(187)), Byte(S(72), 1, v(187)), Put(S(656), v(187)),
    Sum(v(189), {L(0, S(648)), X(v(188))}),
    Byte(S(648), 0, v(189)), Byte(S(728), 1, v(189)) >>

(* process_block between round2_sub6400 and round3_sub8000: round3's       *)
(* parameters.                                                             *)
boundary_1 == <<
    Sum(r8p, {X(cp(2)), X(S(1464)), X(cp(1))}),
    Sum(v(6), {L(1, S(912)), X(S(1520)), L(3, r8p), L(2, S(664))}) >>
\* mutant: a word of the other branch
boundary_2_other_branch == << Sum(v(9), {L(3, cp(0)), X(S(1344)), L(2, S(664))}) >>
boundary_2 == << Sum(v(9), {L(3, cp(0)), X(S(1344)), L(2, v(171))}) >>
boundary_3 == <<
    Sum(v(11), {L(0, S(664)), X(S(1336)), L(1, r8p)}),
    Put(a(2), S(624)), Put(a(3), v(189)), Byte(a(4), 0, r8p), Put(a(6), S(640)),
    Byte(v(8), 2, r8p), Byte(v(10), 0, v(187)), Put(v(12), v(189)) >>

-------------------------------------------------------------------------------
(* round3_sub8000, lines 1248 to 1279.                                     *)
round3_1 == <<
    Sum(v(13), {L(0, a(2)), X(v(9))}), Sum(v(14), {L(0, S(960)), X(v(6))}),
    Put(S(624), v(14)), Byte(S(960), 0, v(14)), Put(v(15), v(14)), Byte(S(912), 1, v(14)),
    Sum(v(16), {L(1, S(816)), X(v(13))}),
    Sum(v(17), {L(1, S(952)), L(2, a(6)), L(3, S(664)), X(S(1448)), L(0, a(4))}),
    Sum(v(18), {L(2, S(80)), L(0, S(720)), X(S(144))}), Put(S(144), v(18)),
    Sum(v(19), {L(1, S(72)), L(2, v(18)), X(S(216)), L(3, a(3))}),
    Sum(v(20), {L(1, S(144)), L(0, v(10)), L(3, v(16)), X(S(200)), L(2, v(12))}),
    Sum(v(21), {L(2, S(752)), L(3, S(640)), X(v(11))}),
    Put(S(80), v(21)), Byte(S(640), 0, v(21)), Byte(v(22), 1, v(21)), Put(v(23), v(21)),
    Put(S(664), v(16)), Byte(v(24), 0, v(16)), Byte(S(720), 1, v(16)),
    Sum(v(34), KS(1000, 1776, 1264, 1272)
               \cup {L(2, v(8)), L(3, S(680)), L(0, S(536)), L(1, S(616))}) >>

(* round3_sub8000, lines 1279 to 1313: round 9 of both branches, the same  *)
(* key for the two.                                                        *)
round3_2 == <<
    Byte(<<"inner", 0>>, 0, v(34)),
    Sum(S(72), {L(1, v(22)), L(2, v(17)), L(0, <<"inner", 0>>), X(S(200)), L(3, v(15))}),
    Byte(v(36), 0, S(144)), Put(v(37), S(144)),
    Sum(S(144), {L(1, S(912)), L(3, v(23)), X(S(1424)), L(2, v(34))}),
    Sum(v(38), {L(1, v(34)), L(0, S(960))}),
    Sum(v(39), {L(3, v(37)), X(S(1424)), L(2, S(656))}),
    Byte(v(40), 0, v(17)), Byte(v(41), 1, v(17)), Put(v(42), v(17)),
    Sum(v(52), KB(S(600), S(1800), S(1024), S(896))),
    Sum(v(53), {L(1, S(728)), X(v(52)), L(0, v(36)), L(3, S(592))}),
    Sum(v(54), {L(1, v(41)), L(2, S(624)), L(3, v(34)), X(v(52))}),
    Sum(v(58), {L(0, v(40)), X(S(144))}),
    Sum(v(59), {X(S(216)), L(3, v(42)), L(2, S(80))}),
    Sum(v(60), {L(0, v(24)), X(v(19))}),
    Sum(v(61), {L(0, S(648)), L(1, S(720)), X(v(39))}),
    Sum(v(62), {X(v(59)), X(v(38))}),
    Sum(v(63), {L(2, S(664)), X(v(53))}),
    Sum(v(64), {L(0, S(640)), X(v(54))}) >>

(* round3_sub8000, lines 1314 to 1354: the arithmetic on the eight words   *)
(* is an uninterpreted term, XORed into the words of one branch; the four  *)
(* numbers it yields (v79, v81 and two from v84) are not told apart.       *)
round3_mixing == <<
    Sum(v(79), {M({v(58), v(60), v(61), v(62), v(63), v(64), v(20), S(72)})}),
    Sum(v(80), {X(v(64)), X(v(79))}),
    Byte(S(144), 0, v(80)), Byte(S(536), 1, v(80)), Put(S(80), v(80)),
    Sum(v(83), {X(v(58)), X(v(79))}), Byte(v(82), 0, v(83)), Byte(S(592), 1, v(83)),
    Sum(v(85), {X(S(72)), X(v(79))}), Byte(S(72), 0, v(85)), Byte(S(600), 1, v(85)),
    Sum(v(86), {X(v(62)), X(v(79))}), Byte(v(87), 0, v(86)) >>

(* round3_sub8000, lines 1355 to 1413: the last round, without mixing of   *)
(* columns.                                                                *)
round3_last == <<
    Sum(v(99), KS(1016, 1888, 1496, 1352)
               \cup {F(1, v(86)), F(3, v(80)), F(2, v(85)), F(0, v(82))}),
    Sum(v(110), KS(1072, 1792, 1400, 1296)
                \cup {F(1, S(600)), F(2, S(80)), F(0, v(87)), F(3, v(83))}),
    Sum(v(111), {F(0, S(144)), F(2, v(86)), F(3, v(85)), F(1, S(592))}),
    Sum(v(112), {F(0, S(72)), F(1, S(536)), F(2, v(83)), F(3, v(86))}),
    Sum(S(144), {K(0, S(1472))}), Sum(S(72), {K(0, S(1376))}),
    Sum(v(126), KS(840, 1904, 1920, 1856) \cup {X(v(112))}),
    Sum(v(136), KB(S(1240), S(1600), S(72), S(144)) \cup {X(v(111))}) >>

(* The array pt: slot of the offset, slot of the previous block's byte,    *)
(* word, byte of the word.                                                 *)
pt == <<
    <<120, 376, v(99), 3>>,  <<560, 400, v(99), 2>>,  <<152, 280, v(99), 1>>,
    <<528, 992, v(99), 0>>,  <<408, 352, v(110), 3>>, <<176, 392, v(110), 2>>,
    <<432, 224, v(110), 1>>, <<608, 288, v(110), 0>>, <<544, 256, v(126), 3>>,
    <<344, 208, v(126), 2>>, <<424, 248, v(126), 1>>, <<416, 264, v(126), 0>>,
    <<448, 240, v(136), 3>>, <<440, 232, v(136), 2>>, <<696, 1040, v(136), 1>>,
    <<736, 192, v(136), 0>> >>

(* The slots that keep this block's ciphertext for the next one: the loop  *)
(* at the end of round3_sub8000 and the copy after it in process_block     *)
(* (st[0x108] = st[0x180]).                                                *)
\* mutant: two sources swapped
CopiesSwapped == {
    <<288, 96>>, <<208, 360>>, <<256, 304>>, <<352, 104>>, <<400, 568>>, <<280, 112>>,
    <<248, 368>>, <<376, 88>>, <<224, 552>>, <<192, 672>>, <<232, 584>>, <<240, 1088>>,
    <<392, 512>>, <<1040, 576>>, <<992, 336>>, <<264, 384>> }
Copies == {
    <<288, 96>>, <<208, 360>>, <<256, 304>>, <<352, 568>>, <<400, 104>>, <<280, 112>>,
    <<248, 368>>, <<376, 88>>, <<224, 552>>, <<192, 672>>, <<232, 584>>, <<240, 1088>>,
    <<392, 512>>, <<1040, 576>>, <<992, 336>>, <<264, 384>> }

Program ==
    round1_mid_1 \o round1_mid_2 \o round1_mid_3 \o round1_mid_4 \o round1_mid_5
    \o round1_tail_1 \o round1_tail_2 \o round1_tail_3
    \o round2_1 \o round2_2 \o round2_3 \o round2_4 \o round2_5 \o round2_6
    \o round2_7 \o round2_8
    \o boundary_1 \o boundary_2 \o boundary_3
    \o round3_1 \o round3_2 \o round3_mixing \o round3_last
===============================================================================
