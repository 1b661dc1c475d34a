-------------------------- MODULE Vc4ListingProofs --------------------------
(***************************************************************************)
(* Proofs about Vc4Listing, for every file, whatever the uninitialised     *)
(* memory holds, and for the whole 32-bit range of addresses.              *)
(***************************************************************************)
EXTENDS Vc4Listing, Vc4DecodeProofs, SequenceTheorems

-----------------------------------------------------------------------------
(***************************************************************************)
(* The main loop's decoder is the one whose entries are printed.           *)
(***************************************************************************)
LEMMA SameChains ==
    /\ Dump!Chain16 = Chain16 /\ Dump!Chain32 = Chain32
    /\ Dump!Chain48 = Chain48 /\ Dump!Chain80 = Chain80
<1>1. Dump!Chain16 = Chain16
    BY DEF Dump!Chain16, Chain16, Dump!FirstWordRule, FirstWordRule, Dump!Rule, Rule
<1>2. Dump!Chain32 = Chain32
    BY DEF Dump!Chain32, Chain32, Dump!FirstWordRule, FirstWordRule, Dump!Rule, Rule,
           Dump!RegOrImm, RegOrImm, Dump!FloatOp, FloatOp, Dump!bf_extract, bf_extract
<1>3. Dump!Chain48 = Chain48 /\ Dump!Chain80 = Chain80
    BY DEF Dump!Chain48, Chain48, Dump!Chain80, Chain80,
           Dump!FirstWordRule, FirstWordRule, Dump!Rule, Rule
<1> QED
    BY <1>1, <1>2, <1>3

LEMMA SameDecoder ==
    ASSUME NEW i
    PROVE  Dump!vc4_decode_instr(i) = vc4_decode_instr(i)
<1>1. \A c, x, y : Dump!FirstMatch(c, x, y) = FirstMatch(c, x, y)
    BY Zenon DEF Dump!FirstMatch, FirstMatch, Dump!Matches, Matches,
                 Dump!SelectInSeq, SelectInSeq, Dump!NoEntry, NoEntry, Dump!Min, Min
<1>2. \A x : Dump!ChainOf(Dump!DecodedSize(x)) = ChainOf(DecodedSize(x))
    BY SameChains DEF Dump!ChainOf, ChainOf, Dump!DecodedSize, DecodedSize
<1> QED
    BY <1>1, <1>2, Zenon DEF Dump!vc4_decode_instr, vc4_decode_instr

-----------------------------------------------------------------------------
(***************************************************************************)
(* The first words of the entries that matter below.                       *)
(***************************************************************************)
RelativeEntries == {"i16_b_cond", "i32_addcmpb", "i32_b", "i32_alu_add_pc"}

\* The first words of the entries whose operation fields are wider than their
\* tables.
AluCondWords == \hC000..\hC7FF
DataVopWords == \hF400..\hF7FF
MemWords     == \hF800..\hFBFF
DataOpWords  == \hFC00..\hFFFF

\* What an entry says of the first word w.
FirstWordOf(entry, w) ==
    /\ entry = "i32_alu_cond" => w \in AluCondWords
    /\ entry = "i48_data_vop" => w \in DataVopWords
    /\ entry = "i80_mem_op"   => w \in MemWords
    /\ entry = "i80_data_op"  => w \in DataOpWords
    /\ entry \in {"i32_addcmpb", "i32_b", "i32_alu_add_pc"} => w >= \h8000
    /\ entry \in {"i48_b", "i48_add_pc_rel"} => w \in \hE000..\hE7FF
    /\ entry = "i48_add_ld_st" => w \in \hE600..\hE7FF

Ranged(rule) == \A w \in rule.words : FirstWordOf(rule.entry, w)

\* The entries of which FirstWordOf says something.
RangedEntries ==
    {"i32_alu_cond", "i48_data_vop", "i80_mem_op", "i80_data_op",
     "i32_addcmpb", "i32_b", "i32_alu_add_pc",
     "i48_b", "i48_add_pc_rel", "i48_add_ld_st"}

LEMMA ChainsRanged ==
    ASSUME NEW size \in {2, 4, 6, 10}
    PROVE  /\ Len(ChainOf(size)) \in Nat
           /\ \A k \in 1..Len(ChainOf(size)) : Ranged(ChainOf(size)[k])
<1>1. \A e, s, m, l : Ranged(Rule(e, s, m, l)) <=> \A w \in s : FirstWordOf(e, w)
    <2>1. \A e, s, m, l : Rule(e, s, m, l).entry = e /\ Rule(e, s, m, l).words = s
        BY DEF Rule
    <2> QED
        BY <2>1 DEF Ranged
<1>2. \A e, w : e \notin RangedEntries => FirstWordOf(e, w)
    BY SMT DEF FirstWordOf, RangedEntries
<1>3. /\ \A e, s, m, l : e \notin RangedEntries => Ranged(Rule(e, s, m, l))
      /\ \A e, s : e \notin RangedEntries => Ranged(FirstWordRule(e, s))
    BY <1>1, <1>2, Zenon DEF FirstWordRule
<1>4. CASE size = 2
    <2>1. ChainOf(size) = Chain16
        BY <1>4 DEF ChainOf
    <2>3. Len(Chain16) = 22
        BY DEF Chain16
    <2>2. \A k \in 1..22 : Ranged(Chain16[k])
        <3>1. \A k \in 1..6 : Ranged(Chain16[k])
            BY <1>3, SMTT(60) DEF Chain16, RangedEntries
        <3>2. \A k \in 7..12 : Ranged(Chain16[k])
            BY <1>3, SMTT(60) DEF Chain16, RangedEntries
        <3>3. \A k \in 13..17 : Ranged(Chain16[k])
            BY <1>3, SMTT(60) DEF Chain16, RangedEntries
        <3>4. \A k \in 18..22 : Ranged(Chain16[k])
            BY <1>3, SMTT(60) DEF Chain16, RangedEntries
        <3> QED
            BY <3>1, <3>2, <3>3, <3>4, SMT
    <2> QED
        BY <2>1, <2>2, <2>3
<1>5. CASE size = 4
    <2>1. ChainOf(size) = Chain32
        BY <1>5 DEF ChainOf
    <2>3. Len(Chain32) = 16
        BY DEF Chain32
    <2>2. \A k \in 1..16 : Ranged(Chain32[k])
        <3>1. Ranged(FirstWordRule("i32_addcmpb", \h8000..\h8FFF))
            BY SMT DEF Ranged, FirstWordRule, Rule, FirstWordOf
        <3>7. Ranged(FirstWordRule("i32_b", \h9000..\h9FFF))
            BY SMT DEF Ranged, FirstWordRule, Rule, FirstWordOf
        <3>8. Ranged(FirstWordRule("i32_alu_add_pc", \hBFE0..\hBFFF))
            BY SMT DEF Ranged, FirstWordRule, Rule, FirstWordOf
        <3>6. Ranged(Rule("i32_alu_cond", \hC000..\hC7FF, 128, RegOrImm))
            BY SMT DEF Ranged, Rule, FirstWordOf, AluCondWords
        <3>2. \A k \in 1..2 : Ranged(Chain32[k])
            <4>1. /\ Chain32[1] = FirstWordRule("i32_addcmpb", \h8000..\h8FFF)
                  /\ Chain32[2] = FirstWordRule("i32_b", \h9000..\h9FFF)
                BY SMT DEF Chain32
            <4> QED
                BY <3>1, <3>7, <4>1, SMT
        <3>9. \A k \in 3..4 : Ranged(Chain32[k])
            BY <1>3, SMTT(60) DEF Chain32, RangedEntries
        <3>3. \A k \in 5..8 : Ranged(Chain32[k])
            BY <1>3, SMTT(60) DEF Chain32, RangedEntries
        <3>4. \A k \in 9..12 : Ranged(Chain32[k])
            BY <1>3, <3>8, <3>6, SMTT(60) DEF Chain32, RangedEntries
        <3>5. \A k \in 13..16 : Ranged(Chain32[k])
            BY <1>3, SMTT(60) DEF Chain32, RangedEntries
        <3> QED
            BY <3>2, <3>3, <3>4, <3>5, <3>9, SMT
    <2> QED
        BY <2>1, <2>2, <2>3
<1>6. CASE size = 6
    <2>1. ChainOf(size) = Chain48 /\ Len(Chain48) = 6
        BY <1>6 DEF ChainOf, Chain48
    <2>2. Ranged(FirstWordRule("i48_data_vop", \hF400..\hF7FF))
        BY SMT DEF Ranged, FirstWordRule, Rule, FirstWordOf, DataVopWords
    <2>3. Ranged(FirstWordRule("i48_b", \hE000..\hE3FF))
        BY SMT DEF Ranged, FirstWordRule, Rule, FirstWordOf
    <2>4. Ranged(FirstWordRule("i48_add_pc_rel", \hE500..\hE5FF))
        BY SMT DEF Ranged, FirstWordRule, Rule, FirstWordOf
    <2>5. Ranged(FirstWordRule("i48_add_ld_st", \hE600..\hE7FF))
        BY SMT DEF Ranged, FirstWordRule, Rule, FirstWordOf
    <2>6. \A k \in 1..3 : Ranged(Chain48[k])
        BY <2>2, <2>3, <2>4, SMTT(60) DEF Chain48
    <2>7. \A k \in 4..6 : Ranged(Chain48[k])
        BY <1>3, <2>5, SMTT(60) DEF Chain48, RangedEntries
    <2> QED
        BY <2>1, <2>6, <2>7, SMT
<1>7. CASE size = 10
    <2>1. ChainOf(size) = Chain80 /\ Len(Chain80) = 2
        BY <1>7 DEF ChainOf, Chain80
    <2>2. /\ Ranged(FirstWordRule("i80_mem_op", \hF800..\hFBFF))
          /\ Ranged(FirstWordRule("i80_data_op", \hFC00..\hFFFF))
        <3>1. Ranged(FirstWordRule("i80_mem_op", \hF800..\hFBFF))
            BY SMT DEF Ranged, FirstWordRule, Rule, FirstWordOf, MemWords
        <3>2. Ranged(FirstWordRule("i80_data_op", \hFC00..\hFFFF))
            BY SMT DEF Ranged, FirstWordRule, Rule, FirstWordOf, DataOpWords
        <3> QED
            BY <3>1, <3>2
    <2> QED
        BY <2>1, <2>2, SMTT(60) DEF Chain80
<1> QED
    BY <1>4, <1>5, <1>6, <1>7

\* Whatever entry the decoder answers, the first word is one of its rule's.
LEMMA EntryWords ==
    ASSUME NEW words
    PROVE  FirstWordOf(vc4_decode_instr(words), words[0])
<1> DEFINE c == ChainOf(DecodedSize(words[0]))
           I == Matching(c, words[0], words[1])
<1>1. Len(c) \in Nat /\ \A k \in 1..Len(c) : Ranged(c[k])
    <2> DEFINE size == DecodedSize(words[0])
    <2>1. size \in {2, 4, 6, 10}
        BY SizeCases
    <2> HIDE DEF size
    <2>2. Len(ChainOf(size)) \in Nat /\ \A k \in 1..Len(ChainOf(size)) : Ranged(ChainOf(size)[k])
        BY <2>1, ChainsRanged
    <2> QED
        BY <2>2 DEF size
<1>2. vc4_decode_instr(words) = FirstMatch(c, words[0], words[1])
    BY Zenon DEF vc4_decode_instr
<1> HIDE DEF c
<1>3. CASE I = {}
    <2>1. vc4_decode_instr(words) = NoEntry
        BY <1>1, <1>2, <1>3, FirstMatchByRules, Zenon
    <2> QED
        BY <2>1, SMT DEF NoEntry, FirstWordOf
<1>4. CASE I # {}
    <2>1. Min(I) \in 1..Len(c) /\ vc4_decode_instr(words) = c[Min(I)].entry
        BY <1>1, <1>2, <1>4, FirstMatchByRules
    <2>2. I \in SUBSET Nat
        BY SMT DEF Matching
    <2>3. Min(I) \in I
        BY <1>4, <2>2, MinIsMember
    <2>4. words[0] \in c[Min(I)].words
        BY <2>3, Zenon DEF Matching, Matches
    <2> HIDE DEF I
    <2> QED
        BY <1>1, <2>1, <2>4, Zenon DEF Ranged
<1> QED
    BY <1>3, <1>4

-----------------------------------------------------------------------------
(***************************************************************************)
(* Numbers: sign extension and sums modulo the range of an address.        *)
(***************************************************************************)
LEMMA ModulusIsNat == PcModulus \in Nat \ {0} /\ PcModulus >= 2^28
BY WordAssumption, SMT

LEMMA ModAddMultiple ==
    ASSUME NEW y \in Int, NEW m \in Nat \ {0}, NEW k \in {1, 2}
    PROVE  (y + k * m) % m = y % m
<1> DEFINE q == y \div m
           u == (y + k * m) \div m
           r == y % m
           s == (y + k * m) % m
           z == y + k * m
<1>1. k * m \in Int /\ z \in Int
    BY SMT
<1>2. y = m * q + r /\ r \in 0..(m - 1) /\ q \in Int
    BY DivMod
<1>3. z = m * u + s /\ s \in 0..(m - 1) /\ u \in Int
    BY <1>1, DivMod
<1> HIDE DEF q, u, r, s
<1>4. m * (q + k) = m * q + k * m
    BY <1>2, SMT
<1>5. m * u + s = m * (q + k) + r /\ q + k \in Int
    <2> DEFINE mq == m * q
               mu == m * u
               km == k * m
    <2>1. mq \in Int /\ mu \in Int /\ km \in Int /\ q + k \in Int
        BY <1>2, <1>3, SMT
    <2>2. mu + s = y + km /\ y = mq + r /\ m * (q + k) = mq + km
        BY <1>2, <1>3, <1>4, Zenon DEF z
    <2> HIDE DEF mq, mu, km
    <2>3. mu + s = (mq + km) + r
        BY <1>2, <1>3, <2>1, <2>2, SMT
    <2> QED
        BY <2>1, <2>2, <2>3, Zenon DEF mu
<1>6. r = s
    BY <1>2, <1>3, <1>5, RemainderUnique
<1> QED
    BY <1>6, Zenon DEF r, s

\* An address plus k times an offset, which may be PcModulus too large.
LEMMA ModShift ==
    ASSUME NEW a \in Int, NEW s \in Int, NEW k \in {1, 2},
           NEW x \in {s, s + PcModulus}
    PROVE  /\ ((a % PcModulus) + k * x) % PcModulus = (a + k * s) % PcModulus
           /\ ((a % PcModulus) + ((k * x) % PcModulus)) % PcModulus
                = (a + k * s) % PcModulus
<1> DEFINE M == PcModulus
<1>0. M \in Nat \ {0}
    BY ModulusIsNat
<1> HIDE DEF M
<1>1. k * x \in Int /\ k * s \in Int /\ a + k * s \in Int /\ x \in Int
    BY <1>0, SMT DEF M
<1>2. (a + k * x) % M = (a + k * s) % M
    <2>1. CASE x = s
        BY <2>1
    <2>2. CASE x = s + M
        <3>1. a + k * x = (a + k * s) + k * M
            BY <1>0, <2>2, SMT
        <3> DEFINE y == a + k * s
        <3>2. y \in Int
            BY <1>1
        <3>3. (a + k * x) % M = (y + k * M) % M
            BY <3>1
        <3> HIDE DEF y
        <3>4. (y + k * M) % M = y % M
            BY <1>0, <3>2, ModAddMultiple
        <3> QED
            BY <3>3, <3>4, Zenon DEF y
    <2> QED
        BY <2>1, <2>2 DEF M
<1>3. ((a % M) + k * x) % M = (a + k * x) % M
    BY <1>0, <1>1, ModAdd
<1>4. ((a % M) + ((k * x) % M)) % M = (a + k * x) % M
    <2> DEFINE b == k * x
    <2>1. b \in Int
        BY <1>1
    <2> HIDE DEF b
    <2>2. b % M \in Int
        BY <1>0, <2>1, DivMod, SMT
    <2>3. ((a % M) + (b % M)) % M = (a + (b % M)) % M
        BY <1>0, <2>2, ModAdd
    <2>4. ((b % M) + a) % M = (b + a) % M
        BY <1>0, <2>1, ModAdd
    <2>5. a + (b % M) = (b % M) + a /\ a + b = b + a
        BY <2>1, <2>2, SMT
    <2> QED
        BY <2>3, <2>4, <2>5, Zenon DEF b
<1> QED
    BY <1>2, <1>3, <1>4, Zenon DEF M

\* sign_extend is two's complement modulo the range of an address.
LEMMA SignExtension ==
    ASSUME NEW v \in Int
    PROVE  /\ sign_extend(v, 7) \in {Signed(v % 2^7, 7), Signed(v % 2^7, 7) + PcModulus}
           /\ sign_extend(v, 8) \in {Signed(v % 2^8, 8), Signed(v % 2^8, 8) + PcModulus}
           /\ sign_extend(v, 10) \in {Signed(v % 2^10, 10), Signed(v % 2^10, 10) + PcModulus}
           /\ sign_extend(v, 16) \in {Signed(v % 2^16, 16), Signed(v % 2^16, 16) + PcModulus}
           /\ sign_extend(v, 23) \in {Signed(v % 2^23, 23), Signed(v % 2^23, 23) + PcModulus}
           /\ sign_extend(v, 27) \in {Signed(v % 2^27, 27), Signed(v % 2^27, 27) + PcModulus}
<1>1. PcModulus \in Nat
    BY ModulusIsNat
<1> QED
    BY <1>1, SMT DEF sign_extend, Signed

-----------------------------------------------------------------------------
(***************************************************************************)
(* The lines have their type.                                              *)
(***************************************************************************)
IsLine(l) ==
    /\ DOMAIN l = {"ops", "addrs", "defined"}
    /\ l.addrs \in Seq(0..(PcModulus - 1))
    /\ l.defined \in BOOLEAN

LEMMA LineFields ==
    ASSUME NEW ops, NEW addrs, NEW lookups
    PROVE  /\ DOMAIN Line(ops, addrs, lookups) = {"ops", "addrs", "defined"}
           /\ Line(ops, addrs, lookups).ops = ops
           /\ Line(ops, addrs, lookups).addrs = addrs
           /\ Line(ops, addrs, lookups).defined = (FALSE \notin lookups)
BY DEF Line

LEMMA LinesTyped ==
    /\ \A ops, lookups : IsLine(Line(ops, << >>, lookups))
    /\ \A ops : IsLine(Plain(ops))
    /\ \A ops, lookups : \A x \in Int : IsLine(Line(ops, <<print_abs_addr(x)>>, lookups))
    /\ \A x \in Int : <<print_abs_addr(x)>> \in Seq(0..(PcModulus - 1))
    /\ \A ops, lookups : \A addrs \in Seq(0..(PcModulus - 1)) : IsLine(Line(ops, addrs, lookups))
<1>0. PcModulus \in Nat \ {0}
    BY ModulusIsNat
<1>1. \A x \in Int : print_abs_addr(x) \in 0..(PcModulus - 1)
    BY <1>0, SMT DEF print_abs_addr, UInt
<1>2. ASSUME NEW ops, NEW lookups, NEW addrs \in Seq(0..(PcModulus - 1))
      PROVE  IsLine(Line(ops, addrs, lookups))
    <2> DEFINE l == Line(ops, addrs, lookups)
    <2>1. DOMAIN l = {"ops", "addrs", "defined"} /\ l.addrs = addrs
        BY DEF Line
    <2>2. l.defined = (FALSE \notin lookups)
        BY DEF Line
    <2>3. l.defined \in BOOLEAN
        BY <2>2, Zenon
    <2> HIDE DEF l
    <2>4. IsLine(l)
        BY <1>2, <2>1, <2>3, Zenon DEF IsLine
    <2> QED
        BY <2>4 DEF l
<1>3. << >> \in Seq(0..(PcModulus - 1))
    OBVIOUS
<1>4. \A x \in Int : <<print_abs_addr(x)>> \in Seq(0..(PcModulus - 1))
    BY <1>1
<1> QED
    BY <1>2, <1>3, <1>4, Zenon DEF Plain

LEMMA HalfwordIsNat == \A h \in Halfword : h \in Nat /\ h <= 65535
BY SMT DEF Halfword

\* What the addresses are computed from is a number.
LEMMA NumbersAreInt ==
    ASSUME NEW i \in [0..4 -> Halfword]
    PROVE  /\ \A x \in Int : UInt(x) \in Int
           /\ \A x \in Int : sign_extend(x, 7) \in Int
           /\ \A x \in Int : sign_extend(x, 8) \in Int
           /\ \A x \in Int : sign_extend(x, 10) \in Int
           /\ \A x \in Int : sign_extend(x, 16) \in Int
           /\ \A x \in Int : sign_extend(x, 23) \in Int
           /\ \A x \in Int : sign_extend(x, 27) \in Int
           /\ bf_extract(i[0], 0, 7) \in Nat /\ bf_extract(i[0], 4, 5) \in Nat
           /\ bf_extract(i[0], 8, 4) \in Nat /\ bf_extract(i[1], 0, 8) \in Nat
           /\ bf_extract(i[1], 0, 10) \in Nat
           /\ i[0] \in Nat /\ i[1] \in Nat
           /\ Operand32(i) \in Int /\ Join(i[2], bf_extract(i[1], 0, 11)) \in Int
<1>0. PcModulus \in Nat \ {0} /\ PcModulus \div 65536 \in Nat \ {0}
    BY ModulusIsNat, SMT
<1>1. i[0] \in Halfword /\ i[1] \in Halfword /\ i[2] \in Halfword
    OBVIOUS
<1>2. i[0] \in Nat /\ i[1] \in Nat /\ i[2] \in Nat
    BY <1>1, HalfwordIsNat
<1>3. \A v \in Nat : /\ bf_extract(v, 0, 7) \in Nat /\ bf_extract(v, 4, 5) \in Nat
                     /\ bf_extract(v, 8, 4) \in Nat /\ bf_extract(v, 0, 8) \in Nat
                     /\ bf_extract(v, 0, 10) \in Nat /\ bf_extract(v, 0, 11) \in Nat
    BY SMT DEF bf_extract
<1>4. \A h \in Nat, l \in Nat : Join(h, l) \in Int
    <2> DEFINE q == PcModulus \div 65536
    <2>1. q \in Nat \ {0}
        BY <1>0
    <2> HIDE DEF q
    <2>2. \A h \in Nat : h % q \in Int
        BY <2>1, DivMod, SMT
    <2>3. \A x \in Int, l \in Nat : x * 65536 + l \in Int
        BY SMT
    <2>4. ASSUME NEW h \in Nat, NEW l \in Nat PROVE (h % q) * 65536 + l \in Int
        <3> DEFINE y == h % q
        <3>1. y \in Int
            BY <2>2
        <3> HIDE DEF y
        <3>2. y * 65536 + l \in Int
            BY <2>3, <3>1
        <3> QED
            BY <3>2 DEF y
    <2> QED
        BY <2>4 DEF Join, q
<1>5. \A x \in Int : UInt(x) \in Int
    BY <1>0, SMT DEF UInt
<1>6. \A x \in Int : /\ sign_extend(x, 7) \in Int /\ sign_extend(x, 8) \in Int
                     /\ sign_extend(x, 10) \in Int /\ sign_extend(x, 16) \in Int
                     /\ sign_extend(x, 23) \in Int /\ sign_extend(x, 27) \in Int
    BY <1>0, SMT DEF sign_extend
<1> QED
    BY <1>2, <1>3, <1>4, <1>5, <1>6 DEF Operand32

LEMMA PrintTyped ==
    ASSUME NEW entry, NEW i \in [0..4 -> Halfword], NEW pc \in Int, NEW b
    PROVE  IsLine(print(entry, i, pc, b))
<1>00. DataStart \in Int
    BY DataStartAssumption, ModulusIsNat, SMT
<1>1. IsLine(i16_b_cond(i, pc))
    <2>1. pc + UInt(2 * sign_extend(bf_extract(i[0], 0, 7), 7)) \in Int
        BY NumbersAreInt, SMTT(30)
    <2> QED
        BY <2>1, LinesTyped, Zenon DEF i16_b_cond
<1>2. IsLine(i16_alu_op(i))
    <2>1. bf_extract(i[0], 4, 5) \in Int
        BY NumbersAreInt
    <2> QED
        BY <2>1, LinesTyped, Zenon DEF i16_alu_op
<1>3. IsLine(i32_addcmpb(i, pc))
    <2> DEFINE x == IF bf_extract(i[1], 14, 2) < 2 THEN sign_extend(bf_extract(i[1], 0, 10), 10)
                                                   ELSE sign_extend(bf_extract(i[1], 0, 8), 8)
    <2>1. x \in Int
        BY NumbersAreInt
    <2>2. pc + UInt(2 * x) \in Int
        <3> HIDE DEF x
        <3> QED
            BY <2>1, NumbersAreInt
    <2> QED
        BY <2>2, LinesTyped, Zenon DEF i32_addcmpb
<1>4. IsLine(i32_b(i, pc))
    <2> DEFINE low == bf_extract(i[0], 0, 7) * 65536 + i[1]
               high == bf_extract(i[0], 8, 4)
               x == IF Flag(i[0], 7) = 1 THEN sign_extend(high * 2^23 + low, 27)
                                         ELSE sign_extend(low, 23)
    <2>1. low \in Int /\ high * 2^23 + low \in Int
        BY NumbersAreInt, SMTT(30)
    <2>2. x \in Int
        <3> HIDE DEF low, high
        <3> QED
            BY <2>1, NumbersAreInt
    <2>3. pc + UInt(2 * x) \in Int
        <3> HIDE DEF x
        <3> QED
            BY <2>2, NumbersAreInt
    <2> DEFINE t == pc + UInt(2 * x)
               o == UInt(2 * x)
    <2>4. i32_b(i, pc) = IF Flag(i[0], 7) = 1
                         THEN Line(<<1, o>>, <<print_abs_addr(t)>>, {})
                         ELSE Line(<<0, high, o>>, <<print_abs_addr(t)>>,
                                   {Lookup(ConditionNames, high)})
        BY DEF i32_b
    <2>6. t \in Int
        BY <2>3
    <2> HIDE DEF t, o, high
    <2>5. IsLine(Line(<<1, o>>, <<print_abs_addr(t)>>, {}))
          /\ IsLine(Line(<<0, high, o>>, <<print_abs_addr(t)>>, {Lookup(ConditionNames, high)}))
        BY <2>6, LinesTyped, Zenon
    <2> QED
        BY <2>4, <2>5, Zenon
<1>5. IsLine(i32_ld_st_disp_16(i, pc)) /\ IsLine(i32_alu_add_pc(i, pc))
      /\ IsLine(i32_alu_op(i)) /\ IsLine(i32_alu_add(i))
    <2>1. sign_extend(i[1], 16) \in Int
        BY NumbersAreInt
    <2>2. pc + sign_extend(i[1], 16) \in Int /\ DataStart + sign_extend(i[1], 16) \in Int
        BY <1>00, <2>1
    <2> QED
        BY <2>1, <2>2, LinesTyped, Zenon
           DEF i32_ld_st_disp_16, i32_alu_add_pc, i32_alu_op, i32_alu_add
<1>6. /\ IsLine(i48_b(i, pc)) /\ IsLine(i48_add_pc_rel(i, pc))
      /\ IsLine(i48_alu_op(i)) /\ IsLine(i48_alu_add(i))
    <2> DEFINE u == Operand32(i)
    <2>1. u \in Int /\ pc + u \in Int /\ u + DataStart \in Int
        BY <1>00, NumbersAreInt, SMTT(30)
    <2>2. \A ops, lk : IsLine(Line(ops, <<print_abs_addr(u)>> \o << >>, lk))
        <3>1. <<print_abs_addr(u)>> \o << >> = <<print_abs_addr(u)>>
            OBVIOUS
        <3> QED
            BY <2>1, <3>1, LinesTyped, Zenon
    <2>3. \A ops, lk : IsLine(Line(ops, <<print_abs_addr(u)>> \o <<print_abs_addr(u + DataStart)>>, lk))
        <3> DEFINE S == Seq(0..(PcModulus - 1))
        <3>1. <<print_abs_addr(u)>> \in S /\ <<print_abs_addr(u + DataStart)>> \in S
            BY <2>1, LinesTyped, Zenon
        <3>2. \A s, t \in S : s \o t \in S
            OBVIOUS
        <3> QED
            BY <3>1, <3>2, LinesTyped, Zenon
    <2>4. IsLine(i48_alu_add(i))
        BY <2>2, <2>3, Zenon DEF i48_alu_add
    <2> QED
        BY <2>1, <2>4, LinesTyped, Zenon DEF i48_b, i48_add_pc_rel, i48_alu_op
<1>7. IsLine(i48_add_ld_st(i, pc))
    <2>1. pc + Join(i[2], bf_extract(i[1], 0, 11)) \in Int
        BY NumbersAreInt
    <2> QED
        BY <2>1, LinesTyped, Zenon DEF i48_add_ld_st
<1>8. /\ IsLine(i16_swi(i)) /\ IsLine(i16_b(i)) /\ IsLine(i16_switch(i))
      /\ IsLine(i16_version(i)) /\ IsLine(i16_swi_u(i)) /\ IsLine(i16_ldm_stm(i))
      /\ IsLine(i16_ld_st_sp(i)) /\ IsLine(i16_ldw_stw(i)) /\ IsLine(i16_add_sp(i))
      /\ IsLine(i16_ld_st(i))
    BY LinesTyped, Zenon DEF i16_swi, i16_b, i16_switch, i16_version, i16_swi_u,
       i16_ldm_stm, i16_ld_st_sp, i16_ldw_stw, i16_add_sp, i16_ld_st
<1>9. /\ IsLine(i32_ld_st_cond_indexed(i)) /\ IsLine(i32_ld_st_pre_post(i))
      /\ IsLine(i32_ld_st_disp_12(i)) /\ IsLine(i32_alu_cond(i)) /\ IsLine(i32_alu_fop(i))
      /\ IsLine(FloatConversion(i)) /\ IsLine(i32_p_control(i))
    BY LinesTyped, Zenon DEF i32_ld_st_cond_indexed, i32_ld_st_pre_post,
       i32_ld_st_disp_12, i32_alu_cond, i32_alu_fop, FloatConversion, i32_p_control
<1>10. IsLine(i48_data_vop(i, b)) /\ IsLine(i80_mem_op(i)) /\ IsLine(i80_data_op(i))
       /\ IsLine(Plain(<< >>))
    BY LinesTyped, Zenon DEF i48_data_vop, i80_mem_op, i80_data_op
<1> QED
    BY <1>1, <1>2, <1>3, <1>4, <1>5, <1>6, <1>7, <1>8, <1>9, <1>10, Zenon DEF print

-----------------------------------------------------------------------------
(***************************************************************************)
(* The targets.                                                            *)
(***************************************************************************)
\* An address with an offset that was multiplied, reduced and added.
LEMMA ShiftedAddress ==
    ASSUME NEW a \in Int, NEW s \in Int, NEW x \in {s, s + PcModulus}
    PROVE  /\ print_abs_addr((a % PcModulus) + UInt(2 * x)) = (a + 2 * s) % PcModulus
           /\ print_abs_addr((a % PcModulus) + x) = (a + s) % PcModulus
<1>1. /\ ((a % PcModulus) + ((2 * x) % PcModulus)) % PcModulus = (a + 2 * s) % PcModulus
      /\ ((a % PcModulus) + 1 * x) % PcModulus = (a + 1 * s) % PcModulus
    BY ModShift
<1>2. 1 * x = x /\ 1 * s = s
    BY ModulusIsNat, SMT
<1> QED
    BY <1>1, <1>2, Zenon DEF print_abs_addr, UInt

LEMMA TargetOfBranch ==
    ASSUME NEW i \in [0..4 -> Halfword], NEW words, words[0] = i[0], NEW a \in Int
    PROVE  i16_b_cond(i, a % PcModulus).addrs
             = <<(a + Distance("i16_b_cond", words)) % PcModulus>>
<1> DEFINE v == bf_extract(i[0], 0, 7)
           x == sign_extend(v, 7)
           s == Signed(i[0] % 128, 7)
<1>1. i[0] \in Nat /\ v \in Nat
    BY NumbersAreInt
<1>2. v % 2^7 = i[0] % 128
    BY <1>1, SMT DEF bf_extract
<1>3. s \in Int
    BY <1>1, SMT DEF Signed
<1>4. x \in {s, s + PcModulus}
    BY <1>1, <1>2, SignExtension
<1>5. Distance("i16_b_cond", words) = 2 * s
    BY DEF Distance
<1>6. i16_b_cond(i, a % PcModulus).addrs = <<print_abs_addr((a % PcModulus) + UInt(2 * x))>>
    BY DEF i16_b_cond, Line
<1> HIDE DEF v, x, s
<1>7. print_abs_addr((a % PcModulus) + UInt(2 * x)) = (a + 2 * s) % PcModulus
    BY <1>3, <1>4, ShiftedAddress
<1> QED
    BY <1>5, <1>6, <1>7, Zenon

LEMMA TargetOfAddPc ==
    ASSUME NEW i \in [0..4 -> Halfword], NEW words, words[1] = i[1], NEW a \in Int
    PROVE  i32_alu_add_pc(i, a % PcModulus).addrs
             = <<(a + Distance("i32_alu_add_pc", words)) % PcModulus>>
<1> DEFINE x == sign_extend(i[1], 16)
           s == Signed(i[1], 16)
<1>1. i[1] \in Nat /\ i[1] % 2^16 = i[1]
    <2>1. i[1] \in Halfword
        OBVIOUS
    <2>2. i[1] \in Nat /\ i[1] <= 65535
        BY <2>1, HalfwordIsNat
    <2> QED
        BY <2>2, SMT
<1>2. s \in Int
    BY <1>1, SMT DEF Signed
<1>3. x \in {s, s + PcModulus}
    BY <1>1, SignExtension
<1>4. Distance("i32_alu_add_pc", words) = s
    BY DEF Distance
<1>5. i32_alu_add_pc(i, a % PcModulus).addrs = <<print_abs_addr((a % PcModulus) + x)>>
    BY DEF i32_alu_add_pc, Line
<1> HIDE DEF x, s
<1>6. print_abs_addr((a % PcModulus) + x) = (a + s) % PcModulus
    BY <1>2, <1>3, ShiftedAddress
<1> QED
    BY <1>4, <1>5, <1>6, Zenon

LEMMA TargetOfCompareBranch ==
    ASSUME NEW i \in [0..4 -> Halfword], NEW words, words[1] = i[1], NEW a \in Int
    PROVE  i32_addcmpb(i, a % PcModulus).addrs
             = <<(a + Distance("i32_addcmpb", words)) % PcModulus>>
<1> DEFINE short == i[1] < 2^15
           v == bf_extract(i[1], 0, 10)
           w == bf_extract(i[1], 0, 8)
           x == IF bf_extract(i[1], 14, 2) < 2 THEN sign_extend(v, 10) ELSE sign_extend(w, 8)
           s == IF short THEN Signed(i[1] % 2^10, 10) ELSE Signed(i[1] % 2^8, 8)
<1>0. i[1] \in Nat /\ i[1] <= 65535
    <2>1. i[1] \in Halfword
        OBVIOUS
    <2> QED
        BY <2>1, HalfwordIsNat
<1>1. v \in Nat /\ w \in Nat
    BY NumbersAreInt
<1>2. v % 2^10 = i[1] % 2^10 /\ w % 2^8 = i[1] % 2^8
    BY <1>0, SMT DEF bf_extract
<1>3. bf_extract(i[1], 14, 2) < 2 <=> short
    BY <1>0, SMT DEF bf_extract
<1>4. s \in Int
    BY <1>0, SMT DEF Signed
<1>5. Distance("i32_addcmpb", words) = 2 * s
    <2>1. Distance("i32_addcmpb", words) =
              IF short THEN 2 * Signed(i[1] % 2^10, 10) ELSE 2 * Signed(i[1] % 2^8, 8)
        BY DEF Distance
    <2>2. CASE short
        BY <2>1, <2>2
    <2>3. CASE ~short
        BY <2>1, <2>3
    <2> QED
        BY <2>2, <2>3
<1>6. i32_addcmpb(i, a % PcModulus).addrs = <<print_abs_addr((a % PcModulus) + UInt(2 * x))>>
    BY DEF i32_addcmpb, Line
<1>7. x \in {s, s + PcModulus}
    <2> HIDE DEF v, w
    <2>0. v \in Int /\ w \in Int
        BY <1>1
    <2>1. sign_extend(v, 10) \in {Signed(v % 2^10, 10), Signed(v % 2^10, 10) + PcModulus}
        BY <2>0, SignExtension, Zenon
    <2>4. sign_extend(w, 8) \in {Signed(w % 2^8, 8), Signed(w % 2^8, 8) + PcModulus}
        BY <2>0, SignExtension, Zenon
    <2>2. CASE short
        <3>1. x = sign_extend(v, 10) /\ s = Signed(v % 2^10, 10)
            BY <1>2, <1>3, <2>2, Zenon
        <3> QED
            BY <2>1, <3>1, Zenon
    <2>3. CASE ~short
        <3>1. x = sign_extend(w, 8) /\ s = Signed(w % 2^8, 8)
            BY <1>2, <1>3, <2>3, Zenon
        <3> QED
            BY <2>4, <3>1, Zenon
    <2> QED
        BY <2>2, <2>3
<1> HIDE DEF x, s
<1>8. print_abs_addr((a % PcModulus) + UInt(2 * x)) = (a + 2 * s) % PcModulus
    BY <1>4, <1>7, ShiftedAddress
<1> QED
    BY <1>5, <1>6, <1>8, Zenon

LEMMA TargetOfLongBranch ==
    ASSUME NEW i \in [0..4 -> Halfword], NEW words, words[0] = i[0], words[1] = i[1],
           NEW a \in Int
    PROVE  i32_b(i, a % PcModulus).addrs
             = <<(a + Distance("i32_b", words)) % PcModulus>>
<1> DEFINE link == Flag(i[0], 7) = 1
           high == bf_extract(i[0], 8, 4)
           low == bf_extract(i[0], 0, 7) * 65536 + i[1]
           long == high * 2^23 + low
           x == IF link THEN sign_extend(long, 27) ELSE sign_extend(low, 23)
           s == IF link THEN Signed(long, 27) ELSE Signed(low, 23)
<1>0. i[0] \in Nat /\ i[1] \in Nat /\ i[0] <= 65535 /\ i[1] <= 65535
    <2>1. i[0] \in Halfword /\ i[1] \in Halfword
        OBVIOUS
    <2> QED
        BY <2>1, HalfwordIsNat
<1>1. /\ low \in Nat /\ low < 2^23
      /\ long \in Nat /\ long < 2^27
    BY <1>0, SMT DEF bf_extract
<1>2. low % 2^23 = low /\ long % 2^27 = long
    <2> HIDE DEF low, long
    <2> QED
        BY <1>1, SMT
<1>3. bf_extract(i[0], 0, 7) = i[0] % 128
    BY <1>0, SMT DEF bf_extract
<1>4. Bits(i[0], 8, 4) = high /\ (Bits(i[0], 7, 1) = 0 <=> ~link)
    BY <1>0, SMT DEF bf_extract, Bits, Flag
<1>5. s \in Int
    <2> HIDE DEF low, long
    <2> QED
        BY <1>1, SMT DEF Signed
<1>6. Distance("i32_b", words) = 2 * s
    <2>1. Distance("i32_b", words) =
              LET lw == (words[0] % 128) * 65536 + words[1]
              IN  IF Bits(words[0], 7, 1) = 0 THEN 2 * Signed(lw, 23)
                  ELSE 2 * Signed(Bits(words[0], 8, 4) * 2^23 + lw, 27)
        BY DEF Distance
    <2>2. low = (words[0] % 128) * 65536 + words[1]
        BY <1>3
    <2> HIDE DEF low, high, link
    <2>3. Distance("i32_b", words) =
              IF ~link THEN 2 * Signed(low, 23) ELSE 2 * Signed(high * 2^23 + low, 27)
        BY <1>4, <2>1, <2>2
    <2>4. CASE link
        BY <2>3, <2>4, Zenon
    <2>5. CASE ~link
        BY <2>3, <2>5, Zenon
    <2> QED
        BY <2>4, <2>5
<1>7. x \in {s, s + PcModulus}
    <2> HIDE DEF long, low, link
    <2>0. long \in Int /\ low \in Int
        BY <1>1
    <2>1. sign_extend(long, 27) \in {Signed(long % 2^27, 27), Signed(long % 2^27, 27) + PcModulus}
        BY <2>0, SignExtension, Zenon
    <2>4. sign_extend(low, 23) \in {Signed(low % 2^23, 23), Signed(low % 2^23, 23) + PcModulus}
        BY <2>0, SignExtension, Zenon
    <2>2. CASE link
        BY <1>2, <2>1, <2>2, Zenon
    <2>3. CASE ~link
        BY <1>2, <2>3, <2>4, Zenon
    <2> QED
        BY <2>2, <2>3
<1>8. i32_b(i, a % PcModulus).addrs = <<print_abs_addr((a % PcModulus) + UInt(2 * x))>>
    <2> DEFINE t == <<print_abs_addr((a % PcModulus) + UInt(2 * x))>>
               o == UInt(2 * x)
    <2>1. i32_b(i, a % PcModulus) = IF link
                         THEN Line(<<1, o>>, t, {})
                         ELSE Line(<<0, high, o>>, t, {Lookup(ConditionNames, high)})
        BY DEF i32_b
    <2> HIDE DEF t, o, high, link
    <2>2. /\ Line(<<1, o>>, t, {}).addrs = t
          /\ Line(<<0, high, o>>, t, {Lookup(ConditionNames, high)}).addrs = t
        BY DEF Line
    <2>3. i32_b(i, a % PcModulus).addrs = t
        BY <2>1, <2>2, Zenon
    <2> QED
        BY <2>3 DEF t
<1> HIDE DEF x, s
<1>9. print_abs_addr((a % PcModulus) + UInt(2 * x)) = (a + 2 * s) % PcModulus
    BY <1>5, <1>7, ShiftedAddress
<1> QED
    BY <1>6, <1>8, <1>9, Zenon

\* Each printer that shows a target shows the one that Distance says.
LEMMA TargetOfEntry ==
    ASSUME NEW i \in [0..4 -> Halfword], NEW words, NEW a \in Int, NEW b,
           NEW entry \in RelativeEntries,
           words[0] = i[0], entry # "i16_b_cond" => words[1] = i[1]
    PROVE  print(entry, i, a % PcModulus, b).addrs
             = <<(a + Distance(entry, words)) % PcModulus>>
<1>1. CASE entry = "i16_b_cond"
    <2>1. print(entry, i, a % PcModulus, b) = i16_b_cond(i, a % PcModulus)
        BY <1>1, Zenon DEF print
    <2> QED
        BY <1>1, <2>1, TargetOfBranch, Zenon
<1>2. CASE entry = "i32_alu_add_pc"
    <2>1. print(entry, i, a % PcModulus, b) = i32_alu_add_pc(i, a % PcModulus)
        BY <1>2, Zenon DEF print
    <2> QED
        BY <1>2, <2>1, TargetOfAddPc
<1>3. CASE entry = "i32_addcmpb"
    <2>1. print(entry, i, a % PcModulus, b) = i32_addcmpb(i, a % PcModulus)
        BY <1>3, Zenon DEF print
    <2> QED
        BY <1>3, <2>1, TargetOfCompareBranch
<1>4. CASE entry = "i32_b"
    <2>1. print(entry, i, a % PcModulus, b) = i32_b(i, a % PcModulus)
        BY <1>4, Zenon DEF print
    <2> QED
        BY <1>4, <2>1, TargetOfLongBranch
<1> QED
    BY <1>1, <1>2, <1>3, <1>4 DEF RelativeEntries

-----------------------------------------------------------------------------
(***************************************************************************)
(* The names.                                                              *)
(***************************************************************************)
LEMMA LookupsDefined ==
    /\ \A ops, addrs : Line(ops, addrs, {}).defined
    /\ \A ops : Plain(ops).defined
    /\ \A ops, addrs, n, x : x < n => Line(ops, addrs, {Lookup(n, x)}).defined
    /\ \A ops, addrs, m, n, x, y :
          x < m /\ y < n => Line(ops, addrs, {Lookup(m, x), Lookup(n, y)}).defined
<1>1. ASSUME NEW ops, NEW addrs, NEW lk, FALSE \notin lk
      PROVE  Line(ops, addrs, lk).defined
    <2>1. Line(ops, addrs, lk).defined = (FALSE \notin lk)
        BY DEF Line
    <2> QED
        BY <1>1, <2>1, Zenon
<1> QED
    BY <1>1, Zenon DEF Lookup, Plain

LEMMA FieldBounds ==
    ASSUME NEW v \in Nat
    PROVE  /\ bf_extract(v, 7, 4) < ConditionNames /\ bf_extract(v, 8, 4) < ConditionNames
           /\ bf_extract(v, 8, 5) < ScalarNames /\ bf_extract(v, 5, 5) < ScalarNames
           /\ 2 * bf_extract(v, 9, 4) < ScalarNames
           /\ bf_extract(v, 5, 4) < FloatNames
           /\ bf_extract(v, 0, 3) < RepeatNames /\ bf_extract(v, 13, 3) < PredicateNames
BY SMT DEF bf_extract, ConditionNames, ScalarNames, FloatNames, RepeatNames, PredicateNames

\* The operation fields stay within the tables in every word but those.
LEMMA ScalarInTable ==
    ASSUME NEW w \in AluCondWords, w \notin NamelessWords
    PROVE  bf_extract(w, 5, 6) < ScalarNames
BY SMTT(30) DEF bf_extract, ScalarNames, NamelessWords, AluCondWords

LEMMA Vector48InTable ==
    ASSUME NEW w \in DataVopWords, w \notin NamelessWords
    PROVE  bf_extract(w, 3, 6) < VectorNames
BY SMTT(30) DEF bf_extract, VectorNames, NamelessWords, DataVopWords

LEMMA MemOpInTable ==
    ASSUME NEW w \in MemWords, w \notin NamelessWords
    PROVE  bf_extract(w, 5, 5) < MemOpNames
BY SMTT(30) DEF bf_extract, MemOpNames, NamelessWords, MemWords

LEMMA Vector80InTable ==
    ASSUME NEW w \in DataOpWords, w \notin NamelessWords
    PROVE  bf_extract(w, 3, 6) # VectorNames
BY SMTT(30) DEF bf_extract, VectorNames, NamelessWords, DataOpWords

\* The printers whose lookups are in their tables for every word.
LEMMA AlwaysDefined ==
    ASSUME NEW i \in [0..4 -> Halfword], NEW pc
    PROVE  /\ i16_b_cond(i, pc).defined /\ i16_alu_op(i).defined
           /\ i32_addcmpb(i, pc).defined /\ i32_b(i, pc).defined
           /\ i32_ld_st_cond_indexed(i).defined /\ i32_ld_st_pre_post(i).defined
           /\ i32_alu_op(i).defined /\ i32_alu_fop(i).defined
           /\ FloatConversion(i).defined /\ i48_alu_op(i).defined
<1>1. i[0] \in Nat /\ i[1] \in Nat
    BY NumbersAreInt
<1>2. /\ bf_extract(i[0], 7, 4) < ConditionNames /\ bf_extract(i[0], 8, 4) < ConditionNames
      /\ bf_extract(i[0], 8, 5) < ScalarNames /\ bf_extract(i[0], 5, 5) < ScalarNames
      /\ 2 * bf_extract(i[0], 9, 4) < ScalarNames
      /\ bf_extract(i[0], 5, 4) < FloatNames
    BY <1>1, FieldBounds
<1>3. bf_extract(i[1], 7, 4) < ConditionNames
    BY <1>1, FieldBounds
<1>4. i16_b_cond(i, pc).defined
    BY <1>2, LookupsDefined, Zenon DEF i16_b_cond
<1>5. i16_alu_op(i).defined
    <2> DEFINE op == IF Flag(i[0], 13) = 1 THEN 2 * bf_extract(i[0], 9, 4)
                                           ELSE bf_extract(i[0], 8, 5)
    <2>1. op < ScalarNames
        BY <1>2
    <2> HIDE DEF op
    <2>2. \A ops, addrs : Line(ops, addrs, {Lookup(ScalarNames, op)}).defined
        BY <2>1, LookupsDefined, Zenon
    <2> QED
        BY <2>2, Zenon DEF i16_alu_op, op
<1>6. i32_addcmpb(i, pc).defined
    BY <1>2, LookupsDefined, Zenon DEF i32_addcmpb
<1>7. i32_b(i, pc).defined
    <2>1. \A ops, addrs : /\ Line(ops, addrs, {}).defined
                          /\ Line(ops, addrs, {Lookup(ConditionNames, bf_extract(i[0], 8, 4))}).defined
        BY <1>2, LookupsDefined, Zenon
    <2> DEFINE high == bf_extract(i[0], 8, 4)
               low == bf_extract(i[0], 0, 7) * 65536 + i[1]
               o == UInt(2 * IF Flag(i[0], 7) = 1 THEN sign_extend(high * 2^23 + low, 27)
                                                  ELSE sign_extend(low, 23))
               target == <<print_abs_addr(pc + o)>>
    <2>2. i32_b(i, pc) = IF Flag(i[0], 7) = 1 THEN Line(<<1, o>>, target, {})
                         ELSE Line(<<0, high, o>>, target, {Lookup(ConditionNames, high)})
        BY DEF i32_b
    <2> HIDE DEF o, target
    <2> QED
        BY <2>1, <2>2, Zenon
<1>8. i32_ld_st_cond_indexed(i).defined /\ i32_ld_st_pre_post(i).defined
    BY <1>3, LookupsDefined, Zenon DEF i32_ld_st_cond_indexed, i32_ld_st_pre_post
<1>9. i32_alu_op(i).defined /\ i48_alu_op(i).defined
    BY <1>2, LookupsDefined, Zenon DEF i32_alu_op, i48_alu_op
<1>10. i32_alu_fop(i).defined /\ FloatConversion(i).defined
    BY <1>2, <1>3, LookupsDefined, Zenon DEF i32_alu_fop, FloatConversion
<1> QED
    BY <1>4, <1>5, <1>6, <1>7, <1>8, <1>9, <1>10

\* The other four leave a table only with a word of NamelessWords.
LEMMA DefinedButNameless ==
    ASSUME NEW i \in [0..4 -> Halfword], NEW b, i[0] \notin NamelessWords
    PROVE  /\ i[0] \in AluCondWords => i32_alu_cond(i).defined
           /\ i[0] \in DataVopWords => i48_data_vop(i, b).defined
           /\ i[0] \in MemWords => i80_mem_op(i).defined
           /\ i[0] \in DataOpWords => i80_data_op(i).defined
<1>0. i[0] \in Halfword /\ i[0] \in Nat /\ i[1] \in Nat /\ i[4] \in Nat
    <2>1. i[0] \in Halfword /\ i[1] \in Halfword /\ i[4] \in Halfword
        OBVIOUS
    <2> QED
        BY <2>1, HalfwordIsNat
<1>1. ASSUME i[0] \in AluCondWords
      PROVE  i32_alu_cond(i).defined
    <2>1. bf_extract(i[0], 5, 6) < ScalarNames
        BY <1>1, ScalarInTable, Zenon
    <2>2. bf_extract(i[1], 7, 4) < ConditionNames
        BY <1>0, FieldBounds
    <2>3. \A ops, addrs :
             Line(ops, addrs, {Lookup(ScalarNames, bf_extract(i[0], 5, 6)),
                               Lookup(ConditionNames, bf_extract(i[1], 7, 4))}).defined
        BY <2>1, <2>2, LookupsDefined, Zenon
    <2> QED
        BY <2>3, ZenonT(60) DEF i32_alu_cond
<1>2. ASSUME i[0] \in DataVopWords
      PROVE  i48_data_vop(i, b).defined
    <2>1. bf_extract(i[0], 3, 6) < VectorNames
        BY <1>2, Vector48InTable, Zenon
    <2> QED
        BY <2>1, LookupsDefined, Zenon DEF i48_data_vop
<1>3. ASSUME i[0] \in MemWords
      PROVE  i80_mem_op(i).defined
    <2>1. bf_extract(i[0], 5, 5) < MemOpNames
        BY <1>3, MemOpInTable, Zenon
    <2>2. bf_extract(i[0], 0, 3) < RepeatNames
        BY <1>0, FieldBounds
    <2>3. \A ops, addrs :
             Line(ops, addrs, {Lookup(MemOpNames, bf_extract(i[0], 5, 5)),
                               Lookup(RepeatNames, bf_extract(i[0], 0, 3))}).defined
        BY <2>1, <2>2, LookupsDefined, Zenon
    <2> QED
        BY <2>3, ZenonT(60) DEF i80_mem_op
<1>4. ASSUME i[0] \in DataOpWords
      PROVE  i80_data_op(i).defined
    <2> DEFINE vop == bf_extract(i[0], 3, 6)
               lk == {Lookup(PredicateNames, bf_extract(i[4], 13, 3)),
                      Lookup(RepeatNames, bf_extract(i[0], 0, 3))} \cup
                     (IF HasName(vop) THEN {Lookup(VectorNames, vop)} ELSE {})
    <2>1. HasName(vop) => vop < VectorNames
        <3>1. vop # VectorNames
            BY <1>4, Vector80InTable, Zenon
        <3>2. vop \in Nat
            BY <1>0, SMT DEF bf_extract
        <3> HIDE DEF vop
        <3> QED
            BY <3>1, <3>2, SMT DEF HasName, VectorNames
    <2>2. /\ bf_extract(i[0], 0, 3) < RepeatNames
          /\ bf_extract(i[4], 13, 3) < PredicateNames
        BY <1>0, FieldBounds
    <2>3. FALSE \notin lk
        <3> HIDE DEF vop
        <3> QED
            BY <2>1, <2>2, Zenon DEF Lookup
    <2>4. \A ops, addrs : Line(ops, addrs, lk).defined
        <3> HIDE DEF lk
        <3> QED
            BY <2>3, LineFields, Zenon
    <2> QED
        BY <2>4, Zenon DEF i80_data_op
<1> QED
    BY <1>1, <1>2, <1>3, <1>4

LEMMA NamelessOrDefined ==
    ASSUME NEW i \in [0..4 -> Halfword], NEW pc, NEW b,
           NEW entry, entry = vc4_decode_instr(i), i[0] \notin NamelessWords
    PROVE  print(entry, i, pc, b).defined
<1> DEFINE l == print(entry, i, pc, b)
<1>0. FirstWordOf(entry, i[0])
    BY EntryWords
<1>1. CASE entry = "i32_alu_cond"
    <2>1. l = i32_alu_cond(i)
        BY <1>1, Zenon DEF print
    <2>2. i32_alu_cond(i).defined
        BY <1>0, <1>1, DefinedButNameless DEF FirstWordOf
    <2> QED
        BY <2>1, <2>2, Zenon
<1>2. CASE entry = "i48_data_vop"
    <2>1. l = i48_data_vop(i, b)
        BY <1>2, Zenon DEF print
    <2>2. i48_data_vop(i, b).defined
        BY <1>0, <1>2, DefinedButNameless DEF FirstWordOf
    <2> QED
        BY <2>1, <2>2, Zenon
<1>3. CASE entry = "i80_mem_op"
    <2>1. l = i80_mem_op(i)
        BY <1>3, Zenon DEF print
    <2>2. i80_mem_op(i).defined
        BY <1>0, <1>3, DefinedButNameless DEF FirstWordOf
    <2> QED
        BY <2>1, <2>2, Zenon
<1>4. CASE entry = "i80_data_op"
    <2>1. l = i80_data_op(i)
        BY <1>4, Zenon DEF print
    <2>2. i80_data_op(i).defined
        BY <1>0, <1>4, DefinedButNameless DEF FirstWordOf
    <2> QED
        BY <2>1, <2>2, Zenon
<1>5. CASE entry \notin {"i32_alu_cond", "i48_data_vop", "i80_mem_op", "i80_data_op"}
    <2>1. /\ i16_swi(i).defined /\ i16_b(i).defined /\ i16_switch(i).defined
          /\ i16_version(i).defined /\ i16_swi_u(i).defined /\ i16_ldm_stm(i).defined
          /\ i16_ld_st_sp(i).defined /\ i16_ldw_stw(i).defined /\ i16_add_sp(i).defined
          /\ i16_ld_st(i).defined /\ Plain(<< >>).defined
        BY LookupsDefined, Zenon DEF i16_swi, i16_b, i16_switch, i16_version, i16_swi_u,
           i16_ldm_stm, i16_ld_st_sp, i16_ldw_stw, i16_add_sp, i16_ld_st
    <2>2. /\ i32_ld_st_disp_12(i).defined /\ i32_ld_st_disp_16(i, pc).defined
          /\ i32_alu_add(i).defined /\ i32_alu_add_pc(i, pc).defined
          /\ i32_p_control(i).defined
        BY LookupsDefined, Zenon DEF i32_ld_st_disp_12, i32_ld_st_disp_16, i32_alu_add,
           i32_alu_add_pc, i32_p_control
    <2>3. /\ i48_b(i, pc).defined /\ i48_add_pc_rel(i, pc).defined
          /\ i48_add_ld_st(i, pc).defined /\ i48_alu_add(i).defined
        BY LookupsDefined, Zenon DEF i48_b, i48_add_pc_rel, i48_add_ld_st, i48_alu_add
    <2> QED
        BY <1>5, <2>1, <2>2, <2>3, AlwaysDefined, Zenon DEF print
<1> QED
    BY <1>1, <1>2, <1>3, <1>4, <1>5

-----------------------------------------------------------------------------
(***************************************************************************)
(* The vector operands.                                                    *)
(***************************************************************************)
Inside(operand) ==
    Len(operand) = 4 => operand[3] \in 0..63 /\ operand[4] \in 0..63

LEMMA OperandInside ==
    ASSUME NEW arg \in Int, NEW ra_x \in {NoNumber} \cup 0..15
    PROVE  Inside(i80_arg_to_str(arg, ra_x))
<1> DEFINE prefix == bf_extract(arg, 6, 4)
           y == IF ra_x # NoNumber \/ prefix % 2 = 1
                THEN bf_extract(arg, 0, 6) ELSE 16 * bf_extract(arg, 4, 2)
           lane == IF ra_x = NoNumber THEN bf_extract(arg, 0, 4) ELSE ra_x
           x == ColumnOffset(prefix \div 2) + lane
           char1 == IF prefix % 2 = 1 THEN "V" ELSE "H"
           char2 == CASE prefix < 8 -> "" [] prefix >= 12 -> "Y" [] OTHER -> "X"
<1>1. prefix \in 0..15
    BY SMT DEF bf_extract
<1>2. y \in 0..63
    BY SMT DEF bf_extract
<1>3. lane \in 0..15
    BY SMT DEF bf_extract, NoNumber
<1>4. i80_arg_to_str(arg, ra_x) = IF Unused(prefix) THEN Dash ELSE <<char1, char2, y, x>>
    BY DEF i80_arg_to_str
<1>5. CASE Unused(prefix)
    BY <1>4, <1>5 DEF Inside, Dash
<1>6. CASE ~Unused(prefix)
    <2> HIDE DEF prefix, lane
    <2>1. prefix \div 2 \in 0..6
        BY <1>1, <1>6, SMT DEF Unused
    <2>2. \A k \in 0..6 : ColumnOffset(k) \in 0..48
        BY SMT DEF ColumnOffset
    <2>3. x \in 0..63
        <3>1. ColumnOffset(prefix \div 2) \in 0..48
            BY <2>1, <2>2
        <3> QED
            BY <1>3, <3>1, SMT
    <2> HIDE DEF x, y, char1, char2
    <2>4. i80_arg_to_str(arg, ra_x) = <<char1, char2, y, x>>
        BY <1>4, <1>6
    <2> QED
        BY <1>2, <2>3, <2>4 DEF Inside
<1> QED
    BY <1>5, <1>6

LEMMA ShortOperands ==
    ASSUME NEW n
    PROVE  Inside(Register(n)) /\ Inside(Immediate(n))
BY DEF Inside, Register, Immediate

LEMMA ArgumentsAreInt ==
    ASSUME NEW i \in [0..4 -> Halfword]
    PROVE  /\ ArgD(i) \in Int /\ ArgA(i) \in Int /\ bf_extract(i[2], 0, 10) \in Int
           /\ bf_extract(i[3], 0, 4) \in {NoNumber} \cup 0..15
<1>1. i[1] \in Halfword /\ i[2] \in Halfword /\ i[3] \in Halfword
    OBVIOUS
<1>2. i[1] \in Nat /\ i[2] \in Nat /\ i[3] \in Nat
    BY <1>1, HalfwordIsNat
<1> QED
    BY <1>2, SMT DEF ArgD, ArgA, bf_extract

\* What InRegisterFile says of a line.
OperandsInFile(entry, l) ==
    entry \in DOMAIN VectorPlaces =>
        \A k \in VectorPlaces[entry] \cap DOMAIN l.ops : Inside(l.ops[k])

LEMMA FifthOfConcat ==
    ASSUME NEW a, NEW b, NEW c, NEW d, NEW e, NEW f, NEW g, NEW h
    PROVE  /\ (<<a, b, c>> \o <<d, e>>)[5] = e
           /\ (<<a, b, c>> \o <<d, e, f, g, h>>)[5] = e
           /\ 5 \notin DOMAIN (<<a, b, c>> \o <<d>>)
<1> DEFINE S == {a, b, c, d, e, f, g, h}
           s == <<a, b, c>>
<1>1. s \in Seq(S) /\ Len(s) = 3
    OBVIOUS
<1>2. <<d>> \in Seq(S) /\ <<d, e>> \in Seq(S) /\ <<d, e, f, g, h>> \in Seq(S)
    OBVIOUS
<1>3. Len(<<d>>) = 1 /\ Len(<<d, e>>) = 2 /\ Len(<<d, e, f, g, h>>) = 5
      /\ <<d, e>>[2] = e /\ <<d, e, f, g, h>>[2] = e
    OBVIOUS
<1> HIDE DEF S, s
<1>4. ASSUME NEW t \in Seq(S), Len(t) >= 2
      PROVE  (s \o t)[5] = t[2]
    <2>1. Len(t) \in Nat
        OBVIOUS
    <2>2. 5 \in 1..(Len(s) + Len(t)) /\ ~(5 <= Len(s)) /\ 5 - Len(s) = 2
        BY <1>1, <1>4, <2>1
    <2>3. \A k \in 1..(Len(s) + Len(t)) :
             (s \o t)[k] = IF k <= Len(s) THEN s[k] ELSE t[k - Len(s)]
        BY <1>1, ConcatProperties
    <2> QED
        BY <2>2, <2>3
<1>5. ASSUME NEW t \in Seq(S), Len(t) = 1
      PROVE  s \o t \in Seq(S) /\ Len(s \o t) = 4
    <2>1. s \o t \in Seq(S) /\ Len(s \o t) = Len(s) + Len(t)
        BY <1>1, ConcatProperties
    <2> QED
        BY <1>1, <1>5, <2>1
<1>6. \A t \in Seq(S) : Len(t) = 4 => 5 \notin DOMAIN t
    OBVIOUS
<1> QED
    BY <1>2, <1>3, <1>4, <1>5, <1>6 DEF s

LEMMA DataVopInside ==
    ASSUME NEW i \in [0..4 -> Halfword], NEW b \in Int
    PROVE  OperandsInFile("i48_data_vop", i48_data_vop(i, b))
<1> DEFINE d == i80_arg_to_str(ArgD(i), NoNumber)
           a == i80_arg_to_str(ArgA(i), NoNumber)
           rb == bf_extract(i[2], 0, 6)
           third == CASE bf_extract(i[2], 7, 4) = 7 -> Register(rb)
                      [] Flag(i[2], 10) = 0 -> i80_arg_to_str(b, NoNumber)
                      [] OTHER -> Immediate(rb)
           vop == bf_extract(i[0], 3, 6)
           f == Flag(i[0], 9)
           l == i48_data_vop(i, b)
<1>1. l.ops = <<vop, f, d, a, third>>
    BY DEF i48_data_vop, Line
<1>2. VectorPlaces["i48_data_vop"] = 3..5
    BY DEF VectorPlaces
<1>3. Inside(d) /\ Inside(a)
    BY ArgumentsAreInt, OperandInside
<1>4. Inside(Register(rb)) /\ Inside(i80_arg_to_str(b, NoNumber)) /\ Inside(Immediate(rb))
    BY ShortOperands, OperandInside
<1>5. Inside(third)
    BY <1>4, Zenon
<1> HIDE DEF d, a, third, vop, f, l, rb
<1>6. \A k \in 3..5 : Inside(l.ops[k])
    <2>1. l.ops[3] = d /\ l.ops[4] = a /\ l.ops[5] = third
        BY <1>1
    <2> QED
        BY <1>3, <1>5, <2>1, SMT
<1>7. OperandsInFile("i48_data_vop", l)
    BY <1>2, <1>6, Zenon DEF OperandsInFile
<1> QED
    BY <1>7 DEF l

LEMMA DataOpInside ==
    ASSUME NEW i \in [0..4 -> Halfword]
    PROVE  OperandsInFile("i80_data_op", i80_data_op(i))
<1> DEFINE d == i80_arg_to_str(ArgD(i), NoNumber)
           a == i80_arg_to_str(ArgA(i), bf_extract(i[3], 0, 4))
           b == bf_extract(i[2], 0, 10)
           last == IF Flag(i[2], 10) = 1
                   THEN Immediate(KOrJ(b, bf_extract(i[4], 0, 6)))
                   ELSE i80_arg_to_str(b, NoNumber)
           vop == bf_extract(i[0], 3, 6)
           p1 == IF HasName(vop) THEN vop ELSE NoNumber
           p2 == bf_extract(i[4], 6, 7)
           p3 == bf_extract(i[4], 13, 3)
           p4 == bf_extract(i[0], 0, 3)
           l == i80_data_op(i)
<1>1. l.ops = <<p1, p2, p3, p4, d, a, last>>
    BY DEF i80_data_op, Line
<1>2. VectorPlaces["i80_data_op"] = 5..7
    BY DEF VectorPlaces
<1>3. Inside(d) /\ Inside(a)
    BY ArgumentsAreInt, OperandInside
<1>4. Inside(i80_arg_to_str(b, NoNumber)) /\ \A n : Inside(Immediate(n))
    BY ArgumentsAreInt, ShortOperands, OperandInside
<1>5. Inside(last)
    BY <1>4, Zenon
<1> HIDE DEF d, a, last, p1, p2, p3, p4, l
<1>6. \A k \in 5..7 : Inside(l.ops[k])
    <2>1. l.ops[5] = d /\ l.ops[6] = a /\ l.ops[7] = last
        BY <1>1
    <2> QED
        BY <1>3, <1>5, <2>1, SMT
<1>7. OperandsInFile("i80_data_op", l)
    BY <1>2, <1>6, Zenon DEF OperandsInFile
<1> QED
    BY <1>7 DEF l

LEMMA MemOpInside ==
    ASSUME NEW i \in [0..4 -> Halfword]
    PROVE  OperandsInFile("i80_mem_op", i80_mem_op(i))
<1> DEFINE d == i80_arg_to_str(ArgD(i), NoNumber)
           a == i80_arg_to_str(ArgA(i), bf_extract(i[3], 0, 4))
           h1 == bf_extract(i[0], 5, 5)
           h2 == 2 * bf_extract(i[0], 3, 2)
           h3 == bf_extract(i[0], 0, 3)
           t1 == <<IF bf_extract(i[2], 7, 4) = 7 THEN "+" ELSE "0">>
           t2 == Immediate((bf_extract(i[4], 6, 7) * 4 + bf_extract(i[4], 0, 2)) * 128
                               + bf_extract(i[2], 0, 7))
           t3 == Register(bf_extract(i[4], 2, 4))
           t4 == Register(bf_extract(i[1], 6, 6))
           u1 == <<"1">>
           v1 == <<IF Flag(i[2], 10) = 0 THEN "2" ELSE "3">>
           l == i80_mem_op(i)
<1>1. l.ops = <<h1, h2, h3>> \o
                  (CASE bf_extract(i[1], 12, 4) = 14 -> <<t1, a, t2, t3, t4>>
                     [] bf_extract(i[1], 8, 4) # 0 -> <<u1>>
                     [] OTHER -> <<v1, d>>)
    BY DEF i80_mem_op, Line
<1>2. VectorPlaces["i80_mem_op"] = {5}
    BY DEF VectorPlaces
<1>3. Inside(d) /\ Inside(a)
    BY ArgumentsAreInt, OperandInside
<1> HIDE DEF d, a, h1, h2, h3, t1, t2, t3, t4, u1, v1, l
<1>4. l.ops \in {<<h1, h2, h3>> \o <<t1, a, t2, t3, t4>>,
                 <<h1, h2, h3>> \o <<u1>>, <<h1, h2, h3>> \o <<v1, d>>}
    BY <1>1, Zenon
<1>5. 5 \in DOMAIN l.ops => Inside(l.ops[5])
    <2>1. /\ (<<h1, h2, h3>> \o <<t1, a, t2, t3, t4>>)[5] = a
          /\ 5 \notin DOMAIN (<<h1, h2, h3>> \o <<u1>>)
          /\ (<<h1, h2, h3>> \o <<v1, d>>)[5] = d
        BY FifthOfConcat
    <2> QED
        BY <1>3, <1>4, <2>1, Zenon
<1>6. OperandsInFile("i80_mem_op", l)
    BY <1>2, <1>5, Zenon DEF OperandsInFile
<1> QED
    BY <1>6 DEF l

LEMMA PrintInside ==
    ASSUME NEW entry, NEW i \in [0..4 -> Halfword], NEW pc, NEW b \in Int
    PROVE  OperandsInFile(entry, print(entry, i, pc, b))
<1>1. DOMAIN VectorPlaces = {"i48_data_vop", "i80_mem_op", "i80_data_op"}
    BY DEF VectorPlaces
<1>2. CASE entry \notin DOMAIN VectorPlaces
    BY <1>2, Zenon DEF OperandsInFile
<1>3. CASE entry = "i48_data_vop"
    <2>1. print(entry, i, pc, b) = i48_data_vop(i, b)
        BY <1>3, Zenon DEF print
    <2> QED
        BY <1>3, <2>1, DataVopInside
<1>4. CASE entry = "i80_mem_op"
    <2>1. print(entry, i, pc, b) = i80_mem_op(i)
        BY <1>4, Zenon DEF print
    <2> QED
        BY <1>4, <2>1, MemOpInside
<1>5. CASE entry = "i80_data_op"
    <2>1. print(entry, i, pc, b) = i80_data_op(i)
        BY <1>5, Zenon DEF print
    <2> QED
        BY <1>5, <2>1, DataOpInside
<1> QED
    BY <1>1, <1>2, <1>3, <1>4, <1>5

-----------------------------------------------------------------------------
(***************************************************************************)
(* The invariant: where the loop is, and what every row says.              *)
(***************************************************************************)
\* n halfwords of the current instruction have been read.
Begun(n) ==
    /\ pos - n \in Nat
    /\ current_pc = (BaseAddr + 2 * (pos - n)) % PcModulus

Place ==
    /\ image \in Seq(Halfword) /\ pos \in Nat
    /\ instr \in [0..4 -> Halfword]
    /\ at \in {"main", "seek", "fetch1"} => Begun(0)
    /\ at = "fetch2" => Begun(1) /\ instr[0] >= \h8000
    /\ at = "fetch3" => Begun(2) /\ instr[0] >= \h8000
    /\ at = "fetch4" => Begun(3) /\ instr[0] >= \h8000
    /\ at = "print" => /\ instr_sz \in {2, 4, 6, 10} /\ Begun(instr_sz \div 2)
                       /\ instr[0] >= \h8000 => instr_sz # 2

\* The four invariants, for one row and its line.
RowGood(row, l) ==
    /\ IsLine(l)
    /\ row.entry \in RelativeEntries =>
          l.addrs = <<(BaseAddr + 2 * row.start + Distance(row.entry, row.words)) % PcModulus>>
    /\ ~l.defined => row.words[0] \in NamelessWords
    /\ OperandsInFile(row.entry, l)

RowsGood ==
    /\ \E S : listing \in Seq(S)
    /\ \E S : lines \in Seq(S)
    /\ Len(lines) = Len(listing)
    /\ \A n \in 1..Len(lines) : RowGood(listing[n], lines[n])

CrashKnown == crashed \in BOOLEAN /\ (crashed => instr[0] \in NamelessWords)

IInv == Place /\ RowsGood /\ CrashKnown

LEMMA EntryLine ==
    ASSUME NEW b
    PROVE  /\ vc4_decode_instr(instr) = NoEntry => \E ops : RowLine(b) = Plain(ops)
           /\ vc4_decode_instr(instr) # NoEntry =>
                RowLine(b) = print(vc4_decode_instr(instr), instr, current_pc, b)
BY Zenon DEF RowLine

LEMMA LineDefined ==
    ASSUME Place, NEW b, instr[0] \notin NamelessWords
    PROVE  RowLine(b).defined
<1> DEFINE entry == vc4_decode_instr(instr)
<1>1. CASE entry = NoEntry
    <2>1. PICK ops : RowLine(b) = Plain(ops)
        BY <1>1, EntryLine
    <2> QED
        BY <2>1, LookupsDefined, Zenon
<1>2. CASE entry # NoEntry
    <2>1. RowLine(b) = print(entry, instr, current_pc, b)
        BY <1>2, EntryLine
    <2>2. instr \in [0..4 -> Halfword]
        BY DEF Place
    <2>3. print(entry, instr, current_pc, b).defined
        BY <2>2, NamelessOrDefined
    <2> QED
        BY <2>1, <2>3, Zenon
<1> QED
    BY <1>1, <1>2

LEMMA RowIsGood ==
    ASSUME Place, at = "print", NEW b \in Unset
    PROVE  RowGood(Dump!Row, RowLine(b))
<1> DEFINE entry == vc4_decode_instr(instr)
           start == pos - instr_sz \div 2
           a == BaseAddr + 2 * start
           w == [n \in 0..(instr_sz \div 2 - 1) |-> instr[n]]
           row == Dump!Row
           l == RowLine(b)
<1>1. row.entry = entry /\ row.start = start /\ row.words = w
    <2>1. row.start = start /\ row.words = w /\ row.entry = Dump!vc4_decode_instr(instr)
        BY DEF Dump!Row
    <2> QED
        BY <2>1, SameDecoder
<1>2. /\ instr \in [0..4 -> Halfword] /\ instr_sz \in {2, 4, 6, 10}
      /\ start \in Nat /\ current_pc = a % PcModulus
      /\ instr[0] >= \h8000 => instr_sz # 2
    BY DEF Place, Begun
<1>3. BaseAddr \in Int /\ a \in Int /\ current_pc \in Int /\ b \in Int
    <2>1. BaseAddr \in Int
        BY DumpAssumption, ModulusIsNat, SMT
    <2>2. a \in Int
        BY <1>2, <2>1
    <2>3. a % PcModulus \in Int
        <3> HIDE DEF a
        <3> QED
            BY <2>2, ModulusIsNat, DivMod, SMT
    <2> QED
        BY <1>2, <2>1, <2>2, <2>3, UnsetAssumption
<1>4. w[0] = instr[0] /\ (instr_sz # 2 => w[1] = instr[1])
    BY <1>2, SMT
<1>5. FirstWordOf(entry, instr[0])
    BY EntryWords
<1>6. entry \in RelativeEntries /\ entry # "i16_b_cond" => w[1] = instr[1]
    <2> HIDE DEF entry, w
    <2> QED
        BY <1>2, <1>4, <1>5 DEF FirstWordOf, RelativeEntries
<1> HIDE DEF entry, a, w, row, l, start
<1>7. CASE entry = NoEntry
    <2>1. PICK ops : l = Plain(ops)
        BY <1>7, EntryLine DEF entry, l
    <2>2. IsLine(l) /\ l.defined
        BY <2>1, LinesTyped, LookupsDefined, Zenon
    <2>3. entry \notin RelativeEntries /\ entry \notin DOMAIN VectorPlaces
        BY <1>7 DEF NoEntry, RelativeEntries, VectorPlaces
    <2>4. OperandsInFile(entry, l)
        BY <2>3, Zenon DEF OperandsInFile
    <2>5. RowGood(row, l)
        BY <1>1, <2>2, <2>3, <2>4, Zenon DEF RowGood
    <2> QED
        BY <2>5 DEF row, l
<1>8. CASE entry # NoEntry
    <2>1. l = print(entry, instr, current_pc, b)
        BY <1>8, EntryLine DEF entry, l
    <2>2. IsLine(l)
        BY <1>2, <1>3, <2>1, PrintTyped
    <2>3. entry \in RelativeEntries => l.addrs = <<(a + Distance(entry, w)) % PcModulus>>
        <3> SUFFICES ASSUME entry \in RelativeEntries
                     PROVE  l.addrs = <<(a + Distance(entry, w)) % PcModulus>>
            OBVIOUS
        <3>2. /\ instr \in [0..4 -> Halfword] /\ a \in Int /\ w[0] = instr[0]
              /\ entry # "i16_b_cond" => w[1] = instr[1]
            BY <1>2, <1>3, <1>4, <1>6
        <3>1. print(entry, instr, a % PcModulus, b).addrs = <<(a + Distance(entry, w)) % PcModulus>>
            BY <3>2, TargetOfEntry, Zenon
        <3>3. current_pc = a % PcModulus
            BY <1>2
        <3>4. l = print(entry, instr, a % PcModulus, b)
            BY <2>1, <3>3, Zenon
        <3> QED
            BY <3>1, <3>4, Zenon
    <2>4. ~l.defined => instr[0] \in NamelessWords
        BY LineDefined, Zenon DEF l
    <2>5. OperandsInFile(entry, l)
        <3>1. instr \in [0..4 -> Halfword] /\ b \in Int
            BY <1>2, <1>3
        <3>2. OperandsInFile(entry, print(entry, instr, current_pc, b))
            BY <3>1, PrintInside
        <3> QED
            BY <2>1, <3>2, Zenon
    <2>6. row.entry \in RelativeEntries =>
             l.addrs = <<(BaseAddr + 2 * row.start + Distance(row.entry, row.words)) % PcModulus>>
        BY <1>1, <2>3, Zenon DEF a
    <2>7. RowGood(row, l)
        BY <1>1, <1>4, <2>2, <2>4, <2>5, <2>6, Zenon DEF RowGood
    <2> QED
        BY <2>7 DEF row, l
<1> QED
    BY <1>7, <1>8

LEMMA InitInv == Init => IInv
<1> SUFFICES ASSUME Init PROVE IInv
    OBVIOUS
<1>1. image \in Images /\ pos = 0 /\ current_pc = BaseAddr /\ at = "main"
      /\ listing = << >> /\ lines = << >> /\ crashed = FALSE
    BY DEF Init, Dump!Init
<1>2. instr \in [0..4 -> Halfword]
    BY DumpAssumption DEF Init, Dump!Init
<1>3. current_pc = (BaseAddr + 2 * (pos - 0)) % PcModulus /\ pos - 0 \in Nat
    BY <1>1, DumpAssumption, ModulusIsNat, SMT
<1>4. Place
    BY <1>1, <1>2, <1>3, DumpAssumption DEF Place, Begun
<1>5. RowsGood
    <2>1. << >> \in Seq({}) /\ Len(<< >>) = 0
        OBVIOUS
    <2>2. (\E S : listing \in Seq(S)) /\ (\E S : lines \in Seq(S))
        BY <1>1, <2>1, Zenon
    <2>3. Len(lines) = Len(listing) /\ 1..Len(lines) = {}
        BY <1>1
    <2> QED
        BY <2>2, <2>3, Zenon DEF RowsGood
<1>6. CrashKnown
    BY <1>1 DEF CrashKnown
<1> QED
    BY <1>4, <1>5, <1>6 DEF IInv

\* A row and its line are added together.
LEMMA PairsAppended ==
    ASSUME RowsGood, NEW row, NEW l,
           listing' = Append(listing, row), lines' = Append(lines, l)
    PROVE  /\ Len(lines) \in Nat /\ Len(lines') = Len(lines) + 1
           /\ listing'[Len(lines) + 1] = row /\ lines'[Len(lines) + 1] = l
           /\ \A n \in 1..Len(lines) : listing'[n] = listing[n] /\ lines'[n] = lines[n]
<1>1. PICK S : listing \in Seq(S)
    BY Zenon DEF RowsGood
<1>2. PICK T : lines \in Seq(T)
    BY Zenon DEF RowsGood
<1> DEFINE U == S \cup {row}
           V == T \cup {l}
           N == Len(lines)
<1>3. listing \in Seq(U) /\ row \in U /\ lines \in Seq(V) /\ l \in V
    BY <1>1, <1>2
<1>4. N \in Nat /\ Len(listing) = N
    BY <1>2 DEF RowsGood
<1> HIDE DEF U, V, N
<1>5. listing'[N + 1] = row /\ \A n \in 1..N : listing'[n] = listing[n]
    BY <1>3, <1>4, AppendProperties
<1>6. Len(lines) = N
    BY DEF N
<1>7. /\ Len(lines') = N + 1 /\ lines'[N + 1] = l
      /\ \A n \in 1..N : lines'[n] = lines[n]
    BY <1>3, <1>4, <1>6, AppendProperties
<1> QED
    BY <1>4, <1>5, <1>6, <1>7, Zenon

LEMMA RowsAppended ==
    ASSUME RowsGood, NEW row, NEW l, RowGood(row, l),
           listing' = Append(listing, row), lines' = Append(lines, l)
    PROVE  RowsGood'
<1>1. PICK S : listing \in Seq(S)
    BY Zenon DEF RowsGood
<1>2. PICK T : lines \in Seq(T)
    BY Zenon DEF RowsGood
<1>3. /\ listing' \in Seq(S \cup {row}) /\ Len(listing') = Len(listing) + 1
      /\ lines' \in Seq(T \cup {l}) /\ Len(lines') = Len(lines) + 1
    <2>1. /\ listing \in Seq(S \cup {row}) /\ row \in S \cup {row}
          /\ lines \in Seq(T \cup {l}) /\ l \in T \cup {l}
        BY <1>1, <1>2
    <2> QED
        BY <2>1, AppendProperties
<1> DEFINE N == Len(lines)
<1>4. /\ N \in Nat /\ Len(lines') = N + 1
      /\ listing'[N + 1] = row /\ lines'[N + 1] = l
      /\ \A n \in 1..N : listing'[n] = listing[n] /\ lines'[n] = lines[n]
    BY PairsAppended, Zenon
<1>5. \A n \in 1..N : RowGood(listing[n], lines[n])
    BY Zenon DEF RowsGood
<1>6. Len(listing) = Len(lines)
    BY Zenon DEF RowsGood
<1> HIDE DEF N
<1>7. \A n \in 1..(N + 1) : RowGood(listing'[n], lines'[n])
    <2> SUFFICES ASSUME NEW n \in 1..(N + 1) PROVE RowGood(listing'[n], lines'[n])
        OBVIOUS
    <2>1. n \in 1..N \/ n = N + 1
        BY <1>4
    <2>2. CASE n \in 1..N
        BY <1>4, <1>5, <2>2, Zenon
    <2>3. CASE n = N + 1
        BY <1>4, <2>3, Zenon
    <2> QED
        BY <2>1, <2>2, <2>3
<1> QED
    BY <1>3, <1>4, <1>6, <1>7, Zenon DEF RowsGood

LEMMA RowsKept == RowsGood /\ UNCHANGED <<listing, lines>> => RowsGood'
BY DEF RowsGood

\* Two bytes are one halfword.
LEMMA OneHalfwordRead ==
    ASSUME pos' - 1 = pos - 0, Begun(0), instr_sz' = 2, 2 \div 2 = 1,
           current_pc' = current_pc
    PROVE  Begun(instr_sz \div 2)'
<1>1. pos' - instr_sz' \div 2 = pos - 0
    BY Zenon
<1> QED
    BY <1>1, Zenon DEF Begun

\* The steps that fetch.
LEMMA FetchKeepsPlace ==
    ASSUME Place, Fetching
    PROVE  Place'
<1> USE DEF Place, Begun
<1>0. \A n \in Nat : n + 1 <= Len(image) => image[n + 1] \in Halfword
    OBVIOUS
<1>1. CASE Dump!OpenImage \/ Dump!Seek \/ Dump!MainFails \/ Dump!SeekFails \/ Dump!FetchFails
    BY <1>1 DEF Dump!OpenImage, Dump!Seek, Dump!MainFails, Dump!SeekFails, Dump!FetchFails
<1>2. CASE Dump!FetchFirst
    <2>1. /\ at = "fetch1" /\ pos + 1 <= Len(image)
          /\ instr' = [instr EXCEPT ![0] = image[pos + 1]]
          /\ pos' = pos + 1
          /\ image' = image /\ current_pc' = current_pc
          /\ \/ instr'[0] < \h8000 /\ at' = "print" /\ instr_sz' = 2
             \/ ~(instr'[0] < \h8000) /\ at' = "fetch2"
        BY <1>2 DEF Dump!FetchFirst, Dump!Available, Dump!OneWord, Dump!Out, Dump!More
    <2>2. instr' \in [0..4 -> Halfword] /\ instr'[0] \in Halfword
        BY <1>0, <2>1
    <2>3. instr'[0] \in Nat
        BY <2>2, HalfwordIsNat
    <2>4. pos' \in Nat /\ pos' - 1 = pos - 0 /\ 2 \div 2 = 1
        BY <2>1
    <2>5. Begun(1)'
        BY <2>1, <2>4
    <2>6. CASE instr'[0] < \h8000 /\ at' = "print" /\ instr_sz' = 2
        <3>0. Begun(0)
            BY <2>1
        <3>2. ~(instr'[0] >= \h8000)
            BY <2>3, <2>6
        <3> HIDE DEF Begun
        <3>1. Begun(instr_sz \div 2)'
            <4> HIDE DEF Place
            <4> QED
                BY <2>1, <2>4, <2>6, <3>0, OneHalfwordRead
        <3> QED
            BY <2>1, <2>2, <2>4, <2>6, <3>1, <3>2
    <2>7. CASE ~(instr'[0] < \h8000) /\ at' = "fetch2"
        <3>1. instr'[0] >= \h8000
            BY <2>3, <2>7
        <3> HIDE DEF Begun
        <3> QED
            BY <2>1, <2>2, <2>4, <2>5, <2>7, <3>1
    <2> QED
        BY <2>1, <2>6, <2>7
<1>3. CASE Dump!FetchSecond
    <2>1. /\ at = "fetch2" /\ pos + 1 <= Len(image)
          /\ instr' = [instr EXCEPT ![2] = image[pos + 1]]
          /\ pos' = pos + 1
          /\ image' = image /\ current_pc' = current_pc
          /\ \/ at' = "print" /\ instr_sz' = 4
             \/ at' = "fetch3"
        BY <1>3 DEF Dump!FetchSecond, Dump!Available, Dump!TwoWords, Dump!Out, Dump!More
    <2>2. instr' \in [0..4 -> Halfword] /\ instr'[0] = instr[0]
        BY <1>0, <2>1
    <2>4. pos' \in Nat /\ pos' - 2 = pos - 1 /\ 4 \div 2 = 2
        BY <2>1
    <2> QED
        BY <2>1, <2>2, <2>4
<1>4. CASE Dump!FetchThird
    <2>1. /\ at = "fetch3" /\ pos + 1 <= Len(image)
          /\ instr' = [instr EXCEPT ![2] = image[pos + 1]]
          /\ pos' = pos + 1
          /\ image' = image /\ current_pc' = current_pc
          /\ \/ at' = "print" /\ instr_sz' = 6
             \/ at' = "fetch4"
        BY <1>4 DEF Dump!FetchThird, Dump!Available, Dump!ThreeWords, Dump!Out, Dump!More
    <2>2. instr' \in [0..4 -> Halfword] /\ instr'[0] = instr[0]
        BY <1>0, <2>1
    <2>4. pos' \in Nat /\ pos' - 3 = pos - 2 /\ 6 \div 2 = 3
        BY <2>1
    <2> QED
        BY <2>1, <2>2, <2>4
<1>5. CASE Dump!FetchLast
    <2>1. /\ at = "fetch4" /\ pos + 2 <= Len(image)
          /\ instr' = [instr EXCEPT ![3] = image[pos + 1], ![4] = image[pos + 2]]
          /\ pos' = pos + 2
          /\ image' = image /\ current_pc' = current_pc
          /\ at' = "print" /\ instr_sz' = 10
        BY <1>5 DEF Dump!FetchLast, Dump!Available, Dump!Out
    <2>2. instr' \in [0..4 -> Halfword] /\ instr'[0] = instr[0]
        <3>1. image[pos + 1] \in Halfword /\ image[pos + 2] \in Halfword
            BY <1>0, <2>1
        <3> QED
            BY <2>1, <3>1
    <2>4. pos' \in Nat /\ pos' - 5 = pos - 3 /\ 10 \div 2 = 5
        BY <2>1
    <2> QED
        BY <2>1, <2>2, <2>4
<1> QED
    BY <1>1, <1>2, <1>3, <1>4, <1>5 DEF Fetching

\* The row is done: the next instruction starts where the file offset is.
LEMMA PrintKeepsPlace ==
    ASSUME Place, Dump!PrintRow
    PROVE  Place'
<1> DEFINE a == BaseAddr + 2 * (pos - instr_sz \div 2)
<1>1. /\ at = "print" /\ at' = "fetch1"
      /\ current_pc' = (current_pc + instr_sz) % PcModulus
      /\ image' = image /\ pos' = pos /\ instr' = instr /\ instr_sz' = instr_sz
    BY DEF Dump!PrintRow
<1>2. /\ current_pc = a % PcModulus /\ instr_sz \in {2, 4, 6, 10}
      /\ pos \in Nat /\ image \in Seq(Halfword) /\ instr \in [0..4 -> Halfword]
    BY <1>1 DEF Place, Begun
<1>3. BaseAddr \in Int
    BY DumpAssumption, ModulusIsNat, SMT
<1>4. a \in Int /\ a + instr_sz = BaseAddr + 2 * (pos - 0) /\ instr_sz \in Int
    BY <1>2, <1>3, SMT
<1> HIDE DEF a
<1>5. ((a % PcModulus) + instr_sz) % PcModulus = (a + instr_sz) % PcModulus
    BY <1>4, ModulusIsNat, ModAdd
<1>6. current_pc' = (BaseAddr + 2 * (pos - 0)) % PcModulus
    BY <1>1, <1>2, <1>4, <1>5, Zenon
<1>7. pos - 0 \in Nat
    BY <1>2
<1> QED
    BY <1>1, <1>2, <1>6, <1>7 DEF Place, Begun

LEMMA NextInv == IInv /\ [Next]_vars => IInv'
<1> SUFFICES ASSUME IInv, [Next]_vars
             PROVE  IInv'
    OBVIOUS
<1> USE DEF IInv
<1>1. CASE PrintLine
    <2>1. PICK b \in Unset : lines' = Append(lines, RowLine(b))
        BY <1>1, Zenon DEF PrintLine
    <2>2. Dump!PrintRow /\ crashed' = crashed /\ ~crashed
        BY <1>1 DEF PrintLine
    <2>3. at = "print" /\ listing' = Append(listing, Dump!Row) /\ instr' = instr
        BY <2>2 DEF Dump!PrintRow
    <2>4. RowGood(Dump!Row, RowLine(b))
        BY <2>3, RowIsGood
    <2>5. RowsGood'
        BY <2>1, <2>3, <2>4, RowsAppended, Zenon
    <2>6. CrashKnown'
        BY <2>2, <2>3 DEF CrashKnown
    <2> QED
        BY <2>2, <2>5, <2>6, PrintKeepsPlace
<1>2. CASE Crash
    <2>1. /\ UNCHANGED <<image, pos, instr, instr_sz, current_pc, at, listing, lines>>
          /\ crashed' = TRUE
        BY <1>2 DEF Crash, dumpVars
    <2>2. instr[0] \in NamelessWords
        BY <1>2, LineDefined, Zenon DEF Crash
    <2>3. Place'
        BY <2>1 DEF Place, Begun
    <2>4. CrashKnown'
        BY <2>1, <2>2 DEF CrashKnown
    <2> QED
        BY <2>1, <2>3, <2>4, RowsKept
<1>3. CASE Fetching
    <2>1. UNCHANGED <<lines, crashed>> /\ ~crashed
        BY <1>3 DEF Fetching
    <2>2. listing' = listing
        BY <1>3 DEF Fetching, Dump!OpenImage, Dump!Seek, Dump!MainFails, Dump!SeekFails,
           Dump!FetchFirst,
           Dump!FetchSecond, Dump!FetchThird, Dump!FetchLast, Dump!FetchFails
    <2>3. CrashKnown'
        BY <2>1 DEF CrashKnown
    <2> QED
        BY <1>3, <2>1, <2>2, <2>3, FetchKeepsPlace, RowsKept
<1>4. CASE Ended \/ UNCHANGED vars
    <2>1. UNCHANGED <<image, pos, instr, instr_sz, current_pc, at, listing, lines, crashed>>
        BY <1>4 DEF Ended, vars, dumpVars
    <2>2. Place' /\ CrashKnown'
        BY <2>1 DEF Place, Begun, CrashKnown
    <2> QED
        BY <2>1, <2>2, RowsKept
<1> QED
    BY <1>1, <1>2, <1>3, <1>4 DEF Next

THEOREM Invariance == Spec => []IInv
BY InitInv, NextInv, PTL DEF Spec

-----------------------------------------------------------------------------
\* Only the words of NamelessWords make a printer leave a table of names.
THEOREM NamesFound == Spec => []NamesWithinTables
<1>1. IInv => NamesWithinTables
    BY DEF IInv, RowsGood, RowGood, CrashKnown, NamesWithinTables, Printed
<1> QED
    BY <1>1, Invariance, PTL

\* Vector operands are inside the register file, whatever the words are.
THEOREM OperandsRight == Spec => []InRegisterFile
<1>1. IInv => InRegisterFile
    BY DEF IInv, RowsGood, RowGood, OperandsInFile, Inside, InRegisterFile, Printed
<1> QED
    BY <1>1, Invariance, PTL

-----------------------------------------------------------------------------
(***************************************************************************)
(* The words of the entries of Lossless.                                   *)
(***************************************************************************)
\* What the entries of Lossless say of the words they print.
LosslessWords(entry, w, x) ==
    /\ entry = "i16_swi"      => w \in \h0020..\h003F
    /\ entry = "i16_b"        => w \in \h0040..\h007F
    /\ entry = "i16_switch"   => w \in (\h0080..\h008F) \cup (\h00A0..\h00AF)
    /\ entry = "i16_version"  => w \in \h00E0..\h00FF
    /\ entry = "i16_swi_u"    => w \in \h01C0..\h01FF
    /\ entry = "i16_ldm_stm"  => w \in \h0200..\h03FF
    /\ entry = "i16_ld_st_sp" => w \in \h0400..\h07FF
    /\ entry = "i16_add_sp"   => w \in \h1000..\h17FF
    /\ entry = "i16_b_cond"   => w \in \h1800..\h1FFF
    /\ entry = "i16_ld_st"    => w \in \h2000..\h3FFF
    /\ entry = "i16_alu_op"   => w \in \h4000..\h7FFF
    /\ entry = "i32_addcmpb"  => w \in \h8000..\h8FFF
    /\ entry = "i32_b"        => w \in \h9000..\h9FFF
    /\ entry = "i32_ld_st_cond_indexed" =>
          w \in \hA000..\hA0FF /\ bf_extract(x % 128, 5, 2) = 0
    /\ entry = "i32_alu_op"     => w \in \hB000..\hB3FF
    /\ entry = "i32_alu_add"    => w \in \hB400..\hB7FF
    /\ entry = "i32_alu_add_pc" => w \in \hBFE0..\hBFFF
    /\ entry = "i32_p_control"  => w \in \hCC00..\hCC3F /\ x % 65536 \in 0..31
    /\ entry = "i48_alu_op"     => w \in \hE800..\hEBFF
    /\ entry = "i48_alu_add"    => w \in \hEC00..\hEFFF

\* A rule lets no other words through than those.
Told(rule) ==
    \A w, x : Matches(rule, w, x) => LosslessWords(rule.entry, w, x)

\* Of the other entries nothing is said.
LEMMA OtherRules ==
    \A e : e \notin Lossless =>
        /\ \A s : Told(FirstWordRule(e, s))
        /\ \A s, m, l : Told(Rule(e, s, m, l))
<1>1. \A e : e \notin Lossless => \A w, x : LosslessWords(e, w, x)
    BY SMT DEF LosslessWords, Lossless
<1>2. \A e, s, m, l : (\A w, x : LosslessWords(e, w, x)) => Told(Rule(e, s, m, l))
    BY SMT DEF Rule, Told, Matches
<1> QED
    BY <1>1, <1>2, Zenon DEF FirstWordRule

\* Every rule of the four chains is one of these.
LEMMA Told16 == \A k \in 1..22 : Told(Chain16[k])
<1>1. Told(FirstWordRule("i16_swi", \h0020..\h003F))
    BY SMT DEF FirstWordRule, Rule, Told, Matches, LosslessWords
<1>2. Told(FirstWordRule("i16_b", \h0040..\h007F))
    BY SMT DEF FirstWordRule, Rule, Told, Matches, LosslessWords
<1>3. Told(FirstWordRule("i16_switch", (\h0080..\h008F) \cup (\h00A0..\h00AF)))
    BY SMT DEF FirstWordRule, Rule, Told, Matches, LosslessWords
<1>4. Told(FirstWordRule("i16_version", \h00E0..\h00FF))
    BY SMT DEF FirstWordRule, Rule, Told, Matches, LosslessWords
<1>5. Told(FirstWordRule("i16_swi_u", \h01C0..\h01FF))
    BY SMT DEF FirstWordRule, Rule, Told, Matches, LosslessWords
<1>6. Told(FirstWordRule("i16_ldm_stm", \h0200..\h03FF))
    BY SMT DEF FirstWordRule, Rule, Told, Matches, LosslessWords
<1>7. Told(FirstWordRule("i16_ld_st_sp", \h0400..\h07FF))
    BY SMT DEF FirstWordRule, Rule, Told, Matches, LosslessWords
<1>8. Told(FirstWordRule("i16_add_sp", \h1000..\h17FF))
    BY SMT DEF FirstWordRule, Rule, Told, Matches, LosslessWords
<1>9. Told(FirstWordRule("i16_b_cond", \h1800..\h1FFF))
    BY SMT DEF FirstWordRule, Rule, Told, Matches, LosslessWords
<1>10. Told(FirstWordRule("i16_ld_st", \h2000..\h3FFF))
    BY SMT DEF FirstWordRule, Rule, Told, Matches, LosslessWords
<1>11. Told(FirstWordRule("i16_alu_op", \h4000..\h7FFF))
    BY SMT DEF FirstWordRule, Rule, Told, Matches, LosslessWords
<1>12. /\ "i16_bkpt" \notin Lossless /\ "i16_nop" \notin Lossless
      /\ "i16_sleep" \notin Lossless /\ "i16_user" \notin Lossless
      /\ "i16_ei" \notin Lossless /\ "i16_di" \notin Lossless
      /\ "i16_cbclr" \notin Lossless /\ "i16_cbadd1" \notin Lossless
      /\ "i16_rti" \notin Lossless /\ "i16_illegal" \notin Lossless
      /\ "i16_ldw_stw" \notin Lossless
    BY SMT DEF Lossless, NoEntry
<1>13. /\ \A s : Told(FirstWordRule("i16_bkpt", s))
       /\ \A s : Told(FirstWordRule("i16_nop", s))
       /\ \A s : Told(FirstWordRule("i16_sleep", s))
    BY <1>12, OtherRules, Zenon
<1>14. /\ \A s : Told(FirstWordRule("i16_user", s))
       /\ \A s : Told(FirstWordRule("i16_ei", s))
       /\ \A s : Told(FirstWordRule("i16_di", s))
    BY <1>12, OtherRules, Zenon
<1>15. /\ \A s : Told(FirstWordRule("i16_cbclr", s))
       /\ \A s : Told(FirstWordRule("i16_cbadd1", s))
       /\ \A s : Told(FirstWordRule("i16_rti", s))
    BY <1>12, OtherRules, Zenon
<1>16. /\ \A s : Told(FirstWordRule("i16_illegal", s))
       /\ \A s : Told(FirstWordRule("i16_ldw_stw", s))
    BY <1>12, OtherRules, Zenon
<1>17. Told(Chain16[1]) /\ Told(Chain16[2]) /\ Told(Chain16[3])
    BY <1>13, SMT DEF Chain16
<1>18. Told(Chain16[4]) /\ Told(Chain16[5]) /\ Told(Chain16[6])
    BY <1>14, SMT DEF Chain16
<1>19. Told(Chain16[7]) /\ Told(Chain16[8]) /\ Told(Chain16[9])
    BY <1>15, SMT DEF Chain16
<1>20. Told(Chain16[10]) /\ Told(Chain16[11]) /\ Told(Chain16[12])
    BY <1>1, <1>2, <1>16, SMT DEF Chain16
<1>21. Told(Chain16[13]) /\ Told(Chain16[14]) /\ Told(Chain16[15])
    BY <1>3, <1>4, <1>5, SMT DEF Chain16
<1>22. Told(Chain16[16]) /\ Told(Chain16[17]) /\ Told(Chain16[18])
    BY <1>6, <1>7, <1>16, SMT DEF Chain16
<1>23. Told(Chain16[19]) /\ Told(Chain16[20]) /\ Told(Chain16[21])
    BY <1>8, <1>9, <1>10, SMT DEF Chain16
<1>24. Told(Chain16[22])
    BY <1>11, SMT DEF Chain16
<1> QED
    BY <1>17, <1>18, <1>19, <1>20, <1>21, <1>22, <1>23, <1>24, SMTT(30)

LEMMA Told32 == \A k \in 1..16 : Told(Chain32[k])
<1>1. Told(FirstWordRule("i32_addcmpb", \h8000..\h8FFF))
    BY SMT DEF FirstWordRule, Rule, Told, Matches, LosslessWords
<1>2. Told(FirstWordRule("i32_b", \h9000..\h9FFF))
    BY SMT DEF FirstWordRule, Rule, Told, Matches, LosslessWords
<1>3. Told(Rule("i32_ld_st_cond_indexed", \hA000..\hA0FF, 128, {x \in 0..127 : bf_extract(x, 5, 2) = 0}))
    BY SMT DEF FirstWordRule, Rule, Told, Matches, LosslessWords
<1>4. Told(FirstWordRule("i32_alu_op", \hB000..\hB3FF))
    BY SMT DEF FirstWordRule, Rule, Told, Matches, LosslessWords
<1>5. Told(FirstWordRule("i32_alu_add", \hB400..\hB7FF))
    BY SMT DEF FirstWordRule, Rule, Told, Matches, LosslessWords
<1>6. Told(FirstWordRule("i32_alu_add_pc", \hBFE0..\hBFFF))
    BY SMT DEF FirstWordRule, Rule, Told, Matches, LosslessWords
<1>7. Told(Rule("i32_p_control", \hCC00..\hCC3F, 65536, 0..31))
    BY SMT DEF FirstWordRule, Rule, Told, Matches, LosslessWords
<1>8. /\ "i32_ld_st_disp_12" \notin Lossless /\ "i32_ld_st_pre_post" \notin Lossless
      /\ "i32_ld_st_disp_16" \notin Lossless /\ "i32_alu_cond" \notin Lossless
      /\ "i32_alu_fop" \notin Lossless /\ "i32_ftrunc" \notin Lossless
      /\ "i32_floor" \notin Lossless /\ "i32_flts" \notin Lossless
      /\ "i32_fltu" \notin Lossless
    BY SMT DEF Lossless, NoEntry
<1>9. /\ \A s : Told(FirstWordRule("i32_ld_st_disp_12", s))
      /\ \A s, m, l : Told(Rule("i32_ld_st_pre_post", s, m, l))
      /\ \A s : Told(FirstWordRule("i32_ld_st_disp_16", s))
    BY <1>8, OtherRules, Zenon
<1>10. /\ \A s, m, l : Told(Rule("i32_alu_cond", s, m, l))
       /\ \A s, m, l : Told(Rule("i32_alu_fop", s, m, l))
       /\ \A s, m, l : Told(Rule("i32_ftrunc", s, m, l))
    BY <1>8, OtherRules, Zenon
<1>11. /\ \A s, m, l : Told(Rule("i32_floor", s, m, l))
       /\ \A s, m, l : Told(Rule("i32_flts", s, m, l))
       /\ \A s, m, l : Told(Rule("i32_fltu", s, m, l))
    BY <1>8, OtherRules, Zenon
<1>12. Told(Chain32[1]) /\ Told(Chain32[2]) /\ Told(Chain32[3])
    BY <1>1, <1>2, <1>3, SMT DEF Chain32
<1>13. Told(Chain32[4]) /\ Told(Chain32[5]) /\ Told(Chain32[6])
    BY <1>9, SMT DEF Chain32
<1>14. Told(Chain32[7]) /\ Told(Chain32[8]) /\ Told(Chain32[9])
    BY <1>4, <1>5, <1>6, SMT DEF Chain32
<1>15. Told(Chain32[10]) /\ Told(Chain32[11]) /\ Told(Chain32[12])
    BY <1>10, SMT DEF Chain32
<1>16. Told(Chain32[13]) /\ Told(Chain32[14]) /\ Told(Chain32[15])
    BY <1>11, SMT DEF Chain32
<1>17. Told(Chain32[16])
    BY <1>7, SMT DEF Chain32
<1> QED
    BY <1>12, <1>13, <1>14, <1>15, <1>16, <1>17, SMT

LEMMA Told48 == \A k \in 1..6 : Told(Chain48[k])
<1>1. Told(FirstWordRule("i48_alu_op", \hE800..\hEBFF))
    BY SMT DEF FirstWordRule, Rule, Told, Matches, LosslessWords
<1>2. Told(FirstWordRule("i48_alu_add", \hEC00..\hEFFF))
    BY SMT DEF FirstWordRule, Rule, Told, Matches, LosslessWords
<1>3. /\ "i48_data_vop" \notin Lossless /\ "i48_b" \notin Lossless
      /\ "i48_add_pc_rel" \notin Lossless /\ "i48_add_ld_st" \notin Lossless
    BY SMT DEF Lossless, NoEntry
<1>4. /\ \A s : Told(FirstWordRule("i48_data_vop", s))
      /\ \A s : Told(FirstWordRule("i48_b", s))
      /\ \A s : Told(FirstWordRule("i48_add_pc_rel", s))
    BY <1>3, OtherRules, Zenon
<1>5. \A s : Told(FirstWordRule("i48_add_ld_st", s))
    BY <1>3, OtherRules, Zenon
<1>6. Told(Chain48[1]) /\ Told(Chain48[2]) /\ Told(Chain48[3])
    BY <1>4, SMT DEF Chain48
<1>7. Told(Chain48[4]) /\ Told(Chain48[5]) /\ Told(Chain48[6])
    BY <1>1, <1>2, <1>5, SMT DEF Chain48
<1> QED
    BY <1>6, <1>7, SMT

LEMMA Told80 == \A k \in 1..2 : Told(Chain80[k])
<1>1. "i80_mem_op" \notin Lossless /\ "i80_data_op" \notin Lossless
    BY SMT DEF Lossless, NoEntry
<1>2. /\ \A s : Told(FirstWordRule("i80_mem_op", s))
      /\ \A s : Told(FirstWordRule("i80_data_op", s))
    BY <1>1, OtherRules, Zenon
<1>3. Told(Chain80[1]) /\ Told(Chain80[2])
    BY <1>2, SMT DEF Chain80
<1> QED
    BY <1>3, SMT

\* Whatever entry the decoder answers, the words are those of its rule.
LEMMA EntrySays ==
    ASSUME NEW i
    PROVE  LosslessWords(vc4_decode_instr(i), i[0], i[1])
<1> DEFINE c == ChainOf(DecodedSize(i[0]))
           I == Matching(c, i[0], i[1])
<1>1. Len(c) \in Nat /\ \A k \in 1..Len(c) : Told(c[k])
    <2> DEFINE size == DecodedSize(i[0])
    <2>1. size \in {2, 4, 6, 10}
        BY SizeCases
    <2>2. /\ size = 2 => ChainOf(size) = Chain16
          /\ size = 4 => ChainOf(size) = Chain32
          /\ size = 6 => ChainOf(size) = Chain48
          /\ size = 10 => ChainOf(size) = Chain80
        BY DEF ChainOf
    <2>3. Len(Chain16) = 22 /\ Len(Chain32) = 16 /\ Len(Chain48) = 6 /\ Len(Chain80) = 2
        BY DEF Chain16, Chain32, Chain48, Chain80
    <2> HIDE DEF size
    <2>4. Len(ChainOf(size)) \in Nat /\ \A k \in 1..Len(ChainOf(size)) : Told(ChainOf(size)[k])
        <3>1. CASE size = 2
            BY <2>2, <2>3, <3>1, Told16, SMTT(30)
        <3>2. CASE size = 4
            BY <2>2, <2>3, <3>2, Told32, SMTT(30)
        <3>3. CASE size = 6
            BY <2>2, <2>3, <3>3, Told48, SMT
        <3>4. CASE size = 10
            BY <2>2, <2>3, <3>4, Told80, SMT
        <3> QED
            BY <2>1, <3>1, <3>2, <3>3, <3>4, Zenon
    <2> QED
        BY <2>4 DEF size
<1>2. vc4_decode_instr(i) = FirstMatch(c, i[0], i[1])
    BY Zenon DEF vc4_decode_instr
<1> HIDE DEF c
<1>3. CASE I = {}
    <2>1. vc4_decode_instr(i) = NoEntry
        BY <1>1, <1>2, <1>3, FirstMatchByRules, Zenon
    <2> QED
        BY <2>1, SMT DEF NoEntry, LosslessWords
<1>4. CASE I # {}
    <2>1. Min(I) \in 1..Len(c) /\ vc4_decode_instr(i) = c[Min(I)].entry
        BY <1>1, <1>2, <1>4, FirstMatchByRules
    <2>2. I \in SUBSET Nat
        BY SMT DEF Matching
    <2>3. Min(I) \in I
        BY <1>4, <2>2, MinIsMember
    <2>4. Matches(c[Min(I)], i[0], i[1])
        BY <2>3, Zenon DEF Matching
    <2> HIDE DEF I
    <2> QED
        BY <1>1, <2>1, <2>4, Zenon DEF Told
<1> QED
    BY <1>3, <1>4

-----------------------------------------------------------------------------
(***************************************************************************)
(* Fields: the numbers that are printed of them lose nothing.              *)
(***************************************************************************)
\* What a halfword is, without its range.
LEMMA HalfwordBound == \A x \in Halfword : x \in Nat /\ x < 65536
BY SMT DEF Halfword

\* A second word is put together from the fields of its printer.
LEMMA SecondFields ==
    /\ \A x \in Halfword :
          x = 16384 * bf_extract(x, 14, 2) + 1024 * bf_extract(x, 10, 4) + bf_extract(x, 0, 10)
    /\ \A x \in Halfword :
          x = 16384 * bf_extract(x, 14, 2) + 256 * bf_extract(x, 8, 6) + bf_extract(x, 0, 8)
    /\ \A x \in Halfword : bf_extract(x % 128, 5, 2) = 0 =>
          x = 2048 * bf_extract(x, 11, 5) + 128 * bf_extract(x, 7, 4) + bf_extract(x, 0, 5)
    /\ \A x \in Halfword : x % 65536 \in 0..31 => x = bf_extract(x, 0, 5)
<1> DEFINE Offset10(x) ==
               x = 16384 * bf_extract(x, 14, 2) + 1024 * bf_extract(x, 10, 4) + bf_extract(x, 0, 10)
           Offset8(x) ==
               x = 16384 * bf_extract(x, 14, 2) + 256 * bf_extract(x, 8, 6) + bf_extract(x, 0, 8)
           Indexed(x) == bf_extract(x % 128, 5, 2) = 0 =>
               x = 2048 * bf_extract(x, 11, 5) + 128 * bf_extract(x, 7, 4) + bf_extract(x, 0, 5)
           Short(x) == x % 65536 \in 0..31 => x = bf_extract(x, 0, 5)
           Small(x) == x < 65536
<1>1. ASSUME NEW x \in Nat, Small(x)
      PROVE  Offset10(x)
    BY <1>1, SMT DEF bf_extract
<1>2. ASSUME NEW x \in Nat, Small(x)
      PROVE  Offset8(x)
    BY <1>2, SMT DEF bf_extract
<1>3. ASSUME NEW x \in Nat, Small(x)
      PROVE  Indexed(x)
    BY <1>3, SMT DEF bf_extract
<1>4. ASSUME NEW x \in Nat, Small(x)
      PROVE  Short(x)
    BY <1>4, SMT DEF bf_extract
<1>5. \A x \in Halfword : x \in Nat /\ Small(x)
    BY HalfwordBound
<1> HIDE DEF Offset10, Offset8, Indexed, Short, Small
<1>6. \A x \in Halfword : Offset10(x) /\ Offset8(x) /\ Indexed(x) /\ Short(x)
    BY <1>1, <1>2, <1>3, <1>4, <1>5, Zenon
<1> QED
    BY <1>6, SMT DEF Offset10, Offset8, Indexed, Short

\* A number below the modulus is its own remainder.
LEMMA SmallMod ==
    ASSUME NEW x \in Nat, NEW m \in Nat \ {0}, x < m
    PROVE  x % m = x
BY SMT

\* The value of the constant, for the provers.
LEMMA Modulus32 == PcModulus = 2^32 => PcModulus = 4294967296
BY SMT

\* UInt and sign_extend lose nothing of a field.
LEMMA SignKept ==
    ASSUME PcModulus = 2^32
    PROVE  /\ \A x, y \in 0..(2^4 - 1) : sign_extend(x, 4) = sign_extend(y, 4) => x = y
           /\ \A x, y \in 0..(2^6 - 1) : UInt(4 * sign_extend(x, 6)) = UInt(4 * sign_extend(y, 6)) => x = y
           /\ \A x, y \in 0..(2^7 - 1) : UInt(2 * sign_extend(x, 7)) = UInt(2 * sign_extend(y, 7)) => x = y
           /\ \A x, y \in 0..(2^8 - 1) : UInt(2 * sign_extend(x, 8)) = UInt(2 * sign_extend(y, 8)) => x = y
           /\ \A x, y \in 0..(2^10 - 1) : UInt(2 * sign_extend(x, 10)) = UInt(2 * sign_extend(y, 10)) => x = y
           /\ \A x, y \in 0..(2^23 - 1) : UInt(2 * sign_extend(x, 23)) = UInt(2 * sign_extend(y, 23)) => x = y
           /\ \A x, y \in 0..(2^27 - 1) : UInt(2 * sign_extend(x, 27)) = UInt(2 * sign_extend(y, 27)) => x = y
           /\ \A x, y \in Halfword : sign_extend(x, 16) = sign_extend(y, 16) => x = y
           /\ \A x, y \in Halfword : print_abs_addr(sign_extend(x, 16)) = print_abs_addr(sign_extend(y, 16)) => x = y
<1>0. PcModulus = 4294967296
    BY Modulus32
<1>1. \A x, y \in 0..(2^4 - 1) : sign_extend(x, 4) = sign_extend(y, 4) => x = y
    BY <1>0, SMT DEF sign_extend
<1>2. \A x, y \in 0..(2^6 - 1) : UInt(4 * sign_extend(x, 6)) = UInt(4 * sign_extend(y, 6)) => x = y
    BY <1>0, SMT DEF UInt, sign_extend
<1>3. \A x, y \in 0..(2^7 - 1) : UInt(2 * sign_extend(x, 7)) = UInt(2 * sign_extend(y, 7)) => x = y
    BY <1>0, SMT DEF UInt, sign_extend
<1>4. \A x, y \in 0..(2^8 - 1) : UInt(2 * sign_extend(x, 8)) = UInt(2 * sign_extend(y, 8)) => x = y
    BY <1>0, SMT DEF UInt, sign_extend
<1>5. \A x, y \in 0..(2^10 - 1) : UInt(2 * sign_extend(x, 10)) = UInt(2 * sign_extend(y, 10)) => x = y
    BY <1>0, SMT DEF UInt, sign_extend
<1>6. \A x, y \in 0..(2^23 - 1) : UInt(2 * sign_extend(x, 23)) = UInt(2 * sign_extend(y, 23)) => x = y
    BY <1>0, SMT DEF UInt, sign_extend
<1>7. \A x, y \in 0..(2^27 - 1) : UInt(2 * sign_extend(x, 27)) = UInt(2 * sign_extend(y, 27)) => x = y
    BY <1>0, SMT DEF UInt, sign_extend
<1>8. \A x \in Halfword :
         sign_extend(x, 16) = IF x >= 32768 THEN x + 4294901760 ELSE x
    <2>1. \A x \in Halfword : x % 2^16 = x
        <3>1. \A x \in Halfword : x \in Nat /\ x < 2^16
            <4>1. 2^16 = 65536
                BY SMT
            <4> QED
                BY <4>1, HalfwordBound, SMTT(30)
        <3>2. 2^16 \in Nat \ {0}
            BY SMT
        <3> QED
            BY <3>1, <3>2, SmallMod
    <2>2. 2^(16 - 1) = 32768 /\ 4294967296 - 2^16 = 4294901760
        BY SMT
    <2> QED
        BY <1>0, <2>1, <2>2, SMT DEF sign_extend
<1>9. \A x, y \in Halfword : sign_extend(x, 16) = sign_extend(y, 16) => x = y
    BY <1>8, HalfwordIsNat
<1>10. \A x \in Halfword : print_abs_addr(sign_extend(x, 16)) = sign_extend(x, 16)
    <2>1. \A x \in Halfword : sign_extend(x, 16) \in Nat /\ sign_extend(x, 16) < 4294967296
        BY <1>8, HalfwordIsNat
    <2> QED
        BY <1>0, <2>1, SmallMod DEF print_abs_addr, UInt
<1>11. \A x, y \in Halfword :
         print_abs_addr(sign_extend(x, 16)) = print_abs_addr(sign_extend(y, 16)) => x = y
    BY <1>9, <1>10
<1> QED
    BY <1>1, <1>2, <1>3, <1>4, <1>5, <1>6, <1>7, <1>9, <1>11, ZenonT(60)

\* What fits in a field.
LEMMA FieldsAreNat ==
    ASSUME NEW w \in Nat
    PROVE  /\ bf_extract(w, 9, 4) \in Nat
           /\ bf_extract(w, 0, 5) \in 0..31 /\ bf_extract(w, 4, 5) \in 0..31
           /\ bf_extract(w, 5, 2) \in 0..3
           /\ bf_extract(w, 4, 4) \in 0..(2^4 - 1)
           /\ bf_extract(w, 5, 6) \in 0..(2^6 - 1)
           /\ bf_extract(w, 0, 7) \in 0..(2^7 - 1)
           /\ bf_extract(w, 0, 8) \in 0..(2^8 - 1)
           /\ bf_extract(w, 0, 10) \in 0..(2^10 - 1)
BY SMT DEF bf_extract

\* A five-bit immediate is the address it is printed as.
LEMMA SmallAddress ==
    \A k \in 0..31 : print_abs_addr(k) = k
<1>1. \A k \in 0..31 : k \in Nat /\ k < PcModulus
    BY ModulusIsNat, SMT
<1> QED
    BY <1>1, ModulusIsNat, SmallMod DEF print_abs_addr, UInt

\* The immediate form of i16_alu_op: the fields of nine bits and of four meet.
LEMMA ImmediateTold ==
    \A w, x, z, y :
      LosslessWords("i16_alu_op", w, x) /\ LosslessWords("i16_alu_op", z, y) /\
           Flag(w, 13) = Flag(z, 13) /\ bf_extract(w, 9, 4) = bf_extract(z, 9, 4) /\
           bf_extract(w, 4, 5) = bf_extract(z, 4, 5) /\ bf_extract(w, 0, 4) = bf_extract(z, 0, 4)
     => w = z
<1> DEFINE R == \h4000..\h7FFF
           T(a, b, c, d) == 16384 + 8192 * a + 512 * b + 16 * c + d
<1>1. \A w, x : LosslessWords("i16_alu_op", w, x) => w \in R
    BY SMT DEF LosslessWords
<1>2. ASSUME NEW w \in R
      PROVE  w = T(Flag(w, 13), bf_extract(w, 9, 4), bf_extract(w, 4, 5), bf_extract(w, 0, 4))
    <2>1. w = 512 * (w \div 512) + (w % 512)
        BY SMT
    <2>2. w % 512 = 16 * bf_extract(w, 4, 5) + bf_extract(w, 0, 4)
        BY SMT DEF bf_extract
    <2>3. w \div 512 = 32 + 16 * Flag(w, 13) + bf_extract(w, 9, 4)
        <3> DEFINE n == w \div 512
        <3>1. w \div 8192 = n \div 16
            BY SMT
        <3>2. n \in 32..63
            BY SMT
        <3>3. Flag(w, 13) = (n \div 16) % 2
            BY <3>1, SMT DEF bf_extract, Flag
        <3>4. bf_extract(w, 9, 4) = n % 16
            BY SMT DEF bf_extract
        <3> HIDE DEF n
        <3>5. n = 32 + 16 * ((n \div 16) % 2) + (n % 16)
            BY <3>2, SMT
        <3>6. n = 32 + 16 * Flag(w, 13) + bf_extract(w, 9, 4)
            BY <3>3, <3>4, <3>5, SMT
        <3> QED
            BY <3>6 DEF n
    <2>4. /\ Flag(w, 13) \in Int /\ bf_extract(w, 9, 4) \in Int /\ bf_extract(w, 4, 5) \in Int
          /\ bf_extract(w, 0, 4) \in Int /\ w \div 512 \in Int /\ w % 512 \in Int
        BY SMT DEF bf_extract, Flag
    <2> QED
        BY <2>1, <2>2, <2>3, <2>4, SMT
<1> HIDE DEF R, T
<1>3. SUFFICES ASSUME NEW w, NEW x, NEW z, NEW y,
           LosslessWords("i16_alu_op", w, x), LosslessWords("i16_alu_op", z, y),
           Flag(w, 13) = Flag(z, 13), bf_extract(w, 9, 4) = bf_extract(z, 9, 4),
           bf_extract(w, 4, 5) = bf_extract(z, 4, 5), bf_extract(w, 0, 4) = bf_extract(z, 0, 4)
      PROVE w = z
    BY Zenon
<1>4. w \in R /\ z \in R
    BY <1>1, <1>3, Zenon
<1> QED BY <1>2, <1>3, <1>4, Zenon

\* The offset of a branch is put together from two fields, or from three.
LowOffset(b, x) == b * 65536 + x
LongOffset(h, l) == h * 2^23 + l

\* The two forms stay in their ranges, and say what they were put together from.
LEMMA LowRange == \A b \in 0..127, x \in Halfword : LowOffset(b, x) \in 0..(2^23 - 1)
<1>1. ASSUME NEW b \in 0..127, NEW x \in Nat, x < 65536
      PROVE  b * 65536 + x \in 0..(2^23 - 1)
    BY <1>1, SMT
<1> QED
    BY <1>1, HalfwordBound DEF LowOffset

LEMMA LowTold ==
    \A b, c \in Nat, x, y \in Halfword : LowOffset(b, x) = LowOffset(c, y) => b = c /\ x = y
<1> DEFINE Small(x) == x < 65536
<1>1. ASSUME NEW b \in Nat, NEW c \in Nat, NEW x \in Nat, Small(x), NEW y \in Nat, Small(y),
             LowOffset(b, x) = LowOffset(c, y)
      PROVE  b = c /\ x = y
    BY <1>1, SMT DEF LowOffset
<1>2. \A x \in Halfword : x \in Nat /\ Small(x)
    BY HalfwordBound
<1> HIDE DEF Small
<1> QED
    BY <1>1, <1>2

LEMMA LongRange == \A h \in 0..15, l \in 0..(2^23 - 1) : LongOffset(h, l) \in 0..(2^27 - 1)
BY SMT DEF LongOffset

LEMMA LongTold ==
    \A h, k \in 0..15, l, m \in 0..(2^23 - 1) : LongOffset(h, l) = LongOffset(k, m) => h = k /\ l = m
BY SMT DEF LongOffset

\* Two halfwords are told from their sum, and from the address it is printed as.
LEMMA JoinKept ==
    ASSUME PcModulus = 2^32
    PROVE  /\ \A a, b, c, d \in Halfword : Join(a, b) = Join(c, d) => a = c /\ b = d
           /\ \A a, b, c, d \in Halfword :
                 print_abs_addr(Join(a, b)) = print_abs_addr(Join(c, d)) => a = c /\ b = d
<1>0. PcModulus = 4294967296
    BY Modulus32
<1>1. PcModulus \div 65536 = 65536
    BY <1>0, SMT
<1>2. \A h \in Halfword : h \in Nat /\ h < 65536
    BY SMT DEF Halfword
<1>3. \A h \in Halfword : h % 65536 = h
    BY <1>2, SmallMod
<1>4. \A a, b \in Halfword : Join(a, b) = a * 65536 + b
    BY <1>1, <1>3 DEF Join
<1>5. \A a, b, c, d \in Halfword : LowOffset(a, b) = LowOffset(c, d) => a = c /\ b = d
    BY HalfwordIsNat, LowTold
<1>6. \A a, b \in Halfword : a * 65536 + b \in Nat /\ a * 65536 + b < PcModulus
    BY <1>0, <1>2
<1>7. \A a, b \in Halfword : print_abs_addr(a * 65536 + b) = a * 65536 + b
    BY <1>6, SmallMod, ModulusIsNat DEF print_abs_addr, UInt
<1> DEFINE K(a, b) == LowOffset(a, b)
<1>8. /\ \A a, b \in Halfword : Join(a, b) = K(a, b)
      /\ \A a, b \in Halfword : print_abs_addr(K(a, b)) = K(a, b)
    BY <1>4, <1>7 DEF LowOffset
<1> HIDE DEF K
<1>9. ASSUME NEW a \in Halfword, NEW b \in Halfword, NEW c \in Halfword, NEW d \in Halfword
      PROVE  /\ Join(a, b) = Join(c, d) => a = c /\ b = d
             /\ print_abs_addr(Join(a, b)) = print_abs_addr(Join(c, d)) => a = c /\ b = d
    <2>1. Join(a, b) = K(a, b) /\ Join(c, d) = K(c, d)
        BY <1>8, Zenon
    <2>2. K(a, b) = K(c, d) => a = c /\ b = d
        BY <1>5 DEF K
    <2>3. print_abs_addr(K(a, b)) = K(a, b) /\ print_abs_addr(K(c, d)) = K(c, d)
        BY <1>8, Zenon
    <2> QED
        BY <2>1, <2>2, <2>3, Zenon
<1> QED
    BY <1>9, Zenon

-----------------------------------------------------------------------------
(***************************************************************************)
(* One lemma for each printer: equal texts are printed of equal words.     *)
(* Each says first how a word is put together from its fields, then which  *)
(* fields the text shows.                                                  *)
(***************************************************************************)
LEMMA Told_i16_swi ==
    \A u, v :
        /\ LosslessWords("i16_swi", u[0], u[1]) /\ LosslessWords("i16_swi", v[0], v[1])
        /\ i16_swi(u).ops = i16_swi(v).ops
        => u[0] = v[0]
<1> DEFINE S(a) == 32 + a
<1>1. \A w, x : LosslessWords("i16_swi", w, x) =>
          w = S(bf_extract(w, 0, 5))
    BY SMT DEF bf_extract, Flag, LosslessWords
<1> HIDE DEF S
<1>2. ASSUME NEW u, NEW v, i16_swi(u).ops = i16_swi(v).ops
      PROVE  /\ bf_extract(u[0], 0, 5) = bf_extract(v[0], 0, 5)
    BY <1>2, SMT DEF i16_swi, Plain, Line
<1> QED
    BY <1>1, <1>2, Zenon

LEMMA Told_i16_b ==
    \A u, v :
        /\ LosslessWords("i16_b", u[0], u[1]) /\ LosslessWords("i16_b", v[0], v[1])
        /\ i16_b(u).ops = i16_b(v).ops
        => u[0] = v[0]
<1> DEFINE S(a, b) == 64 + 32 * a + b
<1>1. \A w, x : LosslessWords("i16_b", w, x) =>
          w = S(Flag(w, 5), bf_extract(w, 0, 5))
    BY SMT DEF bf_extract, Flag, LosslessWords
<1> HIDE DEF S
<1>2. ASSUME NEW u, NEW v, i16_b(u).ops = i16_b(v).ops
      PROVE  /\ Flag(u[0], 5) = Flag(v[0], 5)
             /\ bf_extract(u[0], 0, 5) = bf_extract(v[0], 0, 5)
    BY <1>2, SMT DEF i16_b, Plain, Line
<1> QED
    BY <1>1, <1>2, Zenon

LEMMA Told_i16_switch ==
    \A u, v :
        /\ LosslessWords("i16_switch", u[0], u[1]) /\ LosslessWords("i16_switch", v[0], v[1])
        /\ i16_switch(u).ops = i16_switch(v).ops
        => u[0] = v[0]
<1> DEFINE S(a, b) == 128 + 32 * a + b
<1>1. \A w, x : LosslessWords("i16_switch", w, x) =>
          w = S(Flag(w, 5), bf_extract(w, 0, 4))
    BY SMT DEF bf_extract, Flag, LosslessWords
<1> HIDE DEF S
<1>2. ASSUME NEW u, NEW v, i16_switch(u).ops = i16_switch(v).ops
      PROVE  /\ Flag(u[0], 5) = Flag(v[0], 5)
             /\ bf_extract(u[0], 0, 4) = bf_extract(v[0], 0, 4)
    BY <1>2, SMT DEF i16_switch, Plain, Line
<1> QED
    BY <1>1, <1>2, Zenon

LEMMA Told_i16_version ==
    \A u, v :
        /\ LosslessWords("i16_version", u[0], u[1]) /\ LosslessWords("i16_version", v[0], v[1])
        /\ i16_version(u).ops = i16_version(v).ops
        => u[0] = v[0]
<1> DEFINE S(a) == 224 + a
<1>1. \A w, x : LosslessWords("i16_version", w, x) =>
          w = S(bf_extract(w, 0, 5))
    BY SMT DEF bf_extract, Flag, LosslessWords
<1> HIDE DEF S
<1>2. ASSUME NEW u, NEW v, i16_version(u).ops = i16_version(v).ops
      PROVE  /\ bf_extract(u[0], 0, 5) = bf_extract(v[0], 0, 5)
    BY <1>2, SMT DEF i16_version, Plain, Line
<1> QED
    BY <1>1, <1>2, Zenon

LEMMA Told_i16_swi_u ==
    \A u, v :
        /\ LosslessWords("i16_swi_u", u[0], u[1]) /\ LosslessWords("i16_swi_u", v[0], v[1])
        /\ i16_swi_u(u).ops = i16_swi_u(v).ops
        => u[0] = v[0]
<1> DEFINE S(a) == 416 + a
<1>1. \A w, x : LosslessWords("i16_swi_u", w, x) =>
          w = S(32 + bf_extract(w, 0, 6))
    BY SMT DEF bf_extract, Flag, LosslessWords
<1> HIDE DEF S
<1>2. ASSUME NEW u, NEW v, i16_swi_u(u).ops = i16_swi_u(v).ops
      PROVE  /\ 32 + bf_extract(u[0], 0, 6) = 32 + bf_extract(v[0], 0, 6)
    BY <1>2, SMT DEF i16_swi_u, Plain, Line
<1> QED
    BY <1>1, <1>2, Zenon

LEMMA Told_i16_ld_st_sp ==
    \A u, v :
        /\ LosslessWords("i16_ld_st_sp", u[0], u[1]) /\ LosslessWords("i16_ld_st_sp", v[0], v[1])
        /\ i16_ld_st_sp(u).ops = i16_ld_st_sp(v).ops
        => u[0] = v[0]
<1> DEFINE S(a, b, c) == 1024 + 512 * a + b + 4 * c
<1>1. \A w, x : LosslessWords("i16_ld_st_sp", w, x) =>
          w = S(Flag(w, 9), bf_extract(w, 0, 4), 4 * bf_extract(w, 4, 5))
    BY SMT DEF bf_extract, Flag, LosslessWords
<1> HIDE DEF S
<1>2. ASSUME NEW u, NEW v, i16_ld_st_sp(u).ops = i16_ld_st_sp(v).ops
      PROVE  /\ Flag(u[0], 9) = Flag(v[0], 9)
             /\ bf_extract(u[0], 0, 4) = bf_extract(v[0], 0, 4)
             /\ 4 * bf_extract(u[0], 4, 5) = 4 * bf_extract(v[0], 4, 5)
    BY <1>2, SMT DEF i16_ld_st_sp, Plain, Line
<1> QED
    BY <1>1, <1>2, ZenonT(30)

LEMMA Told_i16_ld_st ==
    \A u, v :
        /\ LosslessWords("i16_ld_st", u[0], u[1]) /\ LosslessWords("i16_ld_st", v[0], v[1])
        /\ i16_ld_st(u).ops = i16_ld_st(v).ops
        => u[0] = v[0]
<1> DEFINE S(a, b, c, d) == 8192 + 4096 * a + 64 * b + 16 * c + d
<1>1. \A w, x : LosslessWords("i16_ld_st", w, x) =>
          w = S(Flag(w, 12), 4 * bf_extract(w, 8, 4), bf_extract(w, 4, 4), bf_extract(w, 0, 4))
    <2> DEFINE R == \h2000..\h3FFF
    <2>1. \A w \in R : w = S(Flag(w, 12), 4 * bf_extract(w, 8, 4), bf_extract(w, 4, 4), bf_extract(w, 0, 4))
        BY SMT DEF bf_extract, Flag
    <2>2. \A w, x : LosslessWords("i16_ld_st", w, x) => w \in R
        BY SMT DEF LosslessWords
    <2> HIDE DEF R, S
    <2> QED
        BY <2>1, <2>2, Zenon
<1> HIDE DEF S
<1>2. ASSUME NEW u, NEW v, i16_ld_st(u).ops = i16_ld_st(v).ops
      PROVE  /\ Flag(u[0], 12) = Flag(v[0], 12)
             /\ 4 * bf_extract(u[0], 8, 4) = 4 * bf_extract(v[0], 8, 4)
             /\ bf_extract(u[0], 4, 4) = bf_extract(v[0], 4, 4)
             /\ bf_extract(u[0], 0, 4) = bf_extract(v[0], 0, 4)
    BY <1>2, SMT DEF i16_ld_st, Plain, Line
<1>3. SUFFICES ASSUME NEW u, NEW v, LosslessWords("i16_ld_st", u[0], u[1]),
                    LosslessWords("i16_ld_st", v[0], v[1]), i16_ld_st(u).ops = i16_ld_st(v).ops
             PROVE  u[0] = v[0]
    OBVIOUS
<1>4. Flag(u[0], 12) = Flag(v[0], 12) /\ 4 * bf_extract(u[0], 8, 4) = 4 * bf_extract(v[0], 8, 4)
    BY <1>2, <1>3, Zenon
<1>5. bf_extract(u[0], 4, 4) = bf_extract(v[0], 4, 4) /\ bf_extract(u[0], 0, 4) = bf_extract(v[0], 0, 4)
    BY <1>2, <1>3, Zenon
<1> QED
    BY <1>1, <1>3, <1>4, <1>5, Zenon

LEMMA Told_i16_ldm_stm ==
    \A u, v :
        /\ LosslessWords("i16_ldm_stm", u[0], u[1]) /\ LosslessWords("i16_ldm_stm", v[0], v[1])
        /\ i16_ldm_stm(u).ops = i16_ldm_stm(v).ops
        => u[0] = v[0]
<1> DEFINE S(a, b, c, d) == 512 + 256 * a + 128 * b + 32 * c + d
           N(k) == <<0, 6, 16, 24>>[k + 1]
           W(k, n) == (N(k) + n) % 32
           D == 0..31
<1>1. \A w, x : LosslessWords("i16_ldm_stm", w, x) => w \in Nat
    BY SMT DEF LosslessWords
<1>2. \A w, x : LosslessWords("i16_ldm_stm", w, x) =>
          w = S(Flag(w, 8), Flag(w, 7), bf_extract(w, 5, 2), bf_extract(w, 0, 5))
    BY SMT DEF bf_extract, Flag, LosslessWords
<1>3. ASSUME NEW u, NEW v, i16_ldm_stm(u).ops = i16_ldm_stm(v).ops
      PROVE  /\ Flag(u[0], 8) = Flag(v[0], 8)
             /\ Flag(u[0], 7) = Flag(v[0], 7)
             /\ N(bf_extract(u[0], 5, 2)) = N(bf_extract(v[0], 5, 2))
             /\ W(bf_extract(u[0], 5, 2), bf_extract(u[0], 0, 5))
                  = W(bf_extract(v[0], 5, 2), bf_extract(v[0], 0, 5))
    BY <1>3, SMT DEF i16_ldm_stm, Plain, Line
<1>4. \A k, m \in 0..3 : N(k) = N(m) => k = m
    BY SMT
<1>5. \A k \in 0..3 : \A m, n \in D : W(k, m) = W(k, n) => m = n
    <2>1. \A r \in {0, 6, 16, 24}, m, n \in D : (r + m) % 32 = (r + n) % 32 => m = n
        BY SMT
    <2>2. \A k \in 0..3 : N(k) \in {0, 6, 16, 24}
        BY SMT
    <2> HIDE DEF N
    <2> QED
        BY <2>1, <2>2, Zenon
<1>6. \A w \in Nat : bf_extract(w, 5, 2) \in 0..3 /\ bf_extract(w, 0, 5) \in D
    BY FieldsAreNat
<1> HIDE DEF S, N, W, D
<1>7. SUFFICES ASSUME NEW u, NEW v, LosslessWords("i16_ldm_stm", u[0], u[1]),
                    LosslessWords("i16_ldm_stm", v[0], v[1]),
                    i16_ldm_stm(u).ops = i16_ldm_stm(v).ops
             PROVE  u[0] = v[0]
    OBVIOUS
<1>8. u[0] \in Nat /\ v[0] \in Nat
    BY <1>1, <1>7, Zenon
<1>9. bf_extract(u[0], 5, 2) = bf_extract(v[0], 5, 2)
    BY <1>3, <1>4, <1>6, <1>7, <1>8, Zenon
<1>10. bf_extract(u[0], 0, 5) = bf_extract(v[0], 0, 5)
    <2>1. W(bf_extract(u[0], 5, 2), bf_extract(u[0], 0, 5))
            = W(bf_extract(u[0], 5, 2), bf_extract(v[0], 0, 5))
        BY <1>3, <1>7, <1>9, Zenon
    <2>2. /\ bf_extract(u[0], 5, 2) \in 0..3
          /\ bf_extract(u[0], 0, 5) \in D /\ bf_extract(v[0], 0, 5) \in D
        BY <1>6, <1>8, Zenon
    <2> QED
        BY <1>5, <2>1, <2>2, Zenon
<1> QED
    BY <1>2, <1>3, <1>7, <1>9, <1>10, ZenonT(30)

LEMMA Told_i16_add_sp ==
    PcModulus = 2^32 =>
    \A u, v :
        /\ LosslessWords("i16_add_sp", u[0], u[1]) /\ LosslessWords("i16_add_sp", v[0], v[1])
        /\ i16_add_sp(u).ops = i16_add_sp(v).ops
        => u[0] = v[0]
<1> DEFINE R == 0..(2^6 - 1)
           S(a, b) == 4096 + a + 32 * b
           O(k) == UInt(4 * sign_extend(k, 6))
<1>1. \A w, x : LosslessWords("i16_add_sp", w, x) => w \in Nat
    BY SMT DEF LosslessWords
<1>2. \A w, x : LosslessWords("i16_add_sp", w, x) =>
          w = S(bf_extract(w, 0, 5), bf_extract(w, 5, 6))
    BY SMT DEF bf_extract, Flag, LosslessWords
<1>3. ASSUME NEW u, NEW v, i16_add_sp(u).ops = i16_add_sp(v).ops
      PROVE  /\ bf_extract(u[0], 0, 5) = bf_extract(v[0], 0, 5)
             /\ O(bf_extract(u[0], 5, 6)) = O(bf_extract(v[0], 5, 6))
    BY <1>3, SMT DEF i16_add_sp, Plain, Line
<1>4. PcModulus = 2^32 => \A k, m \in R : O(k) = O(m) => k = m
    BY SignKept
<1>5. \A w \in Nat : bf_extract(w, 5, 6) \in R
    BY FieldsAreNat
<1> HIDE DEF R, S, O
<1>6. SUFFICES ASSUME PcModulus = 2^32, NEW u, NEW v,
                    LosslessWords("i16_add_sp", u[0], u[1]),
                    LosslessWords("i16_add_sp", v[0], v[1]),
                    i16_add_sp(u).ops = i16_add_sp(v).ops
             PROVE  u[0] = v[0]
    OBVIOUS
<1>7. bf_extract(u[0], 5, 6) \in R /\ bf_extract(v[0], 5, 6) \in R
    BY <1>1, <1>5, <1>6, Zenon
<1>8. O(bf_extract(u[0], 5, 6)) = O(bf_extract(v[0], 5, 6))
    BY <1>3, <1>6, Zenon
<1>9. bf_extract(u[0], 5, 6) = bf_extract(v[0], 5, 6)
    BY <1>4, <1>6, <1>7, <1>8, Zenon
<1> QED
    BY <1>2, <1>3, <1>6, <1>9, Zenon

LEMMA Told_i16_b_cond ==
    PcModulus = 2^32 =>
    \A u, v, p, q :
        /\ LosslessWords("i16_b_cond", u[0], u[1]) /\ LosslessWords("i16_b_cond", v[0], v[1])
        /\ i16_b_cond(u, p).ops = i16_b_cond(v, q).ops
        => u[0] = v[0]
<1> DEFINE R == 0..(2^7 - 1)
           S(a, b) == 6144 + 128 * a + b
           O(k) == UInt(2 * sign_extend(k, 7))
<1>1. \A w, x : LosslessWords("i16_b_cond", w, x) => w \in Nat
    BY SMT DEF LosslessWords
<1>2. \A w, x : LosslessWords("i16_b_cond", w, x) =>
          w = S(bf_extract(w, 7, 4), bf_extract(w, 0, 7))
    BY SMT DEF bf_extract, Flag, LosslessWords
<1>3. ASSUME NEW u, NEW v, NEW p, NEW q, i16_b_cond(u, p).ops = i16_b_cond(v, q).ops
      PROVE  /\ bf_extract(u[0], 7, 4) = bf_extract(v[0], 7, 4)
             /\ O(bf_extract(u[0], 0, 7)) = O(bf_extract(v[0], 0, 7))
    BY <1>3, SMT DEF i16_b_cond, Line
<1>4. PcModulus = 2^32 => \A k, m \in R : O(k) = O(m) => k = m
    BY SignKept
<1>5. \A w \in Nat : bf_extract(w, 0, 7) \in R
    BY FieldsAreNat
<1> HIDE DEF R, S, O
<1>6. SUFFICES ASSUME PcModulus = 2^32, NEW u, NEW v, NEW p, NEW q,
                    LosslessWords("i16_b_cond", u[0], u[1]),
                    LosslessWords("i16_b_cond", v[0], v[1]),
                    i16_b_cond(u, p).ops = i16_b_cond(v, q).ops
             PROVE  u[0] = v[0]
    OBVIOUS
<1>7. bf_extract(u[0], 0, 7) \in R /\ bf_extract(v[0], 0, 7) \in R
    BY <1>1, <1>5, <1>6, Zenon
<1>8. O(bf_extract(u[0], 0, 7)) = O(bf_extract(v[0], 0, 7))
    BY <1>3, <1>6, Zenon
<1>9. bf_extract(u[0], 0, 7) = bf_extract(v[0], 0, 7)
    BY <1>4, <1>6, <1>7, <1>8, Zenon
<1>10. bf_extract(u[0], 7, 4) = bf_extract(v[0], 7, 4)
    BY <1>3, <1>6, Zenon
<1> QED
    BY <1>2, <1>6, <1>9, <1>10, Zenon

LEMMA Told_i16_alu_op ==
    \A u, v :
        /\ LosslessWords("i16_alu_op", u[0], u[1]) /\ LosslessWords("i16_alu_op", v[0], v[1])
        /\ i16_alu_op(u).ops = i16_alu_op(v).ops
        /\ i16_alu_op(u).addrs = i16_alu_op(v).addrs
        => u[0] = v[0]
<1> DEFINE R == \h4000..\h7FFF
           S(a, b, c, d) == 16384 + 8192 * a + 256 * b + 16 * c + d
           N(k) == 2 * k
           imm(i) == Flag(i[0], 13) = 1
<1>1. \A w \in R : w \in Nat
    BY SMT
<1>2. \A w, x : LosslessWords("i16_alu_op", w, x) => w \in R
    BY SMT DEF LosslessWords
<1>3. \A w \in R : w = S(Flag(w, 13), bf_extract(w, 8, 5), bf_extract(w, 4, 4), bf_extract(w, 0, 4))
    BY SMT DEF bf_extract, Flag
<1>4. ASSUME NEW u, NEW v, i16_alu_op(u).ops = i16_alu_op(v).ops, imm(u), imm(v),
             i16_alu_op(u).addrs = i16_alu_op(v).addrs
      PROVE  /\ N(bf_extract(u[0], 9, 4)) = N(bf_extract(v[0], 9, 4))
             /\ print_abs_addr(bf_extract(u[0], 4, 5)) = print_abs_addr(bf_extract(v[0], 4, 5))
             /\ bf_extract(u[0], 0, 4) = bf_extract(v[0], 0, 4)
    BY <1>4, SMT DEF i16_alu_op, Line
<1>5. ASSUME NEW u, NEW v, i16_alu_op(u).ops = i16_alu_op(v).ops, ~imm(u), ~imm(v)
      PROVE  /\ bf_extract(u[0], 8, 5) = bf_extract(v[0], 8, 5)
             /\ bf_extract(u[0], 4, 4) = bf_extract(v[0], 4, 4)
             /\ bf_extract(u[0], 0, 4) = bf_extract(v[0], 0, 4)
    BY <1>5, SMT DEF i16_alu_op, Line
<1>6. ASSUME NEW u, NEW v, i16_alu_op(u).ops = i16_alu_op(v).ops
      PROVE  imm(u) <=> imm(v)
    BY <1>6, SMT DEF i16_alu_op, Line
<1>7. \A k, m \in Nat : N(k) = N(m) => k = m
    BY SMT
<1>8. \A k, m \in 0..31 : print_abs_addr(k) = print_abs_addr(m) => k = m
    BY SmallAddress, Zenon
<1>9. \A w \in Nat : bf_extract(w, 9, 4) \in Nat /\ bf_extract(w, 4, 5) \in 0..31
    BY FieldsAreNat
<1>10. \A w, x \in R : Flag(w, 13) # 1 /\ Flag(x, 13) # 1 => Flag(w, 13) = Flag(x, 13)
    BY SMT DEF Flag, bf_extract
<1> HIDE DEF R, S, N
<1>11. SUFFICES ASSUME NEW u, NEW v, LosslessWords("i16_alu_op", u[0], u[1]),
                    LosslessWords("i16_alu_op", v[0], v[1]),
                    i16_alu_op(u).ops = i16_alu_op(v).ops,
                    i16_alu_op(u).addrs = i16_alu_op(v).addrs
             PROVE  u[0] = v[0]
    OBVIOUS
<1>12. u[0] \in R /\ v[0] \in R
    BY <1>2, <1>11, Zenon
<1>13. imm(u) <=> imm(v)
    BY <1>11, <1>6, Zenon
<1>14. CASE imm(u)
    <2>1. imm(v) /\ Flag(v[0], 13) = Flag(u[0], 13)
        BY <1>13, <1>14, Zenon
    <2>2. u[0] \in Nat /\ v[0] \in Nat
        BY <1>1, <1>12, Zenon
    <2>3. /\ N(bf_extract(u[0], 9, 4)) = N(bf_extract(v[0], 9, 4))
          /\ print_abs_addr(bf_extract(u[0], 4, 5)) = print_abs_addr(bf_extract(v[0], 4, 5))
          /\ bf_extract(u[0], 0, 4) = bf_extract(v[0], 0, 4)
        BY <1>11, <1>4, <1>14, <2>1, Zenon
    <2>4. bf_extract(u[0], 9, 4) = bf_extract(v[0], 9, 4)
        BY <1>7, <1>9, <2>2, <2>3, Zenon
    <2>5. bf_extract(u[0], 4, 5) = bf_extract(v[0], 4, 5)
        BY <1>8, <1>9, <2>2, <2>3
    <2> QED
        BY <1>11, <2>1, <2>3, <2>4, <2>5, ImmediateTold, Zenon
<1>15. CASE ~imm(u)
    <2>1. ~imm(v)
        BY <1>13, <1>15, Zenon
    <2>2. Flag(v[0], 13) = Flag(u[0], 13)
        BY <1>10, <1>15, <1>12, <2>1, Zenon
    <2>3. /\ bf_extract(u[0], 8, 5) = bf_extract(v[0], 8, 5)
          /\ bf_extract(u[0], 4, 4) = bf_extract(v[0], 4, 4)
          /\ bf_extract(u[0], 0, 4) = bf_extract(v[0], 0, 4)
        BY <1>11, <1>5, <1>15, <2>1, Zenon
    <2> QED
        BY <1>3, <1>12, <2>2, <2>3, Zenon
<1> QED
    BY <1>14, <1>15

LEMMA Told_i32_addcmpb ==
    PcModulus = 2^32 =>
    \A u, v, p, q :
        /\ LosslessWords("i32_addcmpb", u[0], u[1]) /\ LosslessWords("i32_addcmpb", v[0], v[1])
        /\ u[0] \in Halfword /\ v[0] \in Halfword /\ u[1] \in Halfword /\ v[1] \in Halfword
        /\ i32_addcmpb(u, p).ops = i32_addcmpb(v, q).ops
        => u[0] = v[0] /\ u[1] = v[1]
<1> DEFINE R4 == 0..(2^4 - 1)
           R8 == 0..(2^8 - 1)
           R10 == 0..(2^10 - 1)
           S(a, b, c) == 32768 + 256 * a + 16 * b + c
           T(a, b, c) == 16384 * a + 1024 * b + c
           U(a, b, c) == 16384 * a + 256 * b + c
           N(k) == sign_extend(k, 4)
           O8(k) == UInt(2 * sign_extend(k, 8))
           O10(k) == UInt(2 * sign_extend(k, 10))
           mode(i) == bf_extract(i[1], 14, 2)
           plain(i) == mode(i) % 2 = 0
           short(i) == mode(i) < 2
<1>1. \A h \in Halfword : h \in Nat
    BY HalfwordIsNat
<1>2. \A w, x : LosslessWords("i32_addcmpb", w, x) =>
          w = S(bf_extract(w, 8, 4), bf_extract(w, 4, 4), bf_extract(w, 0, 4))
    BY SMTT(30) DEF bf_extract, LosslessWords
<1>3. /\ \A x \in Halfword : x = T(bf_extract(x, 14, 2), bf_extract(x, 10, 4), bf_extract(x, 0, 10))
      /\ \A x \in Halfword : x = U(bf_extract(x, 14, 2), bf_extract(x, 8, 6), bf_extract(x, 0, 8))
    BY SecondFields
<1>4. ASSUME NEW u, NEW v, NEW p, NEW q, i32_addcmpb(u, p).ops = i32_addcmpb(v, q).ops
      PROVE  /\ mode(u) = mode(v)
             /\ bf_extract(u[0], 8, 4) = bf_extract(v[0], 8, 4)
             /\ bf_extract(u[0], 0, 4) = bf_extract(v[0], 0, 4)
    BY <1>4, SMT DEF i32_addcmpb, Line
<1>5. ASSUME NEW u, NEW v, NEW p, NEW q, i32_addcmpb(u, p).ops = i32_addcmpb(v, q).ops,
             plain(u), plain(v)
      PROVE  bf_extract(u[0], 4, 4) = bf_extract(v[0], 4, 4)
    BY <1>5, SMT DEF i32_addcmpb, Line
<1>6. ASSUME NEW u, NEW v, NEW p, NEW q, i32_addcmpb(u, p).ops = i32_addcmpb(v, q).ops,
             ~plain(u), ~plain(v)
      PROVE  N(bf_extract(u[0], 4, 4)) = N(bf_extract(v[0], 4, 4))
    BY <1>6, SMT DEF i32_addcmpb, Line
<1>7. ASSUME NEW u, NEW v, NEW p, NEW q, i32_addcmpb(u, p).ops = i32_addcmpb(v, q).ops,
             short(u), short(v)
      PROVE  /\ bf_extract(u[1], 10, 4) = bf_extract(v[1], 10, 4)
             /\ O10(bf_extract(u[1], 0, 10)) = O10(bf_extract(v[1], 0, 10))
    BY <1>7, SMT DEF i32_addcmpb, Line
<1>8. ASSUME NEW u, NEW v, NEW p, NEW q, i32_addcmpb(u, p).ops = i32_addcmpb(v, q).ops,
             ~short(u), ~short(v)
      PROVE  /\ bf_extract(u[1], 8, 6) = bf_extract(v[1], 8, 6)
             /\ O8(bf_extract(u[1], 0, 8)) = O8(bf_extract(v[1], 0, 8))
    BY <1>8, SMT DEF i32_addcmpb, Line
<1>9. PcModulus = 2^32 => /\ \A k, m \in R4 : N(k) = N(m) => k = m
                          /\ \A k, m \in R8 : O8(k) = O8(m) => k = m
                          /\ \A k, m \in R10 : O10(k) = O10(m) => k = m
    BY SignKept
<1>10. \A w \in Nat : /\ bf_extract(w, 4, 4) \in R4 /\ bf_extract(w, 0, 8) \in R8
                     /\ bf_extract(w, 0, 10) \in R10
    BY FieldsAreNat
<1>11. SUFFICES ASSUME PcModulus = 2^32, NEW u, NEW v, NEW p, NEW q,
                    LosslessWords("i32_addcmpb", u[0], u[1]),
                    LosslessWords("i32_addcmpb", v[0], v[1]),
                    u[0] \in Halfword, v[0] \in Halfword, u[1] \in Halfword, v[1] \in Halfword,
                    i32_addcmpb(u, p).ops = i32_addcmpb(v, q).ops
             PROVE  u[0] = v[0] /\ u[1] = v[1]
    OBVIOUS
<1>12. u[0] \in Nat /\ v[0] \in Nat /\ u[1] \in Nat /\ v[1] \in Nat
    BY <1>1, <1>11, Zenon
<1>13. (plain(u) <=> plain(v)) /\ (short(u) <=> short(v))
    BY <1>4, <1>11, Zenon
<1>14. mode(u) = mode(v)
    BY <1>4, <1>11, Zenon
<1> HIDE DEF R4, R8, R10, S, T, U, N, O8, O10, plain, short
<1>15. bf_extract(u[0], 4, 4) = bf_extract(v[0], 4, 4)
    <2>1. CASE plain(u)
        BY <1>5, <1>11, <1>13, <2>1, Zenon
    <2>2. CASE ~plain(u)
        <3>1. N(bf_extract(u[0], 4, 4)) = N(bf_extract(v[0], 4, 4))
            BY <1>6, <1>11, <1>13, <2>2, Zenon
        <3> QED
            BY <1>9, <1>10, <1>11, <1>12, <3>1, Zenon
    <2> QED
        BY <2>1, <2>2
<1>16. u[0] = v[0]
    <2>1. bf_extract(u[0], 8, 4) = bf_extract(v[0], 8, 4) /\ bf_extract(u[0], 0, 4) = bf_extract(v[0], 0, 4)
        BY <1>4, <1>11, Zenon
    <2> QED
        BY <1>2, <1>11, <1>15, <2>1, Zenon
<1>17. CASE short(u)
    <2>1. /\ bf_extract(u[1], 10, 4) = bf_extract(v[1], 10, 4)
          /\ O10(bf_extract(u[1], 0, 10)) = O10(bf_extract(v[1], 0, 10))
        BY <1>7, <1>11, <1>13, <1>17, Zenon
    <2>2. bf_extract(u[1], 0, 10) = bf_extract(v[1], 0, 10)
        BY <1>9, <1>10, <1>11, <1>12, <2>1, Zenon
    <2>3. /\ u[1] = T(bf_extract(u[1], 14, 2), bf_extract(u[1], 10, 4), bf_extract(u[1], 0, 10))
          /\ v[1] = T(bf_extract(v[1], 14, 2), bf_extract(v[1], 10, 4), bf_extract(v[1], 0, 10))
        BY <1>3, <1>11
    <2> QED
        BY <1>14, <1>16, <2>1, <2>2, <2>3, Zenon
<1>18. CASE ~short(u)
    <2>1. /\ bf_extract(u[1], 8, 6) = bf_extract(v[1], 8, 6)
          /\ O8(bf_extract(u[1], 0, 8)) = O8(bf_extract(v[1], 0, 8))
        BY <1>8, <1>11, <1>13, <1>18, Zenon
    <2>2. bf_extract(u[1], 0, 8) = bf_extract(v[1], 0, 8)
        BY <1>9, <1>10, <1>11, <1>12, <2>1, Zenon
    <2>3. /\ u[1] = U(bf_extract(u[1], 14, 2), bf_extract(u[1], 8, 6), bf_extract(u[1], 0, 8))
          /\ v[1] = U(bf_extract(v[1], 14, 2), bf_extract(v[1], 8, 6), bf_extract(v[1], 0, 8))
        BY <1>3, <1>11
    <2> QED
        BY <1>14, <1>16, <2>1, <2>2, <2>3, Zenon
<1> QED
    BY <1>17, <1>18

LEMMA Told_i32_b ==
    PcModulus = 2^32 =>
    \A u, v, p, q :
        /\ LosslessWords("i32_b", u[0], u[1]) /\ LosslessWords("i32_b", v[0], v[1])
        /\ u[0] \in Halfword /\ v[0] \in Halfword /\ u[1] \in Halfword /\ v[1] \in Halfword
        /\ i32_b(u, p).ops = i32_b(v, q).ops
        => u[0] = v[0] /\ u[1] = v[1]
<1> DEFINE F4 == 0..15
           F7 == 0..127
           R23 == 0..(2^23 - 1)
           R27 == 0..(2^27 - 1)
           S(a, b, c) == 36864 + 256 * a + 128 * b + c
           O23(k) == UInt(2 * sign_extend(k, 23))
           O27(k) == UInt(2 * sign_extend(k, 27))
           high(i) == bf_extract(i[0], 8, 4)
           low(i) == LowOffset(bf_extract(i[0], 0, 7), i[1])
           link(i) == Flag(i[0], 7) = 1
<1>1. \A h \in Halfword : h \in Nat
    BY HalfwordIsNat
<1>2. \A w, x : LosslessWords("i32_b", w, x) =>
          w = S(bf_extract(w, 8, 4), Flag(w, 7), bf_extract(w, 0, 7))
    BY SMTT(30) DEF bf_extract, Flag, LosslessWords
<1>3. ASSUME NEW u, NEW v, NEW p, NEW q, i32_b(u, p).ops = i32_b(v, q).ops
      PROVE  link(u) <=> link(v)
    BY <1>3, SMT DEF i32_b, Line
<1>4. ASSUME NEW u, NEW v, NEW p, NEW q, i32_b(u, p).ops = i32_b(v, q).ops, link(u), link(v)
      PROVE  O27(LongOffset(high(u), low(u))) = O27(LongOffset(high(v), low(v)))
    BY <1>4, SMT DEF i32_b, Line, LowOffset, LongOffset
<1>5. ASSUME NEW u, NEW v, NEW p, NEW q, i32_b(u, p).ops = i32_b(v, q).ops, ~link(u), ~link(v)
      PROVE  high(u) = high(v) /\ O23(low(u)) = O23(low(v))
    BY <1>5, SMT DEF i32_b, Line, LowOffset
<1>6. PcModulus = 2^32 => /\ \A k, m \in R23 : O23(k) = O23(m) => k = m
                          /\ \A k, m \in R27 : O27(k) = O27(m) => k = m
    BY SignKept
<1>7. \A w \in Halfword : bf_extract(w, 8, 4) \in F4 /\ bf_extract(w, 0, 7) \in F7
    BY <1>1, SMT DEF bf_extract
<1>8. \A b \in F7, x \in Halfword : LowOffset(b, x) \in R23
    BY LowRange, Zenon
<1>9. \A b, c \in F7, x, y \in Halfword : LowOffset(b, x) = LowOffset(c, y) => b = c /\ x = y
    <2>1. F7 \subseteq Nat
        OBVIOUS
    <2> HIDE DEF F7
    <2> QED
        BY <2>1, LowTold
<1>10. \A h \in F4, l \in R23 : LongOffset(h, l) \in R27
    BY LongRange, Zenon
<1>11. \A h, k \in F4, l, m \in R23 : LongOffset(h, l) = LongOffset(k, m) => h = k /\ l = m
    BY LongTold, Zenon
<1>12. \A w, x \in Halfword : Flag(w, 7) # 1 /\ Flag(x, 7) # 1 => Flag(w, 7) = Flag(x, 7)
    BY <1>1, SMT DEF Flag, bf_extract
<1>13. SUFFICES ASSUME PcModulus = 2^32, NEW u, NEW v, NEW p, NEW q,
                    LosslessWords("i32_b", u[0], u[1]), LosslessWords("i32_b", v[0], v[1]),
                    u[0] \in Halfword, v[0] \in Halfword, u[1] \in Halfword, v[1] \in Halfword,
                    i32_b(u, p).ops = i32_b(v, q).ops
             PROVE  u[0] = v[0] /\ u[1] = v[1]
    OBVIOUS
<1> HIDE DEF F4, F7, R23, R27, S, O23, O27
<1>14. /\ high(u) \in F4 /\ high(v) \in F4
       /\ bf_extract(u[0], 0, 7) \in F7 /\ bf_extract(v[0], 0, 7) \in F7
    BY <1>7, <1>13, Zenon
<1>15. low(u) \in R23 /\ low(v) \in R23
    BY <1>8, <1>13, <1>14, Zenon
<1>16. Flag(u[0], 7) = Flag(v[0], 7)
    <2>1. link(u) <=> link(v)
        BY <1>3, <1>13, Zenon
    <2> QED
        BY <1>12, <1>13, <2>1, Zenon
<1>17. high(u) = high(v) /\ low(u) = low(v)
    <2>1. CASE link(u)
        <3>1. O27(LongOffset(high(u), low(u))) = O27(LongOffset(high(v), low(v)))
            BY <1>3, <1>4, <1>13, <2>1, Zenon
        <3>2. LongOffset(high(u), low(u)) \in R27 /\ LongOffset(high(v), low(v)) \in R27
            BY <1>10, <1>14, <1>15, Zenon
        <3>3. LongOffset(high(u), low(u)) = LongOffset(high(v), low(v))
            BY <1>6, <1>13, <3>1, <3>2, Zenon
        <3> QED
            BY <1>14, <1>15, <1>11, <3>3, SMT
    <2>2. CASE ~link(u)
        <3>1. high(u) = high(v) /\ O23(low(u)) = O23(low(v))
            BY <1>3, <1>5, <1>13, <2>2, Zenon
        <3> QED
            BY <1>6, <1>13, <1>15, <3>1, Zenon
    <2> QED
        BY <2>1, <2>2
<1>18. bf_extract(u[0], 0, 7) = bf_extract(v[0], 0, 7) /\ u[1] = v[1]
    <2>1. LowOffset(bf_extract(u[0], 0, 7), u[1]) = LowOffset(bf_extract(v[0], 0, 7), v[1])
        BY <1>17, Zenon
    <2> QED
        BY <1>13, <1>14, <1>9, <2>1, SMT
<1>19. /\ u[0] = S(high(u), Flag(u[0], 7), bf_extract(u[0], 0, 7))
       /\ v[0] = S(high(v), Flag(v[0], 7), bf_extract(v[0], 0, 7))
    BY <1>2, <1>13, Zenon
<1> QED
    BY <1>16, <1>17, <1>18, <1>19, Zenon

LEMMA Told_i32_alu_op ==
    PcModulus = 2^32 =>
    \A u, v :
        /\ LosslessWords("i32_alu_op", u[0], u[1]) /\ LosslessWords("i32_alu_op", v[0], v[1])
        /\ u[1] \in Halfword /\ v[1] \in Halfword
        /\ i32_alu_op(u).ops = i32_alu_op(v).ops
        /\ i32_alu_op(u).addrs = i32_alu_op(v).addrs
        => u[0] = v[0] /\ u[1] = v[1]
<1> DEFINE S(a, b) == 45056 + 32 * a + b
<1>1. \A w, x : LosslessWords("i32_alu_op", w, x) => w = S(bf_extract(w, 5, 5), bf_extract(w, 0, 5))
    BY SMT DEF bf_extract, Flag, LosslessWords
<1>2. ASSUME NEW u, NEW v, i32_alu_op(u).ops = i32_alu_op(v).ops
      PROVE  /\ bf_extract(u[0], 5, 5) = bf_extract(v[0], 5, 5)
             /\ bf_extract(u[0], 0, 5) = bf_extract(v[0], 0, 5)
    BY <1>2, SMT DEF i32_alu_op, Line, Plain
<1>3. ASSUME NEW u, NEW v, i32_alu_op(u).addrs = i32_alu_op(v).addrs
      PROVE  print_abs_addr(sign_extend(u[1], 16)) = print_abs_addr(sign_extend(v[1], 16))
    BY <1>3, SMT DEF i32_alu_op, Line, Plain
<1>4. PcModulus = 2^32 => \A x, y \in Halfword :
          print_abs_addr(sign_extend(x, 16)) = print_abs_addr(sign_extend(y, 16)) => x = y
    BY SignKept, Zenon
<1>5. SUFFICES ASSUME PcModulus = 2^32,
                    NEW u, NEW v,
                    LosslessWords("i32_alu_op", u[0], u[1]),
                    LosslessWords("i32_alu_op", v[0], v[1]),
                    u[1] \in Halfword,
                    v[1] \in Halfword,
                    i32_alu_op(u).ops = i32_alu_op(v).ops,
                    i32_alu_op(u).addrs = i32_alu_op(v).addrs
             PROVE  u[0] = v[0] /\ u[1] = v[1]
    OBVIOUS
<1> HIDE DEF S
<1>6. u[0] = S(bf_extract(u[0], 5, 5), bf_extract(u[0], 0, 5)) /\ v[0] = S(bf_extract(v[0], 5, 5), bf_extract(v[0], 0, 5))
    BY <1>1, <1>5, Zenon
<1>7. u[0] = v[0]
    BY <1>2, <1>5, <1>6, Zenon
<1>8. u[1] = v[1]
    <2>1. print_abs_addr(sign_extend(u[1], 16)) = print_abs_addr(sign_extend(v[1], 16))
        BY <1>3, <1>5, Zenon
    <2> QED
        BY <1>4, <1>5, <2>1, Zenon
<1> QED
    BY <1>7, <1>8

LEMMA Told_i32_alu_add ==
    PcModulus = 2^32 =>
    \A u, v :
        /\ LosslessWords("i32_alu_add", u[0], u[1]) /\ LosslessWords("i32_alu_add", v[0], v[1])
        /\ u[1] \in Halfword /\ v[1] \in Halfword
        /\ i32_alu_add(u).ops = i32_alu_add(v).ops
        => u[0] = v[0] /\ u[1] = v[1]
<1> DEFINE S(a, b) == 46080 + 32 * a + b
<1>1. \A w, x : LosslessWords("i32_alu_add", w, x) => w = S(bf_extract(w, 5, 5), bf_extract(w, 0, 5))
    BY SMT DEF bf_extract, Flag, LosslessWords
<1>2. ASSUME NEW u, NEW v, i32_alu_add(u).ops = i32_alu_add(v).ops
      PROVE  /\ bf_extract(u[0], 5, 5) = bf_extract(v[0], 5, 5)
             /\ bf_extract(u[0], 0, 5) = bf_extract(v[0], 0, 5)
    BY <1>2, SMT DEF i32_alu_add, Line, Plain
<1>3. ASSUME NEW u, NEW v, i32_alu_add(u).ops = i32_alu_add(v).ops
      PROVE  sign_extend(u[1], 16) = sign_extend(v[1], 16)
    BY <1>3, SMT DEF i32_alu_add, Line, Plain
<1>4. PcModulus = 2^32 => \A x, y \in Halfword :
          sign_extend(x, 16) = sign_extend(y, 16) => x = y
    BY SignKept, Zenon
<1>5. SUFFICES ASSUME PcModulus = 2^32,
                    NEW u, NEW v,
                    LosslessWords("i32_alu_add", u[0], u[1]),
                    LosslessWords("i32_alu_add", v[0], v[1]),
                    u[1] \in Halfword,
                    v[1] \in Halfword,
                    i32_alu_add(u).ops = i32_alu_add(v).ops
             PROVE  u[0] = v[0] /\ u[1] = v[1]
    OBVIOUS
<1> HIDE DEF S
<1>6. u[0] = S(bf_extract(u[0], 5, 5), bf_extract(u[0], 0, 5)) /\ v[0] = S(bf_extract(v[0], 5, 5), bf_extract(v[0], 0, 5))
    BY <1>1, <1>5, Zenon
<1>7. u[0] = v[0]
    BY <1>2, <1>5, <1>6, Zenon
<1>8. u[1] = v[1]
    <2>1. sign_extend(u[1], 16) = sign_extend(v[1], 16)
        BY <1>3, <1>5, Zenon
    <2> QED
        BY <1>4, <1>5, <2>1, Zenon
<1> QED
    BY <1>7, <1>8

LEMMA Told_i32_alu_add_pc ==
    PcModulus = 2^32 =>
    \A u, v, p, q :
        /\ LosslessWords("i32_alu_add_pc", u[0], u[1]) /\ LosslessWords("i32_alu_add_pc", v[0], v[1])
        /\ u[1] \in Halfword /\ v[1] \in Halfword
        /\ i32_alu_add_pc(u, p).ops = i32_alu_add_pc(v, q).ops
        => u[0] = v[0] /\ u[1] = v[1]
<1> DEFINE S(a) == 49120 + a
<1>1. \A w, x : LosslessWords("i32_alu_add_pc", w, x) => w = S(bf_extract(w, 0, 5))
    BY SMT DEF bf_extract, Flag, LosslessWords
<1>2. ASSUME NEW u, NEW v, NEW p, NEW q, i32_alu_add_pc(u, p).ops = i32_alu_add_pc(v, q).ops
      PROVE  /\ bf_extract(u[0], 0, 5) = bf_extract(v[0], 0, 5)
    BY <1>2, SMT DEF i32_alu_add_pc, Line, Plain
<1>3. ASSUME NEW u, NEW v, NEW p, NEW q, i32_alu_add_pc(u, p).ops = i32_alu_add_pc(v, q).ops
      PROVE  sign_extend(u[1], 16) = sign_extend(v[1], 16)
    BY <1>3, SMT DEF i32_alu_add_pc, Line, Plain
<1>4. PcModulus = 2^32 => \A x, y \in Halfword :
          sign_extend(x, 16) = sign_extend(y, 16) => x = y
    BY SignKept, Zenon
<1>5. SUFFICES ASSUME PcModulus = 2^32,
                    NEW u, NEW v, NEW p, NEW q,
                    LosslessWords("i32_alu_add_pc", u[0], u[1]),
                    LosslessWords("i32_alu_add_pc", v[0], v[1]),
                    u[1] \in Halfword,
                    v[1] \in Halfword,
                    i32_alu_add_pc(u, p).ops = i32_alu_add_pc(v, q).ops
             PROVE  u[0] = v[0] /\ u[1] = v[1]
    OBVIOUS
<1> HIDE DEF S
<1>6. u[0] = S(bf_extract(u[0], 0, 5)) /\ v[0] = S(bf_extract(v[0], 0, 5))
    BY <1>1, <1>5, Zenon
<1>7. u[0] = v[0]
    BY <1>2, <1>5, <1>6, Zenon
<1>8. u[1] = v[1]
    <2>1. sign_extend(u[1], 16) = sign_extend(v[1], 16)
        BY <1>3, <1>5, Zenon
    <2> QED
        BY <1>4, <1>5, <2>1, Zenon
<1> QED
    BY <1>7, <1>8

LEMMA Told_i32_p_control ==
    \A u, v :
        /\ LosslessWords("i32_p_control", u[0], u[1]) /\ LosslessWords("i32_p_control", v[0], v[1])
        /\ u[1] \in Halfword /\ v[1] \in Halfword
        /\ i32_p_control(u).ops = i32_p_control(v).ops
        => u[0] = v[0] /\ u[1] = v[1]
<1> DEFINE S(a, b) == 52224 + 32 * a + b
<1>1. \A w, x : LosslessWords("i32_p_control", w, x) => w = S(Flag(w, 5), bf_extract(w, 0, 5))
    BY SMT DEF bf_extract, Flag, LosslessWords
<1>2. ASSUME NEW u, NEW v, i32_p_control(u).ops = i32_p_control(v).ops
      PROVE  /\ Flag(u[0], 5) = Flag(v[0], 5)
             /\ bf_extract(u[0], 0, 5) = bf_extract(v[0], 0, 5)
    BY <1>2, SMT DEF i32_p_control, Line, Plain
<1>3. ASSUME NEW u, NEW v, i32_p_control(u).ops = i32_p_control(v).ops
      PROVE  bf_extract(u[1], 0, 5) = bf_extract(v[1], 0, 5)
    BY <1>3, SMT DEF i32_p_control, Line, Plain
<1>4. \A w, x : LosslessWords("i32_p_control", w, x) /\ x \in Halfword => x = bf_extract(x, 0, 5)
    BY SecondFields, SMT DEF LosslessWords
<1>5. SUFFICES ASSUME NEW u, NEW v,
                    LosslessWords("i32_p_control", u[0], u[1]),
                    LosslessWords("i32_p_control", v[0], v[1]),
                    u[1] \in Halfword,
                    v[1] \in Halfword,
                    i32_p_control(u).ops = i32_p_control(v).ops
             PROVE  u[0] = v[0] /\ u[1] = v[1]
    OBVIOUS
<1> HIDE DEF S
<1>6. u[0] = S(Flag(u[0], 5), bf_extract(u[0], 0, 5)) /\ v[0] = S(Flag(v[0], 5), bf_extract(v[0], 0, 5))
    BY <1>1, <1>5, Zenon
<1>7. u[0] = v[0]
    BY <1>2, <1>5, <1>6, Zenon
<1>8. u[1] = v[1]
    <2>1. bf_extract(u[1], 0, 5) = bf_extract(v[1], 0, 5)
        BY <1>3, <1>5, Zenon
    <2>2. u[1] = bf_extract(u[1], 0, 5) /\ v[1] = bf_extract(v[1], 0, 5)
        BY <1>4, <1>5, Zenon
    <2> QED
        BY <2>1, <2>2, Zenon
<1> QED
    BY <1>7, <1>8

LEMMA Told_i48_alu_op ==
    PcModulus = 2^32 =>
    \A u, v :
        /\ LosslessWords("i48_alu_op", u[0], u[1]) /\ LosslessWords("i48_alu_op", v[0], v[1])
        /\ u[1] \in Halfword /\ v[1] \in Halfword
        /\ u[2] \in Halfword /\ v[2] \in Halfword
        /\ i48_alu_op(u).ops = i48_alu_op(v).ops
        /\ i48_alu_op(u).addrs = i48_alu_op(v).addrs
        => u[0] = v[0] /\ u[1] = v[1] /\ u[2] = v[2]
<1> DEFINE S(a, b) == 59392 + 32 * a + b
<1>1. \A w, x : LosslessWords("i48_alu_op", w, x) => w = S(bf_extract(w, 5, 5), bf_extract(w, 0, 5))
    BY SMT DEF bf_extract, Flag, LosslessWords
<1>2. ASSUME NEW u, NEW v, i48_alu_op(u).ops = i48_alu_op(v).ops
      PROVE  /\ bf_extract(u[0], 5, 5) = bf_extract(v[0], 5, 5)
             /\ bf_extract(u[0], 0, 5) = bf_extract(v[0], 0, 5)
    BY <1>2, SMT DEF i48_alu_op, Operand32, Line, Plain
<1>3. ASSUME NEW u, NEW v, i48_alu_op(u).addrs = i48_alu_op(v).addrs
      PROVE  print_abs_addr(Join(u[2], u[1])) = print_abs_addr(Join(v[2], v[1]))
    BY <1>3, SMT DEF i48_alu_op, Operand32, Line, Plain
<1>4. PcModulus = 2^32 => \A a, b, c, d \in Halfword :
          print_abs_addr(Join(a, b)) = print_abs_addr(Join(c, d)) => a = c /\ b = d
    BY JoinKept, Zenon
<1>5. SUFFICES ASSUME PcModulus = 2^32,
                    NEW u, NEW v,
                    LosslessWords("i48_alu_op", u[0], u[1]),
                    LosslessWords("i48_alu_op", v[0], v[1]),
                    u[1] \in Halfword,
                    v[1] \in Halfword,
                    u[2] \in Halfword,
                    v[2] \in Halfword,
                    i48_alu_op(u).ops = i48_alu_op(v).ops,
                    i48_alu_op(u).addrs = i48_alu_op(v).addrs
             PROVE  u[0] = v[0] /\ u[1] = v[1] /\ u[2] = v[2]
    OBVIOUS
<1> HIDE DEF S
<1>6. u[0] = S(bf_extract(u[0], 5, 5), bf_extract(u[0], 0, 5)) /\ v[0] = S(bf_extract(v[0], 5, 5), bf_extract(v[0], 0, 5))
    BY <1>1, <1>5, Zenon
<1>7. u[0] = v[0]
    BY <1>2, <1>5, <1>6, Zenon
<1>8. u[1] = v[1] /\ u[2] = v[2]
    <2>1. print_abs_addr(Join(u[2], u[1])) = print_abs_addr(Join(v[2], v[1]))
        BY <1>3, <1>5, Zenon
    <2> QED
        BY <1>4, <1>5, <2>1, SMT
<1> QED
    BY <1>7, <1>8

LEMMA Told_i48_alu_add ==
    PcModulus = 2^32 =>
    \A u, v :
        /\ LosslessWords("i48_alu_add", u[0], u[1]) /\ LosslessWords("i48_alu_add", v[0], v[1])
        /\ u[1] \in Halfword /\ v[1] \in Halfword
        /\ u[2] \in Halfword /\ v[2] \in Halfword
        /\ i48_alu_add(u).ops = i48_alu_add(v).ops
        => u[0] = v[0] /\ u[1] = v[1] /\ u[2] = v[2]
<1> DEFINE S(a, b) == 60416 + 32 * a + b
<1>1. \A w, x : LosslessWords("i48_alu_add", w, x) => w = S(bf_extract(w, 5, 5), bf_extract(w, 0, 5))
    BY SMT DEF bf_extract, Flag, LosslessWords
<1>2. ASSUME NEW u, NEW v, i48_alu_add(u).ops = i48_alu_add(v).ops
      PROVE  /\ bf_extract(u[0], 5, 5) = bf_extract(v[0], 5, 5)
             /\ bf_extract(u[0], 0, 5) = bf_extract(v[0], 0, 5)
    BY <1>2, SMT DEF i48_alu_add, Operand32, Line, Plain
<1>3. ASSUME NEW u, NEW v, i48_alu_add(u).ops = i48_alu_add(v).ops
      PROVE  Join(u[2], u[1]) = Join(v[2], v[1])
    BY <1>3, SMT DEF i48_alu_add, Operand32, Line, Plain
<1>4. PcModulus = 2^32 => \A a, b, c, d \in Halfword :
          Join(a, b) = Join(c, d) => a = c /\ b = d
    BY JoinKept, Zenon
<1>5. SUFFICES ASSUME PcModulus = 2^32,
                    NEW u, NEW v,
                    LosslessWords("i48_alu_add", u[0], u[1]),
                    LosslessWords("i48_alu_add", v[0], v[1]),
                    u[1] \in Halfword,
                    v[1] \in Halfword,
                    u[2] \in Halfword,
                    v[2] \in Halfword,
                    i48_alu_add(u).ops = i48_alu_add(v).ops
             PROVE  u[0] = v[0] /\ u[1] = v[1] /\ u[2] = v[2]
    OBVIOUS
<1> HIDE DEF S
<1>6. u[0] = S(bf_extract(u[0], 5, 5), bf_extract(u[0], 0, 5)) /\ v[0] = S(bf_extract(v[0], 5, 5), bf_extract(v[0], 0, 5))
    BY <1>1, <1>5, Zenon
<1>7. u[0] = v[0]
    BY <1>2, <1>5, <1>6, Zenon
<1>8. u[1] = v[1] /\ u[2] = v[2]
    <2>1. Join(u[2], u[1]) = Join(v[2], v[1])
        BY <1>3, <1>5, Zenon
    <2> QED
        BY <1>4, <1>5, <2>1, SMT
<1> QED
    BY <1>7, <1>8

LEMMA Told_i32_ld_st_cond_indexed ==
    \A u, v :
        /\ LosslessWords("i32_ld_st_cond_indexed", u[0], u[1])
        /\ LosslessWords("i32_ld_st_cond_indexed", v[0], v[1])
        /\ u[1] \in Halfword /\ v[1] \in Halfword
        /\ i32_ld_st_cond_indexed(u).ops = i32_ld_st_cond_indexed(v).ops
        => u[0] = v[0] /\ u[1] = v[1]
<1> DEFINE S(a, b, c) == 40960 + 64 * a + 32 * b + c
           T(a, b, c) == 2048 * a + 128 * b + c
<1>1. \A w, x : LosslessWords("i32_ld_st_cond_indexed", w, x) =>
          w = S(bf_extract(w, 6, 2), Flag(w, 5), bf_extract(w, 0, 5))
    BY SMT DEF bf_extract, Flag, LosslessWords
<1>2. \A x \in Halfword : bf_extract(x % 128, 5, 2) = 0 =>
          x = T(bf_extract(x, 11, 5), bf_extract(x, 7, 4), bf_extract(x, 0, 5))
    BY SecondFields
<1>3. ASSUME NEW u, NEW v, i32_ld_st_cond_indexed(u).ops = i32_ld_st_cond_indexed(v).ops
      PROVE  /\ bf_extract(u[0], 6, 2) = bf_extract(v[0], 6, 2)
             /\ Flag(u[0], 5) = Flag(v[0], 5)
             /\ bf_extract(u[0], 0, 5) = bf_extract(v[0], 0, 5)
    BY <1>3, SMT DEF i32_ld_st_cond_indexed, Line
<1>4. ASSUME NEW u, NEW v, i32_ld_st_cond_indexed(u).ops = i32_ld_st_cond_indexed(v).ops
      PROVE  /\ bf_extract(u[1], 11, 5) = bf_extract(v[1], 11, 5)
             /\ bf_extract(u[1], 7, 4) = bf_extract(v[1], 7, 4)
             /\ bf_extract(u[1], 0, 5) = bf_extract(v[1], 0, 5)
    BY <1>4, SMT DEF i32_ld_st_cond_indexed, Line
<1>5. \A w, x : LosslessWords("i32_ld_st_cond_indexed", w, x) => bf_extract(x % 128, 5, 2) = 0
    BY SMT DEF LosslessWords
<1>6. SUFFICES ASSUME NEW u, NEW v,
                    LosslessWords("i32_ld_st_cond_indexed", u[0], u[1]),
                    LosslessWords("i32_ld_st_cond_indexed", v[0], v[1]),
                    u[1] \in Halfword, v[1] \in Halfword,
                    i32_ld_st_cond_indexed(u).ops = i32_ld_st_cond_indexed(v).ops
             PROVE  u[0] = v[0] /\ u[1] = v[1]
    OBVIOUS
<1> HIDE DEF S, T
<1>7. /\ u[0] = S(bf_extract(u[0], 6, 2), Flag(u[0], 5), bf_extract(u[0], 0, 5))
      /\ v[0] = S(bf_extract(v[0], 6, 2), Flag(v[0], 5), bf_extract(v[0], 0, 5))
    BY <1>1, <1>6, Zenon
<1>8. /\ u[1] = T(bf_extract(u[1], 11, 5), bf_extract(u[1], 7, 4), bf_extract(u[1], 0, 5))
      /\ v[1] = T(bf_extract(v[1], 11, 5), bf_extract(v[1], 7, 4), bf_extract(v[1], 0, 5))
    BY <1>2, <1>5, <1>6, Zenon
<1>9. u[0] = v[0]
    BY <1>3, <1>6, <1>7, Zenon
<1>10. u[1] = v[1]
    BY <1>4, <1>6, <1>8, Zenon
<1> QED
    BY <1>9, <1>10

-----------------------------------------------------------------------------
(***************************************************************************)
(* The printers together.                                                  *)
(***************************************************************************)
\* The entries of Lossless by the halfwords of their instructions.
Lossless16 ==
    {"i16_swi", "i16_b", "i16_switch", "i16_version", "i16_swi_u", "i16_ldm_stm",
     "i16_ld_st_sp", "i16_add_sp", "i16_b_cond", "i16_ld_st", "i16_alu_op"}
Lossless32 ==
    {"i32_addcmpb", "i32_b", "i32_ld_st_cond_indexed", "i32_alu_op", "i32_alu_add",
     "i32_alu_add_pc", "i32_p_control"}
Lossless48 ==
    {"i48_alu_op", "i48_alu_add"}

\* There are no others.
LEMMA LosslessSizes == Lossless = Lossless16 \cup Lossless32 \cup Lossless48 \cup {NoEntry}
BY SMT DEF Lossless, Lossless16, Lossless32, Lossless48

\* print is the entry's printer.
LEMMA Printers16 ==
    \A i, pc, b :
        /\ print("i16_swi", i, pc, b) = i16_swi(i)
        /\ print("i16_b", i, pc, b) = i16_b(i)
        /\ print("i16_switch", i, pc, b) = i16_switch(i)
        /\ print("i16_version", i, pc, b) = i16_version(i)
        /\ print("i16_swi_u", i, pc, b) = i16_swi_u(i)
        /\ print("i16_ldm_stm", i, pc, b) = i16_ldm_stm(i)
        /\ print("i16_ld_st_sp", i, pc, b) = i16_ld_st_sp(i)
        /\ print("i16_add_sp", i, pc, b) = i16_add_sp(i)
        /\ print("i16_b_cond", i, pc, b) = i16_b_cond(i, pc)
        /\ print("i16_ld_st", i, pc, b) = i16_ld_st(i)
        /\ print("i16_alu_op", i, pc, b) = i16_alu_op(i)
BY SMT DEF print

LEMMA Printers32 ==
    \A i, pc, b :
        /\ print("i32_addcmpb", i, pc, b) = i32_addcmpb(i, pc)
        /\ print("i32_b", i, pc, b) = i32_b(i, pc)
        /\ print("i32_ld_st_cond_indexed", i, pc, b) = i32_ld_st_cond_indexed(i)
        /\ print("i32_alu_op", i, pc, b) = i32_alu_op(i)
        /\ print("i32_alu_add", i, pc, b) = i32_alu_add(i)
        /\ print("i32_alu_add_pc", i, pc, b) = i32_alu_add_pc(i, pc)
        /\ print("i32_p_control", i, pc, b) = i32_p_control(i)
BY SMT DEF print

LEMMA Printers48 ==
    \A i, pc, b :
        /\ print("i48_alu_op", i, pc, b) = i48_alu_op(i)
        /\ print("i48_alu_add", i, pc, b) = i48_alu_add(i)
BY SMT DEF print

\* Equal texts, equal words: instructions of one halfword, of two, of three.
LEMMA TextTold16 ==
    ASSUME PcModulus = 2^32, NEW e \in Lossless16, NEW u, NEW v, NEW p, NEW q, NEW b, NEW c,
           LosslessWords(e, u[0], u[1]), LosslessWords(e, v[0], v[1]),
           print(e, u, p, b).ops = print(e, v, q, c).ops,
           print(e, u, p, b).addrs = print(e, v, q, c).addrs
    PROVE  u[0] = v[0]
<1>1. CASE e = "i16_swi"
    <2>1. /\ LosslessWords("i16_swi", u[0], u[1]) /\ LosslessWords("i16_swi", v[0], v[1])
          /\ i16_swi(u).ops = i16_swi(v).ops
          /\ i16_swi(u).addrs = i16_swi(v).addrs
        BY <1>1, Printers16, Zenon
    <2> QED
        BY <2>1, Told_i16_swi, Zenon
<1>2. CASE e = "i16_b"
    <2>1. /\ LosslessWords("i16_b", u[0], u[1]) /\ LosslessWords("i16_b", v[0], v[1])
          /\ i16_b(u).ops = i16_b(v).ops
          /\ i16_b(u).addrs = i16_b(v).addrs
        BY <1>2, Printers16, Zenon
    <2> QED
        BY <2>1, Told_i16_b, Zenon
<1>3. CASE e = "i16_switch"
    <2>1. /\ LosslessWords("i16_switch", u[0], u[1]) /\ LosslessWords("i16_switch", v[0], v[1])
          /\ i16_switch(u).ops = i16_switch(v).ops
          /\ i16_switch(u).addrs = i16_switch(v).addrs
        BY <1>3, Printers16, Zenon
    <2> QED
        BY <2>1, Told_i16_switch, Zenon
<1>4. CASE e = "i16_version"
    <2>1. /\ LosslessWords("i16_version", u[0], u[1]) /\ LosslessWords("i16_version", v[0], v[1])
          /\ i16_version(u).ops = i16_version(v).ops
          /\ i16_version(u).addrs = i16_version(v).addrs
        BY <1>4, Printers16, Zenon
    <2> QED
        BY <2>1, Told_i16_version, Zenon
<1>5. CASE e = "i16_swi_u"
    <2>1. /\ LosslessWords("i16_swi_u", u[0], u[1]) /\ LosslessWords("i16_swi_u", v[0], v[1])
          /\ i16_swi_u(u).ops = i16_swi_u(v).ops
          /\ i16_swi_u(u).addrs = i16_swi_u(v).addrs
        BY <1>5, Printers16, Zenon
    <2> QED
        BY <2>1, Told_i16_swi_u, Zenon
<1>6. CASE e = "i16_ldm_stm"
    <2>1. /\ LosslessWords("i16_ldm_stm", u[0], u[1]) /\ LosslessWords("i16_ldm_stm", v[0], v[1])
          /\ i16_ldm_stm(u).ops = i16_ldm_stm(v).ops
          /\ i16_ldm_stm(u).addrs = i16_ldm_stm(v).addrs
        BY <1>6, Printers16, Zenon
    <2> QED
        BY <2>1, Told_i16_ldm_stm, Zenon
<1>7. CASE e = "i16_ld_st_sp"
    <2>1. /\ LosslessWords("i16_ld_st_sp", u[0], u[1]) /\ LosslessWords("i16_ld_st_sp", v[0], v[1])
          /\ i16_ld_st_sp(u).ops = i16_ld_st_sp(v).ops
          /\ i16_ld_st_sp(u).addrs = i16_ld_st_sp(v).addrs
        BY <1>7, Printers16, Zenon
    <2> QED
        BY <2>1, Told_i16_ld_st_sp, Zenon
<1>8. CASE e = "i16_add_sp"
    <2>1. /\ LosslessWords("i16_add_sp", u[0], u[1]) /\ LosslessWords("i16_add_sp", v[0], v[1])
          /\ i16_add_sp(u).ops = i16_add_sp(v).ops
          /\ i16_add_sp(u).addrs = i16_add_sp(v).addrs
        BY <1>8, Printers16, Zenon
    <2> QED
        BY <2>1, Told_i16_add_sp, Zenon
<1>9. CASE e = "i16_b_cond"
    <2>1. /\ LosslessWords("i16_b_cond", u[0], u[1]) /\ LosslessWords("i16_b_cond", v[0], v[1])
          /\ i16_b_cond(u, p).ops = i16_b_cond(v, q).ops
          /\ i16_b_cond(u, p).addrs = i16_b_cond(v, q).addrs
        BY <1>9, Printers16, Zenon
    <2> QED
        BY <2>1, Told_i16_b_cond, Zenon
<1>10. CASE e = "i16_ld_st"
    <2>1. /\ LosslessWords("i16_ld_st", u[0], u[1]) /\ LosslessWords("i16_ld_st", v[0], v[1])
          /\ i16_ld_st(u).ops = i16_ld_st(v).ops
          /\ i16_ld_st(u).addrs = i16_ld_st(v).addrs
        BY <1>10, Printers16, Zenon
    <2> QED
        BY <2>1, Told_i16_ld_st, Zenon
<1>11. CASE e = "i16_alu_op"
    <2>1. /\ LosslessWords("i16_alu_op", u[0], u[1]) /\ LosslessWords("i16_alu_op", v[0], v[1])
          /\ i16_alu_op(u).ops = i16_alu_op(v).ops
          /\ i16_alu_op(u).addrs = i16_alu_op(v).addrs
        BY <1>11, Printers16, Zenon
    <2> QED
        BY <2>1, Told_i16_alu_op, Zenon
<1> QED
    BY <1>1, <1>2, <1>3, <1>4, <1>5, <1>6, <1>7, <1>8, <1>9, <1>10, <1>11, Zenon DEF Lossless16

LEMMA TextTold32 ==
    ASSUME PcModulus = 2^32, NEW e \in Lossless32, NEW u, NEW v, NEW p, NEW q, NEW b, NEW c,
           LosslessWords(e, u[0], u[1]), LosslessWords(e, v[0], v[1]),
           u[0] \in Halfword, v[0] \in Halfword, u[1] \in Halfword, v[1] \in Halfword,
           print(e, u, p, b).ops = print(e, v, q, c).ops,
           print(e, u, p, b).addrs = print(e, v, q, c).addrs
    PROVE  u[0] = v[0] /\ u[1] = v[1]
<1>1. CASE e = "i32_addcmpb"
    <2>1. /\ LosslessWords("i32_addcmpb", u[0], u[1]) /\ LosslessWords("i32_addcmpb", v[0], v[1])
          /\ i32_addcmpb(u, p).ops = i32_addcmpb(v, q).ops
          /\ i32_addcmpb(u, p).addrs = i32_addcmpb(v, q).addrs
        BY <1>1, Printers32, Zenon
    <2> QED
        BY <2>1, Told_i32_addcmpb, Zenon
<1>2. CASE e = "i32_b"
    <2>1. /\ LosslessWords("i32_b", u[0], u[1]) /\ LosslessWords("i32_b", v[0], v[1])
          /\ i32_b(u, p).ops = i32_b(v, q).ops
          /\ i32_b(u, p).addrs = i32_b(v, q).addrs
        BY <1>2, Printers32, Zenon
    <2> QED
        BY <2>1, Told_i32_b, Zenon
<1>3. CASE e = "i32_ld_st_cond_indexed"
    <2>1. /\ LosslessWords("i32_ld_st_cond_indexed", u[0], u[1]) /\ LosslessWords("i32_ld_st_cond_indexed", v[0], v[1])
          /\ i32_ld_st_cond_indexed(u).ops = i32_ld_st_cond_indexed(v).ops
          /\ i32_ld_st_cond_indexed(u).addrs = i32_ld_st_cond_indexed(v).addrs
        BY <1>3, Printers32, Zenon
    <2> QED
        BY <2>1, Told_i32_ld_st_cond_indexed, Zenon
<1>4. CASE e = "i32_alu_op"
    <2>1. /\ LosslessWords("i32_alu_op", u[0], u[1]) /\ LosslessWords("i32_alu_op", v[0], v[1])
          /\ i32_alu_op(u).ops = i32_alu_op(v).ops
          /\ i32_alu_op(u).addrs = i32_alu_op(v).addrs
        BY <1>4, Printers32, Zenon
    <2> QED
        BY <2>1, Told_i32_alu_op, Zenon
<1>5. CASE e = "i32_alu_add"
    <2>1. /\ LosslessWords("i32_alu_add", u[0], u[1]) /\ LosslessWords("i32_alu_add", v[0], v[1])
          /\ i32_alu_add(u).ops = i32_alu_add(v).ops
          /\ i32_alu_add(u).addrs = i32_alu_add(v).addrs
        BY <1>5, Printers32, Zenon
    <2> QED
        BY <2>1, Told_i32_alu_add, Zenon
<1>6. CASE e = "i32_alu_add_pc"
    <2>1. /\ LosslessWords("i32_alu_add_pc", u[0], u[1]) /\ LosslessWords("i32_alu_add_pc", v[0], v[1])
          /\ i32_alu_add_pc(u, p).ops = i32_alu_add_pc(v, q).ops
          /\ i32_alu_add_pc(u, p).addrs = i32_alu_add_pc(v, q).addrs
        BY <1>6, Printers32, Zenon
    <2> QED
        BY <2>1, Told_i32_alu_add_pc, ZenonT(30)
<1>7. CASE e = "i32_p_control"
    <2>1. /\ LosslessWords("i32_p_control", u[0], u[1]) /\ LosslessWords("i32_p_control", v[0], v[1])
          /\ i32_p_control(u).ops = i32_p_control(v).ops
          /\ i32_p_control(u).addrs = i32_p_control(v).addrs
        BY <1>7, Printers32, Zenon
    <2> QED
        BY <2>1, Told_i32_p_control, Zenon
<1> QED
    BY <1>1, <1>2, <1>3, <1>4, <1>5, <1>6, <1>7, Zenon DEF Lossless32

LEMMA TextTold48 ==
    ASSUME PcModulus = 2^32, NEW e \in Lossless48, NEW u, NEW v, NEW p, NEW q, NEW b, NEW c,
           LosslessWords(e, u[0], u[1]), LosslessWords(e, v[0], v[1]),
           u[1] \in Halfword, v[1] \in Halfword, u[2] \in Halfword, v[2] \in Halfword,
           print(e, u, p, b).ops = print(e, v, q, c).ops,
           print(e, u, p, b).addrs = print(e, v, q, c).addrs
    PROVE  u[0] = v[0] /\ u[1] = v[1] /\ u[2] = v[2]
<1>1. CASE e = "i48_alu_op"
    <2>1. /\ LosslessWords("i48_alu_op", u[0], u[1]) /\ LosslessWords("i48_alu_op", v[0], v[1])
          /\ i48_alu_op(u).ops = i48_alu_op(v).ops
          /\ i48_alu_op(u).addrs = i48_alu_op(v).addrs
        BY <1>1, Printers48, Zenon
    <2> QED
        BY <2>1, Told_i48_alu_op, Zenon
<1>2. CASE e = "i48_alu_add"
    <2>1. /\ LosslessWords("i48_alu_add", u[0], u[1]) /\ LosslessWords("i48_alu_add", v[0], v[1])
          /\ i48_alu_add(u).ops = i48_alu_add(v).ops
          /\ i48_alu_add(u).addrs = i48_alu_add(v).addrs
        BY <1>2, Printers48, Zenon
    <2> QED
        BY <2>1, Told_i48_alu_add, Zenon
<1> QED
    BY <1>1, <1>2, Zenon DEF Lossless48

-----------------------------------------------------------------------------
(***************************************************************************)
(* Rows with equal texts have equal words.                                 *)
(***************************************************************************)
\* How many halfwords fetch_next_instr reads for a first word.
WordsShown(w) ==
    IF Dump!OneWord(w) THEN 1 ELSE IF Dump!TwoWords(w) THEN 2
    ELSE IF Dump!ThreeWords(w) THEN 3 ELSE 5

\* An entry of one of the three sets is printed of as many halfwords.
LEMMA LosslessWidths ==
    \A e, w, x : LosslessWords(e, w, x) =>
        /\ e \in Lossless16 => WordsShown(w) = 1
        /\ e \in Lossless32 => WordsShown(w) = 2
        /\ e \in Lossless48 => WordsShown(w) = 3
<1> DEFINE InOne(k) == k \in Nat /\ k < 32768
           InTwo(k) == k \in Nat /\ k >= 32768 /\ k <= 57343
           InThree(k) == k \in Nat /\ k > 57344 /\ k <= 61439
<1>1. \A w, x : LosslessWords("i16_swi", w, x) => InOne(w)
    BY SMT DEF LosslessWords
<1>2. \A w, x : LosslessWords("i16_b", w, x) => InOne(w)
    BY SMT DEF LosslessWords
<1>3. \A w, x : LosslessWords("i16_switch", w, x) => InOne(w)
    BY SMT DEF LosslessWords
<1>4. \A w, x : LosslessWords("i16_version", w, x) => InOne(w)
    BY SMT DEF LosslessWords
<1>5. \A w, x : LosslessWords("i16_swi_u", w, x) => InOne(w)
    BY SMT DEF LosslessWords
<1>6. \A w, x : LosslessWords("i16_ldm_stm", w, x) => InOne(w)
    BY SMT DEF LosslessWords
<1>7. \A w, x : LosslessWords("i16_ld_st_sp", w, x) => InOne(w)
    BY SMT DEF LosslessWords
<1>8. \A w, x : LosslessWords("i16_add_sp", w, x) => InOne(w)
    BY SMTT(30) DEF LosslessWords
<1>9. \A w, x : LosslessWords("i16_b_cond", w, x) => InOne(w)
    BY SMTT(30) DEF LosslessWords
<1>10. \A w, x : LosslessWords("i16_ld_st", w, x) => InOne(w)
    <2> DEFINE R == \h2000..\h3FFF
    <2>1. \A w, x : LosslessWords("i16_ld_st", w, x) => w \in R
        BY SMT DEF LosslessWords
    <2>2. \A w \in R : InOne(w)
        BY SMT
    <2> HIDE DEF R, InOne, InTwo
    <2> QED
        BY <2>1, <2>2, Zenon
<1>11. \A w, x : LosslessWords("i16_alu_op", w, x) => InOne(w)
    <2> DEFINE R == \h4000..\h7FFF
    <2>1. \A w, x : LosslessWords("i16_alu_op", w, x) => w \in R
        BY SMT DEF LosslessWords
    <2>2. \A w \in R : InOne(w)
        BY SMT
    <2> HIDE DEF R, InOne, InTwo
    <2> QED
        BY <2>1, <2>2, Zenon
<1>12. \A w, x : LosslessWords("i32_addcmpb", w, x) => InTwo(w)
    <2> DEFINE R == \h8000..\h8FFF
    <2>1. \A w, x : LosslessWords("i32_addcmpb", w, x) => w \in R
        BY SMT DEF LosslessWords
    <2>2. \A w \in R : InTwo(w)
        BY SMT
    <2> HIDE DEF R, InOne, InTwo
    <2> QED
        BY <2>1, <2>2, Zenon
<1>13. \A w, x : LosslessWords("i32_b", w, x) => InTwo(w)
    <2> DEFINE R == \h9000..\h9FFF
    <2>1. \A w, x : LosslessWords("i32_b", w, x) => w \in R
        BY SMT DEF LosslessWords
    <2>2. \A w \in R : InTwo(w)
        BY SMT
    <2> HIDE DEF R, InOne, InTwo
    <2> QED
        BY <2>1, <2>2, Zenon
<1>14. \A w, x : LosslessWords("i32_ld_st_cond_indexed", w, x) => InTwo(w)
    BY SMT DEF LosslessWords
<1>15. \A w, x : LosslessWords("i32_alu_op", w, x) => InTwo(w)
    BY SMT DEF LosslessWords
<1>16. \A w, x : LosslessWords("i32_alu_add", w, x) => InTwo(w)
    BY SMT DEF LosslessWords
<1>17. \A w, x : LosslessWords("i32_alu_add_pc", w, x) => InTwo(w)
    BY SMT DEF LosslessWords
<1>18. \A w, x : LosslessWords("i32_p_control", w, x) => InTwo(w)
    BY SMT DEF LosslessWords
<1>19. \A w, x : LosslessWords("i48_alu_op", w, x) => InThree(w)
    BY SMT DEF LosslessWords
<1>20. \A w, x : LosslessWords("i48_alu_add", w, x) => InThree(w)
    BY SMT DEF LosslessWords
<1>21. \A k : InOne(k) => WordsShown(k) = 1
    BY SMT DEF Dump!OneWord, WordsShown
<1>22. \A k : InTwo(k) => WordsShown(k) = 2
    BY SMT DEF Dump!OneWord, Dump!TwoWords, WordsShown
<1>23. \A k : InThree(k) => WordsShown(k) = 3
    BY SMT DEF Dump!OneWord, Dump!TwoWords, Dump!ThreeWords, WordsShown
<1> HIDE DEF InOne, InTwo, InThree
<1> SUFFICES ASSUME NEW e, NEW w, NEW x, LosslessWords(e, w, x)
             PROVE  /\ e \in Lossless16 => WordsShown(w) = 1
                    /\ e \in Lossless32 => WordsShown(w) = 2
                    /\ e \in Lossless48 => WordsShown(w) = 3
    OBVIOUS
<1>24. e \in Lossless16 => InOne(w)
    BY <1>1, <1>2, <1>3, <1>4, <1>5, <1>6, <1>7, <1>8, <1>9, <1>10, <1>11, Zenon DEF Lossless16
<1>25. e \in Lossless32 => InTwo(w)
    BY <1>12, <1>13, <1>14, <1>15, <1>16, <1>17, <1>18, Zenon DEF Lossless32
<1>26. e \in Lossless48 => InThree(w)
    BY <1>19, <1>20, Zenon DEF Lossless48
<1> QED
    BY <1>21, <1>22, <1>23, <1>24, <1>25, <1>26, Zenon

\* The row's first byte, as the printers know it.
RowAddress(row) == (BaseAddr + 2 * row.start) % PcModulus

\* The row shows all the words that were fetched, and its line is what the
\* decoder's entry printed of them.
RowTold(row, l) ==
    \E i \in [0..4 -> Halfword] :
        /\ row.words = [k \in 0..(WordsShown(i[0]) - 1) |-> i[k]]
        /\ row.entry = vc4_decode_instr(i)
        /\ row.entry = NoEntry => l = Plain([k \in 1..WordsShown(i[0]) |-> i[k - 1]])
        /\ row.entry # NoEntry => \E b : l = print(row.entry, i, RowAddress(row), b)

\* Two rows of one entry with the same text have the same words.
LEMMA WordsTold ==
    ASSUME PcModulus = 2^32, NEW row, NEW l, NEW other, NEW m,
           RowTold(row, l), RowTold(other, m),
           row.entry = other.entry, row.entry \in Lossless,
           l.ops = m.ops, l.addrs = m.addrs
    PROVE  row.words = other.words
<1>1. PICK u \in [0..4 -> Halfword] :
        /\ row.words = [k \in 0..(WordsShown(u[0]) - 1) |-> u[k]]
        /\ row.entry = vc4_decode_instr(u)
        /\ row.entry = NoEntry => l = Plain([k \in 1..WordsShown(u[0]) |-> u[k - 1]])
        /\ row.entry # NoEntry => \E b : l = print(row.entry, u, RowAddress(row), b)
    BY Zenon DEF RowTold
<1>2. PICK v \in [0..4 -> Halfword] :
        /\ other.words = [k \in 0..(WordsShown(v[0]) - 1) |-> v[k]]
        /\ other.entry = vc4_decode_instr(v)
        /\ other.entry = NoEntry => m = Plain([k \in 1..WordsShown(v[0]) |-> v[k - 1]])
        /\ other.entry # NoEntry => \E b : m = print(other.entry, v, RowAddress(other), b)
    BY Zenon DEF RowTold
<1> DEFINE e == row.entry
<1>3. LosslessWords(e, u[0], u[1]) /\ LosslessWords(e, v[0], v[1])
    <2>1. e = vc4_decode_instr(u) /\ e = vc4_decode_instr(v)
        BY <1>1, <1>2, Zenon
    <2>2. /\ LosslessWords(vc4_decode_instr(u), u[0], u[1])
          /\ LosslessWords(vc4_decode_instr(v), v[0], v[1])
        BY EntrySays, Zenon
    <2> QED
        BY <2>1, <2>2, Zenon
<1>4. /\ u[0] \in Halfword /\ u[1] \in Halfword /\ u[2] \in Halfword
      /\ v[0] \in Halfword /\ v[1] \in Halfword /\ v[2] \in Halfword
    OBVIOUS
<1>5. \A w : WordsShown(w) \in {1, 2, 3, 5}
    BY Zenon DEF WordsShown
<1>6. CASE e = NoEntry
    <2> DEFINE n == WordsShown(u[0])
               k == WordsShown(v[0])
    <2>1. l.ops = [j \in 1..n |-> u[j - 1]] /\ m.ops = [j \in 1..k |-> v[j - 1]]
        BY <1>1, <1>2, <1>6 DEF Plain, Line
    <2>2. n \in Nat /\ k \in Nat
        BY <1>5
    <2> HIDE DEF n, k
    <2>3. 1..n = 1..k
        BY <2>1
    <2>4. n = k
        BY <2>2, <2>3
    <2>5. \A j \in 0..(n - 1) : u[j] = v[j]
        <3> SUFFICES ASSUME NEW j \in 0..(n - 1) PROVE u[j] = v[j]
            OBVIOUS
        <3>1. j + 1 \in 1..n /\ (j + 1) - 1 = j
            BY <2>2
        <3>2. l.ops[j + 1] = u[(j + 1) - 1] /\ m.ops[j + 1] = v[(j + 1) - 1]
            BY <2>1, <2>4, <3>1, Zenon
        <3> QED
            BY <3>1, <3>2, Zenon
    <2>6. row.words = [j \in 0..(n - 1) |-> u[j]] /\ other.words = [j \in 0..(k - 1) |-> v[j]]
        BY <1>1, <1>2 DEF n, k
    <2> QED
        BY <2>4, <2>5, <2>6
<1>7. CASE e # NoEntry
    <2> DEFINE p == RowAddress(row)
               q == RowAddress(other)
    <2>1. PICK b : l = print(e, u, p, b)
        BY <1>1, <1>7, Zenon
    <2>2. PICK c : m = print(e, v, q, c)
        BY <1>2, <1>7, Zenon
    <2>3. /\ print(e, u, p, b).ops = print(e, v, q, c).ops
          /\ print(e, u, p, b).addrs = print(e, v, q, c).addrs
        BY <2>1, <2>2, Zenon
    <2>4. e \in Lossless16 \/ e \in Lossless32 \/ e \in Lossless48
        BY <1>7, LosslessSizes, Zenon
    <2> HIDE DEF e, p, q
    <2>5. CASE e \in Lossless16
        <3>1. u[0] = v[0]
            BY <1>3, <2>3, <2>5, TextTold16
        <3>2. WordsShown(u[0]) = 1 /\ WordsShown(v[0]) = 1
            BY <1>3, <2>5, LosslessWidths, Zenon
        <3>3. /\ row.words = [k \in 0..(1 - 1) |-> u[k]] /\ other.words = [k \in 0..(1 - 1) |-> v[k]]
            BY <1>1, <1>2, <3>2, Zenon
        <3> QED
            BY <3>1, <3>3
    <2>6. CASE e \in Lossless32
        <3>1. u[0] = v[0] /\ u[1] = v[1]
            BY <1>3, <1>4, <2>3, <2>6, TextTold32
        <3>2. WordsShown(u[0]) = 2 /\ WordsShown(v[0]) = 2
            BY <1>3, <2>6, LosslessWidths, Zenon
        <3>3. /\ row.words = [k \in 0..(2 - 1) |-> u[k]] /\ other.words = [k \in 0..(2 - 1) |-> v[k]]
            BY <1>1, <1>2, <3>2, Zenon
        <3> QED
            BY <3>1, <3>3
    <2>7. CASE e \in Lossless48
        <3>1. u[0] = v[0] /\ u[1] = v[1] /\ u[2] = v[2]
            BY <1>3, <1>4, <2>3, <2>7, TextTold48
        <3>2. WordsShown(u[0]) = 3 /\ WordsShown(v[0]) = 3
            BY <1>3, <2>7, LosslessWidths, Zenon
        <3>3. /\ row.words = [k \in 0..(3 - 1) |-> u[k]] /\ other.words = [k \in 0..(3 - 1) |-> v[k]]
            BY <1>1, <1>2, <3>2, Zenon
        <3> QED
            BY <3>1, <3>3
    <2> QED
        BY <2>4, <2>5, <2>6, <2>7
<1> QED
    BY <1>6, <1>7

\* The text of the row's words with another second word is another text.
LEMMA SecondWordInText ==
    ASSUME PcModulus = 2^32, NEW row, NEW l, RowTold(row, l),
           row.entry \in Lossless \ {NoEntry}, 1 \in DOMAIN row.words,
           NEW x \in Halfword \ {row.words[1]}, NEW pc, NEW b,
           vc4_decode_instr([row.words EXCEPT ![1] = x]) = row.entry,
           print(row.entry, [row.words EXCEPT ![1] = x], pc, b).ops = l.ops,
           print(row.entry, [row.words EXCEPT ![1] = x], pc, b).addrs = l.addrs
    PROVE  FALSE
<1>1. PICK u \in [0..4 -> Halfword] :
        /\ row.words = [k \in 0..(WordsShown(u[0]) - 1) |-> u[k]]
        /\ row.entry = vc4_decode_instr(u)
        /\ row.entry # NoEntry => \E c : l = print(row.entry, u, RowAddress(row), c)
    BY Zenon DEF RowTold
<1> DEFINE q == RowAddress(row)
<1>2. PICK c : l = print(row.entry, u, q, c)
    BY <1>1
<1> HIDE DEF q
<1> DEFINE e == row.entry
           v == [row.words EXCEPT ![1] = x]
           n == WordsShown(u[0])
<1>3. n \in {1, 2, 3, 5}
    BY Zenon DEF WordsShown
<1> HIDE DEF n
<1>4. row.words = [k \in 0..(n - 1) |-> u[k]]
    BY <1>1, Zenon DEF n
<1>5. DOMAIN row.words = 0..(n - 1)
    BY <1>4
<1>6. 1 \in 0..(n - 1)
    BY <1>5
<1>7. n # 1 /\ 0 \in 0..(n - 1)
    BY <1>3, <1>6
<1>8. v[0] = u[0] /\ v[1] = x /\ row.words[1] = u[1]
    BY <1>4, <1>5, <1>6, <1>7
<1>9. n = 3 => v[2] = u[2]
    BY <1>4, <1>5
<1>10. /\ u[0] \in Halfword /\ u[1] \in Halfword /\ u[2] \in Halfword
    OBVIOUS
<1>11. LosslessWords(e, u[0], u[1]) /\ LosslessWords(e, v[0], v[1])
    BY <1>1, EntrySays, Zenon
<1>12. /\ print(e, u, q, c).ops = print(e, v, pc, b).ops
       /\ print(e, u, q, c).addrs = print(e, v, pc, b).addrs
    BY <1>2, Zenon
<1>13. e \in Lossless16 \/ e \in Lossless32 \/ e \in Lossless48
    BY LosslessSizes, Zenon
<1>14. u[1] # x /\ v[0] \in Halfword /\ v[1] \in Halfword
    BY <1>8, <1>10
<1> HIDE DEF e, v
<1>15. e \notin Lossless16
    BY <1>7, <1>11, LosslessWidths, Zenon DEF n
<1>16. CASE e \in Lossless32
    BY <1>8, <1>10, <1>11, <1>12, <1>14, <1>16, TextTold32
<1>17. CASE e \in Lossless48
    <2>1. n = 3
        BY <1>11, <1>17, LosslessWidths, Zenon DEF n
    <2>2. v[2] \in Halfword
        BY <1>9, <1>10, <2>1, Zenon
    <2> QED
        BY <1>8, <1>10, <1>11, <1>12, <1>14, <1>17, <2>2, TextTold48
<1> QED
    BY <1>13, <1>15, <1>16, <1>17

-----------------------------------------------------------------------------
(***************************************************************************)
(* Every row shows what was fetched, and its text is what was printed of   *)
(* it.                                                                     *)
(***************************************************************************)
\* What the tests of fetch_next_instr have said of the first word by each of
\* its reads, and the size it returns.
SizeFetched ==
    /\ at \in {"fetch2", "fetch3", "fetch4"} => ~Dump!OneWord(instr[0])
    /\ at \in {"fetch3", "fetch4"} => ~Dump!TwoWords(instr[0])
    /\ at = "fetch4" => ~Dump!ThreeWords(instr[0])
    /\ at = "print" => instr_sz \div 2 = WordsShown(instr[0])

RowsTold == \A n \in Printed : RowTold(listing[n], lines[n])

\* With the invariant above, it is kept by every step.
ToldInv == SizeFetched /\ RowsTold

\* The steps that fetch keep SizeFetched.
LEMMA FetchTellsSize ==
    ASSUME Place, SizeFetched, Fetching
    PROVE  SizeFetched'
<1>1. CASE Dump!OpenImage \/ Dump!Seek \/ Dump!MainFails \/ Dump!SeekFails \/ Dump!FetchFails
    <2>1. at' \in {"seek", "fetch1", "done"}
        BY <1>1, Zenon DEF Dump!OpenImage, Dump!Seek, Dump!MainFails, Dump!SeekFails, Dump!FetchFails
    <2> QED
        BY <2>1 DEF SizeFetched
<1>2. CASE Dump!FetchFirst
    <2>1. IF Dump!OneWord(instr'[0]) THEN at' = "print" /\ instr_sz' = 2 ELSE at' = "fetch2"
        BY <1>2 DEF Dump!FetchFirst, Dump!Out, Dump!More
    <2>2. 2 \div 2 = 1
        OBVIOUS
    <2> QED
        BY <2>1, <2>2 DEF SizeFetched, WordsShown
<1>3. CASE Dump!FetchSecond
    <2>1. at = "fetch2" /\ instr' = [instr EXCEPT ![2] = image[pos + 1]]
        BY <1>3 DEF Dump!FetchSecond
    <2>2. instr'[0] = instr[0]
        BY <2>1 DEF Place
    <2>3. IF Dump!TwoWords(instr[0]) THEN at' = "print" /\ instr_sz' = 4 ELSE at' = "fetch3"
        BY <1>3 DEF Dump!FetchSecond, Dump!Out, Dump!More
    <2>4. 4 \div 2 = 2
        OBVIOUS
    <2> QED
        BY <2>1, <2>2, <2>3, <2>4 DEF SizeFetched, WordsShown
<1>4. CASE Dump!FetchThird
    <2>1. at = "fetch3" /\ instr' = [instr EXCEPT ![2] = image[pos + 1]]
        BY <1>4 DEF Dump!FetchThird
    <2>2. instr'[0] = instr[0]
        BY <2>1 DEF Place
    <2>3. IF Dump!ThreeWords(instr[0]) THEN at' = "print" /\ instr_sz' = 6 ELSE at' = "fetch4"
        BY <1>4 DEF Dump!FetchThird, Dump!Out, Dump!More
    <2>4. 6 \div 2 = 3
        OBVIOUS
    <2> QED
        BY <2>1, <2>2, <2>3, <2>4 DEF SizeFetched, WordsShown
<1>5. CASE Dump!FetchLast
    <2>1. /\ at = "fetch4" /\ at' = "print" /\ instr_sz' = 10
          /\ instr' = [instr EXCEPT ![3] = image[pos + 1], ![4] = image[pos + 2]]
        BY <1>5 DEF Dump!FetchLast, Dump!Out
    <2>2. instr'[0] = instr[0]
        BY <2>1 DEF Place
    <2>3. 10 \div 2 = 5
        OBVIOUS
    <2> QED
        BY <2>1, <2>2, <2>3 DEF SizeFetched, WordsShown
<1> QED
    BY <1>1, <1>2, <1>3, <1>4, <1>5 DEF Fetching

\* The row that is printed.
LEMMA NewRowTold ==
    ASSUME Place, SizeFetched, at = "print", NEW b
    PROVE  RowTold(Dump!Row, RowLine(b))
<1> DEFINE i == instr
           n == instr_sz \div 2
<1>1. i \in [0..4 -> Halfword] /\ n = WordsShown(i[0])
    BY DEF Place, SizeFetched
<1>2. /\ Dump!Row.words = [k \in 0..(n - 1) |-> i[k]]
      /\ Dump!Row.entry = vc4_decode_instr(i)
    BY SameDecoder DEF Dump!Row
<1>4. current_pc = RowAddress(Dump!Row)
    <2>1. Dump!Row.start = pos - n
        BY DEF Dump!Row
    <2>2. current_pc = (BaseAddr + 2 * (pos - n)) % PcModulus
        BY DEF Place, Begun
    <2> QED
        BY <2>1, <2>2, Zenon DEF RowAddress
<1>3. RowLine(b) = IF vc4_decode_instr(i) = NoEntry THEN Plain([k \in 1..n |-> i[k - 1]])
                   ELSE print(vc4_decode_instr(i), i, current_pc, b)
    BY Zenon DEF RowLine
<1> HIDE DEF i, n
<1> QED
    BY <1>1, <1>2, <1>3, <1>4, Zenon DEF RowTold

LEMMA InitTold == Init => ToldInv
<1> SUFFICES ASSUME Init PROVE ToldInv
    OBVIOUS
<1>1. at = "main" /\ lines = << >>
    BY DEF Init, Dump!Init
<1> QED
    BY <1>1 DEF ToldInv, SizeFetched, RowsTold, Printed

LEMMA NextTold == IInv /\ ToldInv /\ [Next]_vars => ToldInv'
<1> SUFFICES ASSUME IInv, ToldInv, [Next]_vars
             PROVE  ToldInv'
    OBVIOUS
<1> USE DEF IInv, ToldInv
<1>1. CASE PrintLine
    <2>1. PICK b \in Unset : lines' = Append(lines, RowLine(b))
        BY <1>1, Zenon DEF PrintLine
    <2>2. at = "print" /\ at' = "fetch1" /\ listing' = Append(listing, Dump!Row)
        BY <1>1 DEF PrintLine, Dump!PrintRow
    <2>3. RowTold(Dump!Row, RowLine(b))
        BY <2>2, NewRowTold, Zenon
    <2> DEFINE N == Len(lines)
    <2>4. /\ N \in Nat /\ Len(lines') = N + 1
          /\ listing'[N + 1] = Dump!Row /\ lines'[N + 1] = RowLine(b)
          /\ \A n \in 1..N : listing'[n] = listing[n] /\ lines'[n] = lines[n]
        BY <2>1, <2>2, PairsAppended, Zenon
    <2>5. \A n \in 1..N : RowTold(listing[n], lines[n])
        BY Zenon DEF RowsTold, Printed
    <2> HIDE DEF N
    <2>6. \A n \in 1..(N + 1) : RowTold(listing'[n], lines'[n])
        <3> SUFFICES ASSUME NEW n \in 1..(N + 1) PROVE RowTold(listing'[n], lines'[n])
            OBVIOUS
        <3>1. n \in 1..N \/ n = N + 1
            BY <2>4
        <3>2. CASE n \in 1..N
            BY <2>4, <2>5, <3>2, Zenon
        <3>3. CASE n = N + 1
            BY <2>3, <2>4, <3>3, Zenon
        <3> QED
            BY <3>1, <3>2, <3>3
    <2>7. RowsTold'
        BY <2>4, <2>6, Zenon DEF RowsTold, Printed
    <2>8. SizeFetched'
        BY <2>2 DEF SizeFetched
    <2> QED
        BY <2>7, <2>8
<1>2. CASE Fetching
    <2>1. lines' = lines /\ listing' = listing
        BY <1>2 DEF Fetching, Dump!OpenImage, Dump!Seek, Dump!MainFails, Dump!SeekFails,
           Dump!FetchFirst,
           Dump!FetchSecond, Dump!FetchThird, Dump!FetchLast, Dump!FetchFails
    <2>2. RowsTold'
        BY <2>1 DEF RowsTold, Printed
    <2> QED
        BY <1>2, <2>2, FetchTellsSize
<1>3. CASE Crash \/ Ended \/ UNCHANGED vars
    <2>1. UNCHANGED <<instr, instr_sz, at, listing, lines>>
        BY <1>3 DEF Crash, Ended, vars, dumpVars
    <2> QED
        BY <2>1 DEF SizeFetched, RowsTold, Printed
<1> QED
    BY <1>1, <1>2, <1>3 DEF Next

-----------------------------------------------------------------------------
\* Of two rows of one entry of Lossless with different words, in any file, the
\* texts are different: uint32_t is wide enough for every number shown.
THEOREM TextsTellApart == PcModulus = 2^32 => (Spec => []TellsApart)
<1> SUFFICES ASSUME PcModulus = 2^32
             PROVE  Spec => []TellsApart
    OBVIOUS
<1>1. Spec => [](IInv /\ ToldInv)
    BY InitInv, NextInv, InitTold, NextTold, PTL DEF Spec
<1>2. ASSUME ToldInv
      PROVE  TellsApart
    <2> SUFFICES ASSUME NEW m \in Printed, NEW n \in Printed,
                        listing[m].entry = listing[n].entry,
                        listing[m].entry \in Lossless,
                        lines[m].ops = lines[n].ops,
                        lines[m].addrs = lines[n].addrs
                 PROVE  listing[m].words = listing[n].words
        BY DEF TellsApart
    <2>1. RowTold(listing[m], lines[m]) /\ RowTold(listing[n], lines[n])
        BY <1>2, Zenon DEF ToldInv, RowsTold
    <2> QED
        BY <1>2, <2>1, WordsTold
<1>3. ToldInv => TellsApart
    BY <1>2
<1> QED
    BY <1>1, <1>3, PTL

\* The text of the last row is not that of any other second word that decodes to
\* the same entry, whatever instr[1] held at the start.
THEOREM SecondWordsTold == PcModulus = 2^32 => (Spec => []SecondWordTold)
<1> SUFFICES ASSUME PcModulus = 2^32
             PROVE  Spec => []SecondWordTold
    OBVIOUS
<1>1. Spec => [](IInv /\ ToldInv)
    BY InitInv, NextInv, InitTold, NextTold, PTL DEF Spec
<1>2. ASSUME IInv, ToldInv
      PROVE  SecondWordTold
    <2> DEFINE row == Last(listing)
               l == Last(lines)
               With(x) == [row.words EXCEPT ![1] = x]
               Text(x) == print(row.entry, With(x), row.addr, 0)
    <2> SUFFICES ASSUME lines # << >>,
                        row.entry \in Lossless \ {NoEntry}, 1 \in DOMAIN row.words,
                        NEW x \in Stale \ {row.words[1]},
                        Text(x).ops = l.ops, Text(x).addrs = l.addrs,
                        vc4_decode_instr(With(x)) = row.entry
                 PROVE  FALSE
        BY Zenon DEF SecondWordTold
    <2>1. RowTold(row, l)
        <3>1. Len(lines) \in Nat /\ Len(listing) = Len(lines) /\ Len(lines) # 0
            BY <1>2 DEF IInv, RowsGood
        <3>2. Len(lines) \in Printed
            BY <3>1 DEF Printed
        <3> QED
            BY <1>2, <3>1, <3>2 DEF ToldInv, RowsTold, Last
    <2>2. x \in Halfword \ {row.words[1]}
        BY DumpAssumption
    <2> HIDE DEF row, l
    <2> QED
        BY <1>2, <2>1, <2>2, SecondWordInText
<1>3. IInv /\ ToldInv => SecondWordTold
    BY <1>2
<1> QED
    BY <1>1, <1>3, PTL

-----------------------------------------------------------------------------
(***************************************************************************)
(* The numbers a line shows are 32-bit ones, but for vector operands.      *)
(***************************************************************************)
ShowsNumbers(l) == l.ops \in Seq(Uint32)

\* A field of a halfword fits.
FieldSized(x) == x \in 0..2047

LEMMA ShortFields ==
    ASSUME NEW v \in Nat
    PROVE  /\ FieldSized(bf_extract(v, 0, 4)) /\ FieldSized(bf_extract(v, 0, 5))
           /\ FieldSized(bf_extract(v, 0, 6)) /\ FieldSized(bf_extract(v, 4, 4))
           /\ FieldSized(bf_extract(v, 4, 5)) /\ FieldSized(bf_extract(v, 5, 1))
           /\ FieldSized(bf_extract(v, 6, 1)) /\ FieldSized(bf_extract(v, 7, 1))
           /\ FieldSized(bf_extract(v, 8, 1)) /\ FieldSized(bf_extract(v, 9, 1))
           /\ FieldSized(bf_extract(v, 12, 1)) /\ FieldSized(bf_extract(v, 13, 1))
           /\ FieldSized(bf_extract(v, 5, 4)) /\ FieldSized(bf_extract(v, 5, 5))
           /\ FieldSized(bf_extract(v, 5, 6)) /\ FieldSized(bf_extract(v, 7, 4))
           /\ FieldSized(bf_extract(v, 8, 4)) /\ FieldSized(bf_extract(v, 8, 5))
           /\ FieldSized(bf_extract(v, 8, 6)) /\ FieldSized(bf_extract(v, 9, 4))
           /\ FieldSized(bf_extract(v, 10, 4)) /\ FieldSized(bf_extract(v, 11, 5))
           /\ FieldSized(bf_extract(v, 14, 2)) /\ FieldSized(bf_extract(v, 6, 2))
           /\ FieldSized(bf_extract(v, 8, 2)) /\ FieldSized(bf_extract(v, 0, 11))
           /\ bf_extract(v, 5, 2) \in 0..3 /\ bf_extract(v, 6, 2) \in 0..3
           /\ bf_extract(v, 9, 2) \in 0..3
           /\ bf_extract(v, 0, 10) \in Nat /\ bf_extract(v, 0, 8) \in Nat
           /\ bf_extract(v, 0, 7) \in Nat
BY SMTT(60) DEF bf_extract, FieldSized

\* So do its small multiples, and what the program makes of longer ones.
LEMMA ShownNumbers ==
    /\ \A x : FieldSized(x) => /\ x \in Uint32 /\ 2 * x \in Uint32 /\ 4 * x \in Uint32
                          /\ 32 + x \in Uint32
    /\ \A x \in Int : UInt(x) \in Uint32
    /\ \A x \in Int : sign_extend(x, 4) \in Uint32 /\ sign_extend(x, 12) \in Uint32
    /\ \A x \in Int : sign_extend(x, 16) \in Uint32
    /\ \A x \in Int : /\ 4 * sign_extend(x, 6) \in Int /\ 2 * sign_extend(x, 7) \in Int
                      /\ 2 * sign_extend(x, 8) \in Int /\ 2 * sign_extend(x, 10) \in Int
                      /\ 2 * sign_extend(x, 23) \in Int /\ 2 * sign_extend(x, 27) \in Int
    /\ \A f \in 0..3 : vc4_operand_size(f) \in Uint32
    /\ \A n \in 0..63 : n \in Uint32
    /\ \A x \in Halfword : x \in Uint32
<1>0. PcModulus \in Nat /\ PcModulus >= 268435456
    BY ModulusIsNat, SMT
<1>1. \A n : n \in Nat /\ n < 268435456 => n \in Uint32
    BY <1>0, SMT DEF Uint32
<1>2. \A x : FieldSized(x) => /\ x \in Uint32 /\ 2 * x \in Uint32 /\ 4 * x \in Uint32
                         /\ 32 + x \in Uint32
    BY <1>0, SMT DEF FieldSized, Uint32
<1>3. \A x \in Int : UInt(x) \in Uint32
    BY <1>0, SMT DEF UInt, Uint32
<1>4. \A x \in Int : sign_extend(x, 4) \in Uint32 /\ sign_extend(x, 12) \in Uint32
    BY <1>0, SMT DEF sign_extend, Uint32
<1>5. \A x \in Int : sign_extend(x, 16) \in Uint32
    BY <1>0, SMT DEF sign_extend, Uint32
<1>6. \A x \in Int : /\ 4 * sign_extend(x, 6) \in Int /\ 2 * sign_extend(x, 7) \in Int
                     /\ 2 * sign_extend(x, 8) \in Int /\ 2 * sign_extend(x, 10) \in Int
                     /\ 2 * sign_extend(x, 23) \in Int /\ 2 * sign_extend(x, 27) \in Int
    BY <1>0, SMT DEF sign_extend
<1>7. \A f \in 0..3 : vc4_operand_size(f) \in Uint32
    <2>1. \A f \in 0..3 : vc4_operand_size(f) \in {1, 2, 4}
        BY SMT DEF vc4_operand_size
    <2> QED
        BY <1>1, <2>1
<1>8. (\A n \in 0..63 : n \in Uint32) /\ (\A x \in Halfword : x \in Uint32)
    BY <1>0, SMT DEF Halfword, Uint32
<1> QED
    BY <1>2, <1>3, <1>4, <1>5, <1>6, <1>7, <1>8, Zenon

\* Those that are computed with are numbers.
LEMMA FieldsAreNumbers ==
    ASSUME NEW v \in Nat
    PROVE  /\ bf_extract(v, 0, 5) \in Nat /\ bf_extract(v, 0, 6) \in Nat
           /\ bf_extract(v, 0, 7) \in Nat /\ bf_extract(v, 4, 4) \in Nat
           /\ bf_extract(v, 5, 6) \in Nat /\ bf_extract(v, 8, 1) \in Nat
           /\ bf_extract(v, 8, 4) \in Nat
           /\ bf_extract(v, 0, 11) \in Nat
BY SMT DEF bf_extract

\* (high << 16) | low is a uint32_t.
LEMMA JoinFits ==
    ASSUME NEW h \in Nat, NEW l \in Nat, l < 65536
    PROVE  Join(h, l) \in Uint32
<1> DEFINE q == PcModulus \div 65536
           r == h % q
<1>1. q \in Nat \ {0} /\ PcModulus = 65536 * q
    BY WordAssumption, ModulusIsNat, SMT
<1> HIDE DEF q
<1>2. r \in 0..(q - 1)
    BY <1>1, SMT
<1> HIDE DEF r
<1>3. r * 65536 + l \in 0..(65536 * q - 1)
    BY <1>1, <1>2, SMT
<1> QED
    BY <1>1, <1>3 DEF Join, Uint32, q, r

LEMMA JoinedField ==
    ASSUME NEW h \in Nat, NEW v \in Nat
    PROVE  Join(h, bf_extract(v, 0, 11)) \in Uint32
<1> DEFINE l == bf_extract(v, 0, 11)
<1>1. l \in Nat /\ l < 65536
    BY SMT DEF bf_extract
<1> HIDE DEF l
<1>2. Join(h, l) \in Uint32
    BY <1>1, JoinFits
<1> QED
    BY <1>2, Zenon DEF l

LEMMA WordTuples ==
    ASSUME NEW S
    PROVE  /\ << >> \in Seq(S)
           /\ \A a \in S : <<a>> \in Seq(S)
           /\ \A a, b \in S : <<a, b>> \in Seq(S)
           /\ \A a, b, c \in S : <<a, b, c>> \in Seq(S)
           /\ \A a, b, c, d \in S : <<a, b, c, d>> \in Seq(S)
           /\ \A a, b, c, d, e \in S : <<a, b, c, d, e>> \in Seq(S)
           /\ \A a, b, c, d, e, f \in S : <<a, b, c, d, e, f>> \in Seq(S)
           /\ \A s, t \in Seq(S) : s \o t \in Seq(S)
OBVIOUS

LEMMA OpsOfLine ==
    ASSUME NEW ops, NEW addrs, NEW lookups
    PROVE  /\ ShowsNumbers(Line(ops, addrs, lookups)) <=> ops \in Seq(Uint32)
           /\ ShowsNumbers(Plain(ops)) <=> ops \in Seq(Uint32)
BY Zenon DEF ShowsNumbers, Line, Plain

LEMMA NumbersOf16 ==
    ASSUME NEW i \in [0..4 -> Halfword], NEW pc
    PROVE  /\ ShowsNumbers(i16_swi(i)) /\ ShowsNumbers(i16_b(i))
           /\ ShowsNumbers(i16_switch(i)) /\ ShowsNumbers(i16_version(i))
           /\ ShowsNumbers(i16_swi_u(i)) /\ ShowsNumbers(i16_ldm_stm(i))
           /\ ShowsNumbers(i16_ld_st_sp(i)) /\ ShowsNumbers(i16_ldw_stw(i))
           /\ ShowsNumbers(i16_add_sp(i)) /\ ShowsNumbers(i16_b_cond(i, pc))
           /\ ShowsNumbers(i16_ld_st(i)) /\ ShowsNumbers(i16_alu_op(i))
<1> DEFINE w == i[0]
<1>0. w \in Nat
    BY NumbersAreInt
<1>n. bf_extract(w, 0, 5) \in Nat
    BY <1>0, FieldsAreNumbers
<1> HIDE DEF w
<1>1. /\ ShowsNumbers(i16_swi(i)) /\ ShowsNumbers(i16_b(i))
      /\ ShowsNumbers(i16_switch(i)) /\ ShowsNumbers(i16_version(i))
    BY <1>0, ShortFields, ShownNumbers, WordTuples, OpsOfLine, Zenon
       DEF w, i16_swi, i16_b, i16_switch, i16_version, Flag
<1>2. ShowsNumbers(i16_swi_u(i))
    BY <1>0, ShortFields, ShownNumbers, WordTuples, OpsOfLine, Zenon DEF w, i16_swi_u
<1>3. ShowsNumbers(i16_ld_st_sp(i)) /\ ShowsNumbers(i16_ld_st(i))
    BY <1>0, ShortFields, ShownNumbers, WordTuples, OpsOfLine, Zenon
       DEF w, i16_ld_st_sp, i16_ld_st, Flag
<1>4. ShowsNumbers(i16_ldw_stw(i))
    BY <1>0, ShortFields, ShownNumbers, WordTuples, OpsOfLine, Zenon DEF w, i16_ldw_stw, Flag
<1>5. ShowsNumbers(i16_ldm_stm(i))
    <2> DEFINE rb == <<0, 6, 16, 24>>[bf_extract(w, 5, 2) + 1]
               rm == (rb + bf_extract(w, 0, 5)) % 32
    <2>1. rb \in {0, 6, 16, 24}
        BY <1>0, ShortFields
    <2>3. rb \in 0..63 /\ rm \in 0..63
        <3> HIDE DEF rb
        <3> QED
            BY <1>n, <2>1, SMT
    <2>4. rb \in Uint32 /\ rm \in Uint32
        BY <2>3, ShownNumbers, Zenon
    <2>5. i16_ldm_stm(i) = Plain(<<Flag(w, 7), rb, rm, Flag(w, 8)>>)
        BY DEF i16_ldm_stm, w
    <2>6. Flag(w, 7) \in Uint32 /\ Flag(w, 8) \in Uint32
        BY <1>0, ShortFields, ShownNumbers, Zenon DEF Flag
    <2> HIDE DEF rb, rm
    <2> QED
        BY <2>4, <2>5, <2>6, WordTuples, OpsOfLine, Zenon
<1>6. ShowsNumbers(i16_add_sp(i))
    <2>1. bf_extract(w, 5, 6) \in Int
        BY <1>0, FieldsAreNumbers
    <2> QED
        BY <1>0, <2>1, ShortFields, ShownNumbers, WordTuples, OpsOfLine, Zenon DEF w, i16_add_sp
<1>7. ShowsNumbers(i16_b_cond(i, pc))
    <2>1. bf_extract(w, 0, 7) \in Int
        BY <1>0, ShortFields
    <2> QED
        BY <1>0, <2>1, ShortFields, ShownNumbers, WordTuples, OpsOfLine, Zenon DEF w, i16_b_cond
<1>8. ShowsNumbers(i16_alu_op(i))
    <2> DEFINE op == IF Flag(w, 13) = 1 THEN 2 * bf_extract(w, 9, 4) ELSE bf_extract(w, 8, 5)
               Rd == bf_extract(w, 0, 4)
               Rs == bf_extract(w, 4, 4)
               known == {Lookup(ScalarNames, op)}
               target == <<print_abs_addr(bf_extract(w, 4, 5))>>
    <2>1. op \in Uint32 /\ Rd \in Uint32 /\ Rs \in Uint32 /\ 0 \in Uint32 /\ 1 \in Uint32
        <3>1. 0 \in 0..63 /\ 1 \in 0..63
            OBVIOUS
        <3> QED
            BY <1>0, <3>1, ShortFields, ShownNumbers, Zenon
    <2>2. i16_alu_op(i) = IF Flag(w, 13) = 1 THEN Line(<<1, op, Rd>>, target, known)
                                             ELSE Line(<<0, op, Rd, Rs>>, << >>, known)
        BY DEF i16_alu_op, w
    <2> HIDE DEF op, Rd, Rs, known, target
    <2>3. /\ ShowsNumbers(Line(<<1, op, Rd>>, target, known))
          /\ ShowsNumbers(Line(<<0, op, Rd, Rs>>, << >>, known))
        BY <2>1, WordTuples, OpsOfLine, Zenon
    <2> QED
        BY <2>2, <2>3, Zenon
<1> QED
    BY <1>1, <1>2, <1>3, <1>4, <1>5, <1>6, <1>7, <1>8

LEMMA NumbersOf32 ==
    ASSUME NEW i \in [0..4 -> Halfword], NEW pc
    PROVE  /\ ShowsNumbers(i32_addcmpb(i, pc)) /\ ShowsNumbers(i32_b(i, pc))
           /\ ShowsNumbers(i32_ld_st_cond_indexed(i)) /\ ShowsNumbers(i32_ld_st_pre_post(i))
           /\ ShowsNumbers(i32_ld_st_disp_12(i)) /\ ShowsNumbers(i32_ld_st_disp_16(i, pc))
           /\ ShowsNumbers(i32_alu_op(i)) /\ ShowsNumbers(i32_alu_add(i))
           /\ ShowsNumbers(i32_alu_add_pc(i, pc)) /\ ShowsNumbers(i32_alu_cond(i))
           /\ ShowsNumbers(i32_alu_fop(i)) /\ ShowsNumbers(FloatConversion(i))
           /\ ShowsNumbers(i32_p_control(i))
<1> DEFINE w == i[0]
           x == i[1]
<1>0. w \in Nat /\ x \in Nat
    BY NumbersAreInt
<1>k. x \in Int
    BY <1>0
<1>f. Flag(w, 8) \in Nat /\ bf_extract(x, 0, 11) \in Nat
    BY <1>0, FieldsAreNumbers DEF Flag
<1> HIDE DEF w, x
<1>1. ShowsNumbers(i32_addcmpb(i, pc))
    <2> DEFINE mode == bf_extract(x, 14, 2)
               cond == bf_extract(w, 8, 4)
               rd == bf_extract(w, 0, 4)
               a == IF mode % 2 = 0 THEN bf_extract(w, 4, 4)
                                    ELSE sign_extend(bf_extract(w, 4, 4), 4)
               last == IF mode < 2 THEN bf_extract(x, 10, 4) ELSE bf_extract(x, 8, 6)
               o == UInt(2 * IF mode < 2 THEN sign_extend(bf_extract(x, 0, 10), 10)
                                         ELSE sign_extend(bf_extract(x, 0, 8), 8))
    <2>1. mode \in Uint32 /\ cond \in Uint32 /\ rd \in Uint32 /\ last \in Uint32
        BY <1>0, ShortFields, ShownNumbers, Zenon
    <2>7. bf_extract(w, 4, 4) \in Int
        BY <1>0, FieldsAreNumbers
    <2>2. bf_extract(w, 4, 4) \in Int /\ bf_extract(w, 4, 4) \in Uint32
        BY <1>0, <2>7, ShortFields, ShownNumbers, Zenon
    <2>3. a \in Uint32
        BY <2>2, ShownNumbers, Zenon
    <2>4. bf_extract(x, 0, 10) \in Int /\ bf_extract(x, 0, 8) \in Int
        BY <1>0, ShortFields
    <2>5. o \in Uint32
        BY <2>4, ShownNumbers, Zenon
    <2>6. i32_addcmpb(i, pc) = Line(<<mode, cond, rd, a, last, o>>, <<print_abs_addr(pc + o)>>,
                                    {Lookup(ConditionNames, cond)})
        BY DEF i32_addcmpb, w, x
    <2> HIDE DEF mode, cond, rd, a, last, o
    <2> QED
        BY <2>1, <2>3, <2>5, <2>6, WordTuples, OpsOfLine, Zenon
<1>2. ShowsNumbers(i32_b(i, pc))
    <2> DEFINE high == bf_extract(w, 8, 4)
               low == bf_extract(w, 0, 7) * 65536 + x
               long == high * 2^23 + low
               o == UInt(2 * IF Flag(w, 7) = 1 THEN sign_extend(long, 27)
                                               ELSE sign_extend(low, 23))
               target == <<print_abs_addr(pc + o)>>
    <2>1. high \in Uint32 /\ 0 \in Uint32 /\ 1 \in Uint32
        <3>1. 0 \in 0..63 /\ 1 \in 0..63
            OBVIOUS
        <3> QED
            BY <1>0, <3>1, ShortFields, ShownNumbers, Zenon
    <2>2. high \in Nat /\ bf_extract(w, 0, 7) \in Nat
        BY <1>0, FieldsAreNumbers
    <2>3. low \in Int /\ long \in Int
        <3> HIDE DEF high
        <3> QED
            BY <1>0, <2>2, SMT
    <2> HIDE DEF low, long
    <2>4. o \in Uint32
        BY <2>3, ShownNumbers, Zenon
    <2>5. i32_b(i, pc) = IF Flag(w, 7) = 1 THEN Line(<<1, o>>, target, {})
                         ELSE Line(<<0, high, o>>, target, {Lookup(ConditionNames, high)})
        BY DEF i32_b, w, x, low, long
    <2> HIDE DEF o, high, target
    <2>6. /\ ShowsNumbers(Line(<<1, o>>, target, {}))
          /\ ShowsNumbers(Line(<<0, high, o>>, target, {Lookup(ConditionNames, high)}))
        BY <2>1, <2>4, WordTuples, OpsOfLine, Zenon
    <2> QED
        BY <2>5, <2>6, Zenon
<1>3. ShowsNumbers(i32_ld_st_cond_indexed(i))
    <2>1. /\ Flag(w, 5) \in Uint32 /\ bf_extract(w, 6, 2) \in Uint32
          /\ bf_extract(x, 7, 4) \in Uint32 /\ bf_extract(w, 0, 5) \in Uint32
          /\ bf_extract(x, 11, 5) \in Uint32 /\ bf_extract(x, 0, 5) \in Uint32
        BY <1>0, ShortFields, ShownNumbers, Zenon DEF Flag
    <2> QED
        BY <2>1, WordTuples, OpsOfLine, Zenon DEF w, x, i32_ld_st_cond_indexed
<1>4. ShowsNumbers(i32_ld_st_pre_post(i))
    <2>1. /\ Flag(w, 5) \in Uint32 /\ vc4_operand_size(bf_extract(w, 6, 2)) \in Uint32
          /\ bf_extract(x, 7, 4) \in Uint32 /\ bf_extract(w, 0, 5) \in Uint32
          /\ bf_extract(x, 11, 5) \in Uint32 /\ Flag(w, 8) \in Uint32
        BY <1>0, ShortFields, ShownNumbers, Zenon DEF Flag
    <2> QED
        BY <2>1, WordTuples, OpsOfLine, Zenon DEF w, x, i32_ld_st_pre_post
<1>5. ShowsNumbers(i32_ld_st_disp_12(i))
    <2> DEFINE v == Flag(w, 8) * 2^11 + bf_extract(x, 0, 11)
    <2>1. v \in Int
        BY <1>f, SMT
    <2> HIDE DEF v
    <2>2. /\ Flag(w, 5) \in Uint32 /\ vc4_operand_size(bf_extract(w, 6, 2)) \in Uint32
          /\ bf_extract(w, 0, 5) \in Uint32 /\ bf_extract(x, 11, 5) \in Uint32
          /\ sign_extend(v, 12) \in Uint32
        BY <1>0, <2>1, ShortFields, ShownNumbers, Zenon DEF Flag
    <2> QED
        BY <2>2, WordTuples, OpsOfLine, Zenon DEF w, x, v, i32_ld_st_disp_12
<1>6. ShowsNumbers(i32_ld_st_disp_16(i, pc))
    <2>1. /\ Flag(w, 5) \in Uint32 /\ vc4_operand_size(bf_extract(w, 6, 2)) \in Uint32
          /\ bf_extract(w, 0, 5) \in Uint32 /\ bf_extract(w, 8, 2) \in Uint32
          /\ sign_extend(x, 16) \in Uint32
        BY <1>0, <1>k, ShortFields, ShownNumbers, Zenon DEF Flag
    <2> QED
        BY <2>1, WordTuples, OpsOfLine, Zenon DEF w, x, i32_ld_st_disp_16
<1>7. ShowsNumbers(i32_alu_op(i)) /\ ShowsNumbers(i32_alu_add(i)) /\ ShowsNumbers(i32_alu_add_pc(i, pc))
    <2>1. /\ bf_extract(w, 5, 5) \in Uint32 /\ bf_extract(w, 0, 5) \in Uint32
          /\ sign_extend(x, 16) \in Uint32
        BY <1>0, <1>k, ShortFields, ShownNumbers, Zenon
    <2> QED
        BY <2>1, WordTuples, OpsOfLine, Zenon DEF w, x, i32_alu_op, i32_alu_add, i32_alu_add_pc
<1>8. ShowsNumbers(i32_alu_cond(i))
    <2> DEFINE is_i == Flag(x, 6)
               last == IF is_i = 1 THEN sign_extend(bf_extract(x, 0, 6), 16)
                                   ELSE bf_extract(x, 0, 5)
               cond == bf_extract(x, 7, 4)
               ra == bf_extract(x, 11, 5)
               rd == bf_extract(w, 0, 5)
               op == bf_extract(w, 5, 6)
               regs == CASE op = 0 -> <<rd>> [] op = 10 -> <<ra>> [] OTHER -> <<rd, ra>>
               known == {Lookup(ScalarNames, op), Lookup(ConditionNames, cond)}
    <2>1. bf_extract(x, 0, 6) \in Int
        BY <1>0, FieldsAreNumbers
    <2>2. /\ is_i \in Uint32 /\ last \in Uint32 /\ cond \in Uint32 /\ ra \in Uint32
          /\ rd \in Uint32 /\ op \in Uint32
        BY <1>0, <2>1, ShortFields, ShownNumbers, Zenon DEF Flag
    <2>3. i32_alu_cond(i) = Line(<<op, cond, is_i, last>> \o regs, << >>, known)
        BY DEF i32_alu_cond, w, x
    <2> HIDE DEF is_i, last, cond, ra, rd, op, known
    <2>4. regs \in {<<rd>>, <<ra>>, <<rd, ra>>}
        BY Zenon
    <2>5. <<rd>> \in Seq(Uint32) /\ <<ra>> \in Seq(Uint32) /\ <<rd, ra>> \in Seq(Uint32)
        BY <2>2, WordTuples, Zenon
    <2> HIDE DEF regs
    <2>6. regs \in Seq(Uint32)
        BY <2>4, <2>5, Zenon
    <2> QED
        BY <2>2, <2>3, <2>6, WordTuples, OpsOfLine, Zenon
<1>9. ShowsNumbers(i32_alu_fop(i))
    <2> DEFINE fop == bf_extract(w, 5, 4)
               cond == bf_extract(x, 7, 4)
               regs == <<bf_extract(w, 0, 5), bf_extract(x, 11, 5), bf_extract(x, 0, 5)>>
               shown == IF fop < 3 THEN regs ELSE << >>
               known == {Lookup(FloatNames, fop), Lookup(ConditionNames, cond)}
    <2>1. /\ fop \in Uint32 /\ cond \in Uint32 /\ bf_extract(w, 0, 5) \in Uint32
          /\ bf_extract(x, 11, 5) \in Uint32 /\ bf_extract(x, 0, 5) \in Uint32
        BY <1>0, ShortFields, ShownNumbers, Zenon
    <2>2. i32_alu_fop(i) = Line(<<fop, cond>> \o shown, << >>, known)
        BY DEF i32_alu_fop, w, x
    <2>3. shown \in Seq(Uint32)
        BY <2>1, WordTuples, Zenon
    <2> HIDE DEF fop, cond, shown, known
    <2> QED
        BY <2>1, <2>2, <2>3, WordTuples, OpsOfLine, Zenon
<1>10. ShowsNumbers(FloatConversion(i)) /\ ShowsNumbers(i32_p_control(i))
    <2>1. /\ bf_extract(x, 7, 4) \in Uint32 /\ bf_extract(w, 0, 5) \in Uint32
          /\ bf_extract(x, 11, 5) \in Uint32 /\ bf_extract(x, 0, 6) \in Uint32
          /\ Flag(w, 5) \in Uint32 /\ bf_extract(x, 0, 5) \in Uint32
        BY <1>0, ShortFields, ShownNumbers, Zenon DEF Flag
    <2> QED
        BY <2>1, WordTuples, OpsOfLine, Zenon DEF w, x, FloatConversion, i32_p_control
<1> QED
    BY <1>1, <1>2, <1>3, <1>4, <1>5, <1>6, <1>7, <1>8, <1>9, <1>10, Zenon

LEMMA NumbersOf48 ==
    ASSUME NEW i \in [0..4 -> Halfword], NEW pc
    PROVE  /\ ShowsNumbers(i48_b(i, pc)) /\ ShowsNumbers(i48_add_pc_rel(i, pc))
           /\ ShowsNumbers(i48_add_ld_st(i, pc))
           /\ ShowsNumbers(i48_alu_op(i)) /\ ShowsNumbers(i48_alu_add(i))
<1> DEFINE w == i[0]
           x == i[1]
           o == Join(i[2], bf_extract(x, 0, 11))
<1>0. w \in Nat /\ x \in Nat /\ x < 65536 /\ i[2] \in Nat
    BY HalfwordBound
<1>1. Operand32(i) \in Uint32
    BY <1>0, JoinFits DEF Operand32
<1>2. o \in Uint32
    <2>1. x \in Nat /\ i[2] \in Nat
        BY <1>0
    <2> QED
        BY <2>1, JoinedField, Zenon
<1> HIDE DEF w, x, o
<1>7. w \in Nat
    BY <1>0
<1>8. x \in Nat
    BY <1>0
<1>3. /\ Flag(w, 9) \in Uint32 /\ Flag(w, 8) \in Uint32 /\ Flag(w, 5) \in Uint32
      /\ bf_extract(w, 0, 5) \in Uint32 /\ bf_extract(w, 5, 5) \in Uint32
      /\ vc4_operand_size(bf_extract(w, 6, 2)) \in Uint32
    BY <1>7, ShortFields, ShownNumbers, Zenon DEF Flag
<1>4. ShowsNumbers(i48_b(i, pc)) /\ ShowsNumbers(i48_add_pc_rel(i, pc))
    BY <1>1, <1>3, WordTuples, OpsOfLine, Zenon DEF w, i48_b, i48_add_pc_rel
<1>5. ShowsNumbers(i48_alu_op(i)) /\ ShowsNumbers(i48_alu_add(i))
    BY <1>1, <1>3, WordTuples, OpsOfLine, Zenon DEF w, i48_alu_op, i48_alu_add
<1>6. ShowsNumbers(i48_add_ld_st(i, pc))
    <2> DEFINE rs == IF Flag(w, 8) = 1 THEN 0 ELSE bf_extract(x, 11, 5)
    <2>1. rs \in Uint32
        <3>1. 0 \in 0..63
            OBVIOUS
        <3> QED
            BY <1>8, <3>1, ShortFields, ShownNumbers, Zenon
    <2>2. i48_add_ld_st(i, pc) =
            Line(<<Flag(w, 5), vc4_operand_size(bf_extract(w, 6, 2)), bf_extract(w, 0, 5),
                   Flag(w, 8), rs, o>>,
                 IF Flag(w, 8) = 1 THEN <<print_abs_addr(pc + o)>> ELSE << >>, {})
        BY DEF i48_add_ld_st, w, x, o
    <2> HIDE DEF rs
    <2> QED
        BY <1>2, <1>3, <2>1, <2>2, WordTuples, OpsOfLine, Zenon
<1> QED
    BY <1>4, <1>5, <1>6

\* Every printer but those of vector operations.
LEMMA PrintShowsNumbers ==
    ASSUME NEW entry, entry \notin DOMAIN VectorPlaces,
           NEW i \in [0..4 -> Halfword], NEW pc, NEW b
    PROVE  ShowsNumbers(print(entry, i, pc, b))
<1>1. entry # "i48_data_vop" /\ entry # "i80_mem_op" /\ entry # "i80_data_op"
    BY DEF VectorPlaces
<1>2. ShowsNumbers(Plain(<< >>))
    BY WordTuples, OpsOfLine, Zenon
<1> QED
    BY <1>1, <1>2, NumbersOf16, NumbersOf32, NumbersOf48, Zenon DEF print

-----------------------------------------------------------------------------
(***************************************************************************)
(* The loop's variables have their types.                                  *)
(***************************************************************************)
LEMMA RowIsTyped ==
    ASSUME Place, Dump!TypeOK, at = "print"
    PROVE  Dump!Row \in Dump!RowType
<1> DEFINE w == [n \in 0..(instr_sz \div 2 - 1) |-> instr[n]]
<1>1. /\ instr \in [0..4 -> Halfword] /\ instr_sz \in {2, 4, 6, 10}
      /\ pos - instr_sz \div 2 \in Nat
    BY DEF Place, Begun
<1>2. w \in [0..0 -> Halfword] \cup [0..1 -> Halfword] \cup
           [0..2 -> Halfword] \cup [0..4 -> Halfword]
    <2>1. CASE instr_sz = 2
        BY <1>1, <2>1
    <2>2. CASE instr_sz = 4
        BY <1>1, <2>2
    <2>3. CASE instr_sz = 6
        BY <1>1, <2>3
    <2>4. CASE instr_sz = 10
        BY <1>1, <2>4
    <2> QED
        BY <1>1, <2>1, <2>2, <2>3, <2>4
<1>3. Dump!vc4_decode_instr(instr) \in Dump!Entries
    <2>1. Dump!Entries = Entries
        BY SameChains, Zenon
           DEF Dump!Entries, Entries, Dump!EntriesOf, EntriesOf, Dump!NoEntry, NoEntry
    <2> QED
        BY <1>1, <2>1, SameDecoder, DecodeIsEntry
<1>4. current_pc \in 0..(PcModulus - 1)
    BY DEF Dump!TypeOK
<1> DEFINE e == Dump!vc4_decode_instr(instr)
           start == pos - instr_sz \div 2
<1>5. Dump!Row = [start |-> start, addr |-> current_pc, size |-> instr_sz,
                  words |-> w, entry |-> e]
    BY DEF Dump!Row
<1>6. e \in Dump!Entries /\ start \in Nat
    BY <1>1, <1>3
<1>7. Dump!Halfword = Halfword
    BY DEF Dump!Halfword, Halfword
<1> HIDE DEF w, e, start
<1> QED
    BY <1>1, <1>2, <1>4, <1>5, <1>6, <1>7 DEF Dump!RowType

LEMMA InitTyped == Init => Dump!TypeOK
<1> SUFFICES ASSUME Init PROVE Dump!TypeOK
    OBVIOUS
<1>1. Init => IInv
    BY InitInv
<1>2. image \in Seq(Halfword) /\ instr \in [0..4 -> Halfword]
    BY <1>1 DEF IInv, Place
<1>3. /\ pos = 0 /\ instr_sz = 0 /\ current_pc = BaseAddr /\ at = "main" /\ listing = << >>
    BY DEF Init, Dump!Init
<1>4. pos \in 0..Len(image) /\ listing \in Seq(Dump!RowType)
    BY <1>2, <1>3
<1>5. current_pc \in 0..(PcModulus - 1)
    BY <1>3, DumpAssumption
<1>6. Dump!Halfword = Halfword
    BY DEF Dump!Halfword, Halfword
<1> QED
    BY <1>2, <1>3, <1>4, <1>5, <1>6 DEF Dump!TypeOK

LEMMA NextTyped == IInv /\ Dump!TypeOK /\ [Next]_vars => Dump!TypeOK'
<1> SUFFICES ASSUME IInv, Dump!TypeOK, [Next]_vars
             PROVE  Dump!TypeOK'
    OBVIOUS
<1> USE DEF Dump!FetchPoints
<1>h. Dump!Halfword = Halfword
    BY DEF Dump!Halfword, Halfword
<1>0. /\ image \in Seq(Halfword) /\ Len(image) \in Nat /\ pos \in 0..Len(image)
      /\ instr \in [0..4 -> Halfword] /\ instr_sz \in {0, 2, 4, 6, 10}
      /\ current_pc \in 0..(PcModulus - 1)
      /\ at \in {"main", "seek", "print", "done"} \cup Dump!FetchPoints
      /\ listing \in Seq(Dump!RowType)
    BY <1>h DEF Dump!TypeOK
<1>1. \A n \in 1..Len(image) : image[n] \in Halfword
    BY <1>0
<1>2. CASE Dump!PrintRow
    <2>1. /\ at = "print" /\ at' = "fetch1" /\ listing' = Append(listing, Dump!Row)
          /\ current_pc' = (current_pc + instr_sz) % PcModulus
          /\ UNCHANGED <<image, pos, instr, instr_sz>>
        BY <1>2 DEF Dump!PrintRow
    <2>2. Dump!Row \in Dump!RowType
        BY <2>1, RowIsTyped DEF IInv
    <2>3. listing' \in Seq(Dump!RowType)
        <3> DEFINE r == Dump!Row
        <3>1. r \in Dump!RowType /\ listing' = Append(listing, r)
            BY <2>1, <2>2
        <3> HIDE DEF r
        <3> QED
            BY <1>0, <3>1
    <2>4. current_pc' \in 0..(PcModulus - 1)
        <3>1. current_pc + instr_sz \in Int
            BY <1>0
        <3> QED
            BY <2>1, <3>1, ModulusIsNat, SMT
    <2> QED
        BY <1>0, <1>h, <2>1, <2>3, <2>4 DEF Dump!TypeOK
<1>3. CASE Dump!FetchFirst \/ Dump!FetchSecond \/ Dump!FetchThird \/ Dump!FetchLast
    <2>1. /\ UNCHANGED <<image, current_pc, listing>>
          /\ pos' \in 0..Len(image)
          /\ instr_sz' \in {0, 2, 4, 6, 10}
          /\ at' \in {"print", "fetch2", "fetch3", "fetch4"}
        BY <1>0, <1>3 DEF Dump!FetchFirst, Dump!FetchSecond, Dump!FetchThird, Dump!FetchLast,
           Dump!Available, Dump!Out, Dump!More
    <2>2. instr' \in [0..4 -> Halfword]
        <3>1. CASE Dump!FetchFirst
            <4>1. pos + 1 \in 1..Len(image) /\ instr' = [instr EXCEPT ![0] = image[pos + 1]]
                BY <1>0, <3>1 DEF Dump!FetchFirst, Dump!Available
            <4> QED
                BY <1>0, <1>1, <4>1
        <3>2. CASE Dump!FetchSecond \/ Dump!FetchThird
            <4>1. pos + 1 \in 1..Len(image) /\ instr' = [instr EXCEPT ![2] = image[pos + 1]]
                BY <1>0, <3>2 DEF Dump!FetchSecond, Dump!FetchThird, Dump!Available
            <4> QED
                BY <1>0, <1>1, <4>1
        <3>3. CASE Dump!FetchLast
            <4>1. /\ pos + 1 \in 1..Len(image) /\ pos + 2 \in 1..Len(image)
                  /\ instr' = [instr EXCEPT ![3] = image[pos + 1], ![4] = image[pos + 2]]
                BY <1>0, <3>3 DEF Dump!FetchLast, Dump!Available
            <4> QED
                BY <1>0, <1>1, <4>1
        <3> QED
            BY <1>3, <3>1, <3>2, <3>3
    <2> QED
        BY <1>0, <1>h, <2>1, <2>2 DEF Dump!TypeOK
<1>4. CASE Dump!OpenImage \/ Dump!Seek \/ Dump!MainFails \/ Dump!SeekFails \/ Dump!FetchFails
    <2>1. /\ UNCHANGED <<image, pos, instr, instr_sz, current_pc, listing>>
          /\ at' \in {"seek", "fetch1", "done"}
        BY <1>4 DEF Dump!OpenImage, Dump!Seek, Dump!MainFails, Dump!SeekFails, Dump!FetchFails
    <2> QED
        BY <1>0, <1>h, <2>1 DEF Dump!TypeOK
<1>5. CASE UNCHANGED dumpVars
    BY <1>0, <1>5, <1>h DEF Dump!TypeOK, dumpVars
<1> QED
    BY <1>2, <1>3, <1>4, <1>5 DEF Next, PrintLine, Crash, Fetching, Ended, vars

-----------------------------------------------------------------------------
\* The loop stays within its control points and its variables within their
\* types; rows and lines come in pairs, and every number of a line, but for
\* vector operands, is a 32-bit one.
THEOREM TypeCorrect == Spec => []TypeOK
<1>1. Spec => [](IInv /\ ToldInv /\ Dump!TypeOK)
    BY InitInv, NextInv, InitTold, NextTold, InitTyped, NextTyped, PTL DEF Spec
<1>2. ASSUME IInv, ToldInv, Dump!TypeOK
      PROVE  TypeOK
    <2>1. /\ Len(lines) = Len(listing) /\ crashed \in BOOLEAN
          /\ \A n \in Printed : IsLine(lines[n])
        BY <1>2, Zenon DEF IInv, RowsGood, RowGood, CrashKnown, Printed
    <2>2. ASSUME NEW n \in Printed, listing[n].entry \notin DOMAIN VectorPlaces
          PROVE  lines[n].ops \in Seq(Uint32)
        <3> DEFINE row == listing[n]
                   l == lines[n]
                   a == RowAddress(row)
        <3>1. PICK i \in [0..4 -> Halfword] :
                 /\ row.entry = NoEntry => l = Plain([k \in 1..WordsShown(i[0]) |-> i[k - 1]])
                 /\ row.entry # NoEntry => \E b : l = print(row.entry, i, a, b)
            BY <1>2, Zenon DEF ToldInv, RowsTold, RowTold
        <3> HIDE DEF a
        <3>2. CASE row.entry = NoEntry
            <4> DEFINE s == [k \in 1..WordsShown(i[0]) |-> i[k - 1]]
            <4>1. WordsShown(i[0]) \in {1, 2, 3, 5}
                BY Zenon DEF WordsShown
            <4>2. s \in Seq(Uint32)
                <5> DEFINE N == WordsShown(i[0])
                <5>1. N \in {1, 2, 3, 5}
                    BY <4>1
                <5> HIDE DEF N
                <5>2. \A k \in 1..N : i[k - 1] \in Halfword
                    BY <5>1
                <5>3. \A k \in 1..N : i[k - 1] \in Uint32
                    BY <5>2, ShownNumbers, Zenon
                <5>4. N \in Nat
                    BY <5>1
                <5>5. [k \in 1..N |-> i[k - 1]] \in Seq(Uint32)
                    BY <5>3, <5>4
                <5> QED
                    BY <5>5 DEF N
            <4> HIDE DEF s
            <4>3. l = Plain(s)
                BY <3>1, <3>2 DEF s
            <4> QED
                BY <4>2, <4>3, OpsOfLine, Zenon DEF ShowsNumbers
        <3>3. CASE row.entry # NoEntry
            <4>1. PICK b : l = print(row.entry, i, a, b)
                BY <3>1, <3>3, Zenon
            <4>2. ShowsNumbers(print(row.entry, i, a, b))
                BY <2>2, PrintShowsNumbers, Zenon
            <4> QED
                BY <4>1, <4>2, Zenon DEF ShowsNumbers
        <3> QED
            BY <3>2, <3>3
    <2> QED
        BY <1>2, <2>1, <2>2, Zenon DEF TypeOK, IsLine, Uint32
<1>3. IInv /\ ToldInv /\ Dump!TypeOK => TypeOK
    BY <1>2
<1> QED
    BY <1>1, <1>3, PTL

-----------------------------------------------------------------------------
(***************************************************************************)
(* The 48-bit entries that count from the pc: their offset is the second   *)
(* and the third word, of which uint32_t keeps all but whole turns.        *)
(***************************************************************************)
LEMMA ModAddTurns ==
    ASSUME NEW y \in Int, NEW m \in Nat \ {0}, NEW c \in Int
    PROVE  (y + m * c) % m = y % m
<1> DEFINE q == y \div m
           u == (y + m * c) \div m
           r == y % m
           s == (y + m * c) % m
           z == y + m * c
           mc == m * c
           mq == m * q
           mu == m * u
<1>1. mc \in Int /\ z \in Int /\ z = y + mc
    BY SMT
<1>2. y = mq + r /\ r \in 0..(m - 1) /\ q \in Int
    BY DivMod
<1>3. z = mu + s /\ s \in 0..(m - 1) /\ u \in Int
    BY <1>1, DivMod
<1> HIDE DEF q, u, r, s, z
<1>4. m * (q + c) = mq + mc /\ q + c \in Int /\ mq \in Int /\ mu \in Int
    BY <1>2, <1>3, SMT
<1> HIDE DEF mc, mq, mu
<1>5. mu + s = (mq + mc) + r
    BY <1>1, <1>2, <1>3, <1>4, SMT
<1>6. m * u + s = m * (q + c) + r
    BY <1>4, <1>5, Zenon DEF mu
<1>7. r = s
    BY <1>2, <1>3, <1>4, <1>6, RemainderUnique
<1> QED
    BY <1>7, Zenon DEF r, s

\* A halfword that loses its upper turns of q, and 2^16 when it is read as a
\* signed one, lies a whole number of turns off.
LEMMA SignedTurns ==
    ASSUME NEW q \in Nat \ {0}, NEW w \in Nat, w % q = 0, NEW h \in Nat, NEW d \in Int,
           d = h \/ d = h - w
    PROVE  \E c \in Int : h % q = d + q * c
<1> DEFINE t == w \div q
           k == h \div q
           r == h % q
           qk == q * k
           qt == q * t
<1>1. h = qk + r /\ k \in Int /\ r \in Int
    BY DivMod, SMT
<1>2. w = qt + (w % q) /\ t \in Int
    BY DivMod, SMT
<1>3. q * (0 - k) = 0 - qk /\ q * (t - k) = qt - qk /\ qk \in Int /\ qt \in Int
    <2> HIDE DEF t, k
    <2> QED
        BY <1>1, <1>2, SMT
<1>4. 0 - k \in Int /\ t - k \in Int
    BY <1>1, <1>2
<1> SUFFICES \E c \in Int : r = d + q * c
    OBVIOUS
<1> HIDE DEF t, k, qk, qt, r
<1>5. CASE d = h
    <2>1. r = d + (0 - qk)
        BY <1>1, <1>3, <1>5
    <2>2. r = d + q * (0 - k)
        BY <1>3, <2>1
    <2> QED
        BY <1>4, <2>2, Zenon
<1>6. CASE d = h - w
    <2>1. qt = w
        BY <1>2, <1>3
    <2>2. r = d + (qt - qk)
        BY <1>1, <1>3, <1>6, <2>1
    <2>3. r = d + q * (t - k)
        BY <1>3, <2>2
    <2> QED
        BY <1>4, <2>3, Zenon
<1> QED
    BY <1>5, <1>6

LEMMA TurnsDropped ==
    ASSUME NEW m \in Nat \ {0}, NEW a \in Int, NEW o \in Int, NEW c \in Int,
           NEW x \in Int, NEW b \in Int, x = o + m * c, b = a + o
    PROVE  ((a % m) + x) % m = b % m
<1>1. ((a % m) + x) % m = (a + x) % m
    BY ModAdd
<1>2. (b + m * c) % m = b % m
    BY ModAddTurns
<1>3. a + x = b + m * c
    <2> DEFINE mc == m * c
    <2>1. mc \in Int /\ x = o + mc
        BY SMT
    <2> HIDE DEF mc
    <2>2. a + x = b + mc
        BY <2>1
    <2> QED
        BY <2>2 DEF mc
<1> QED
    BY <1>1, <1>2, <1>3, Zenon

LEMMA Turned ==
    ASSUME NEW w \in Int, NEW q \in Int, NEW r \in Int, NEW d \in Int, NEW c \in Int,
           NEW l \in Int, NEW m \in Int, m = w * q, r = d + q * c
    PROVE  r * w + l = (d * w + l) + m * c
<1> DEFINE qc == q * c
           dw == d * w
           wqc == w * qc
<1>1. qc \in Int /\ dw \in Int /\ wqc \in Int /\ m * c = wqc /\ r = d + qc
    BY SMT
<1>2. (d + qc) * w = dw + wqc
    <2> HIDE DEF qc
    <2> QED
        BY <1>1, SMT
<1> HIDE DEF qc, wqc
<1>3. r * w = dw + wqc
    BY <1>1, <1>2, Zenon
<1> HIDE DEF dw
<1>4. (dw + wqc) + l = (dw + l) + wqc
    BY <1>1, SMT
<1> QED
    BY <1>1, <1>3, <1>4, Zenon DEF dw

\* Two numbers the same modulo m.
TurnsApart(x, o, m) == \E c \in Int : x = o + m * c

LEMMA TurnsOff ==
    ASSUME NEW m \in Nat \ {0}, NEW q \in Nat \ {0}, NEW w \in Nat, m = w * q,
           w % q = 0, NEW h \in Nat, NEW d \in Int, d = h \/ d = h - w, NEW l \in Nat
    PROVE  TurnsApart((h % q) * w + l, d * w + l, m)
<1> DEFINE r == h % q
<1>1. r \in Int /\ q \in Int /\ m \in Int /\ w \in Int /\ l \in Int
    BY DivMod
<1>2. PICK c \in Int : r = d + q * c
    BY SignedTurns
<1> SUFFICES r * w + l = (d * w + l) + m * c
    BY DEF TurnsApart
<1> HIDE DEF r
<1> QED
    BY <1>1, <1>2, Turned

\* The high halfword is signed.
LEMMA JoinedAddress ==
    ASSUME NEW h \in Halfword, NEW l \in Nat, NEW a \in Int
    PROVE  print_abs_addr((a % PcModulus) + Join(h, l))
             = (a + (Signed(h, 16) * 65536 + l)) % PcModulus
<1> DEFINE w == 65536
           q == PcModulus \div w
           d == Signed(h, 16)
           r == h % q
           dw == d * w
           rw == r * w
           o == dw + l
           x == rw + l
           b == a + o
           m == PcModulus
<1>1. m \in Nat \ {0} /\ q \in Nat \ {0} /\ m = w * q
    BY WordAssumption, ModulusIsNat, SMT
<1>2. h \in Nat /\ w \in Nat /\ w \in Int
    BY HalfwordBound
<1>3. w % q = 0
    BY TurnsAssumption
<1>4. d \in Int /\ (d = h \/ d = h - w)
    BY <1>2, SMT DEF Signed
<1>5. r \in Int
    BY <1>1, <1>2, DivMod
<1>6. Join(h, l) = x
    BY DEF Join
<1> SUFFICES ((a % m) + x) % m = b % m
    BY <1>6 DEF print_abs_addr, UInt
<1> HIDE DEF w, q, d, m
<1>7. TurnsApart(r * w + l, d * w + l, m)
    BY <1>1, <1>2, <1>3, <1>4, TurnsOff, Zenon
<1> HIDE DEF r
<1>8. rw \in Int /\ dw \in Int
    BY <1>2, <1>4, <1>5, SMT
<1>9. PICK c \in Int : x = o + m * c
    BY <1>7, Zenon DEF TurnsApart
<1> HIDE DEF rw, dw
<1>10. x \in Int /\ o \in Int /\ b \in Int /\ b = a + o
    BY <1>8
<1> HIDE DEF x, o, b
<1> QED
    BY <1>1, <1>9, <1>10, TurnsDropped

LongEntries == {"i48_b", "i48_add_pc_rel", "i48_add_ld_st"}

\* Such an instruction is fetched as three words, unless it is 0xe000.
LEMMA ThreeWordsShown == \A w \in \hE001..\hE7FF : WordsShown(w) = 3
<1> SUFFICES ASSUME NEW w \in \hE001..\hE7FF PROVE WordsShown(w) = 3
    OBVIOUS
<1>1. w \in Nat /\ w > 57344 /\ w <= 59391
    BY SMT
<1>2. ~Dump!OneWord(w) /\ ~Dump!TwoWords(w) /\ Dump!ThreeWords(w)
    BY <1>1, SMT DEF Dump!OneWord, Dump!TwoWords, Dump!ThreeWords
<1> QED
    BY <1>2 DEF WordsShown

LEMMA TargetOfLongEntry ==
    ASSUME NEW i \in [0..4 -> Halfword], NEW words, NEW a \in Int, NEW b,
           NEW entry \in LongEntries,
           words[0] = i[0], words[1] = i[1], words[2] = i[2],
           entry = "i48_add_ld_st" => Bits(words[0], 8, 1) = 1
    PROVE  print(entry, i, a % PcModulus, b).addrs
             = <<(a + Distance(entry, words)) % PcModulus>>
<1>1. i[1] \in Nat /\ i[2] \in Halfword /\ bf_extract(i[1], 0, 11) \in Nat
    <2>1. i[1] \in Nat
        BY NumbersAreInt
    <2> QED
        BY <2>1, FieldsAreNumbers
<1> DEFINE pc == a % PcModulus
           whole == Signed(words[2], 16) * 65536 + words[1]
           short == Signed(words[2], 16) * 65536 + Bits(words[1], 0, 11)
           oWhole == Operand32(i)
           oShort == Join(i[2], bf_extract(i[1], 0, 11))
<1>2. print_abs_addr(pc + oWhole) = (a + whole) % PcModulus
    <2>1. print_abs_addr((a % PcModulus) + Join(i[2], i[1]))
            = (a + (Signed(i[2], 16) * 65536 + i[1])) % PcModulus
        <3> DEFINE h == i[2]
                   v == i[1]
        <3>1. h \in Halfword /\ v \in Nat
            BY <1>1
        <3> HIDE DEF h, v
        <3>2. print_abs_addr((a % PcModulus) + Join(h, v))
                = (a + (Signed(h, 16) * 65536 + v)) % PcModulus
            BY <3>1, JoinedAddress
        <3> QED
            BY <3>2 DEF h, v
    <2>2. oWhole = Join(i[2], i[1])
        BY DEF Operand32
    <2> HIDE DEF oWhole
    <2> QED
        BY <2>1, <2>2
<1>3. print_abs_addr(pc + oShort) = (a + short) % PcModulus
    <2> DEFINE h == i[2]
               v == bf_extract(i[1], 0, 11)
    <2>1. Bits(words[1], 0, 11) = v
        BY Zenon DEF Bits, bf_extract
    <2>2. h \in Halfword /\ v \in Nat
        BY <1>1
    <2> HIDE DEF h, v
    <2>3. print_abs_addr((a % PcModulus) + Join(h, v))
            = (a + (Signed(h, 16) * 65536 + v)) % PcModulus
        BY <2>2, JoinedAddress
    <2>4. words[2] = h /\ oShort = Join(h, v)
        BY DEF h, v
    <2> HIDE DEF oShort
    <2> QED
        BY <2>1, <2>3, <2>4
<1>4. /\ Distance("i48_b", words) = whole /\ Distance("i48_add_pc_rel", words) = whole
      /\ Distance("i48_add_ld_st", words) = short
    BY DEF Distance
<1> HIDE DEF pc, whole, short
<1>5. CASE entry = "i48_b"
    <2>1. print(entry, i, pc, b) = i48_b(i, pc)
        BY <1>5, Zenon DEF print
    <2>2. i48_b(i, pc).addrs = <<print_abs_addr(pc + oWhole)>>
        BY DEF i48_b, Line
    <2> QED
        BY <1>2, <1>4, <1>5, <2>1, <2>2, Zenon DEF pc
<1>6. CASE entry = "i48_add_pc_rel"
    <2>1. print(entry, i, pc, b) = i48_add_pc_rel(i, pc)
        BY <1>6, Zenon DEF print
    <2>2. i48_add_pc_rel(i, pc).addrs = <<print_abs_addr(pc + oWhole)>>
        BY DEF i48_add_pc_rel, Line
    <2> QED
        BY <1>2, <1>4, <1>6, <2>1, <2>2, Zenon DEF pc
<1>7. CASE entry = "i48_add_ld_st"
    <2>1. print(entry, i, pc, b) = i48_add_ld_st(i, pc)
        BY <1>7, Zenon DEF print
    <2>2. Flag(i[0], 8) = 1
        BY <1>7, Zenon DEF Bits, Flag, bf_extract
    <2>3. i48_add_ld_st(i, pc).addrs
            = IF Flag(i[0], 8) = 1 THEN <<print_abs_addr(pc + oShort)>> ELSE << >>
        BY DEF i48_add_ld_st, Line
    <2> QED
        BY <1>3, <1>4, <1>7, <2>1, <2>2, <2>3, Zenon DEF pc
<1> QED
    BY <1>5, <1>6, <1>7 DEF LongEntries

\* Every address that counts from the pc, in every file, is the one its words
\* say, modulo 2^32: branches of 16, 32 and 48 bits, additions to the pc, and
\* loads and stores relative to it.
THEOREM TargetsRight == Spec => []TargetsRelative
<1>1. Spec => [](IInv /\ ToldInv /\ Dump!TypeOK)
    BY InitInv, NextInv, InitTold, NextTold, InitTyped, NextTyped, PTL DEF Spec
<1>2. ASSUME IInv, ToldInv, Dump!TypeOK
      PROVE  TargetsRelative
    <2> SUFFICES ASSUME NEW n \in Printed, PcRelative(listing[n])
                 PROVE  lines[n].addrs = << (BaseAddr + 2 * listing[n].start
                            + Distance(listing[n].entry, listing[n].words)) % PcModulus >>
        BY Zenon DEF TargetsRelative
    <2> DEFINE row == listing[n]
               l == lines[n]
               a == BaseAddr + 2 * row.start
    <2>1. CASE row.entry \in RelativeEntries
        BY <1>2, <2>1, Zenon DEF IInv, RowsGood, RowGood, Printed
    <2>2. CASE row.entry \in LongEntries
        <3>1. PICK i \in [0..4 -> Halfword] :
                 /\ row.words = [k \in 0..(WordsShown(i[0]) - 1) |-> i[k]]
                 /\ row.entry = vc4_decode_instr(i)
                 /\ row.entry # NoEntry => \E b : l = print(row.entry, i, RowAddress(row), b)
            BY <1>2, Zenon DEF ToldInv, RowsTold, RowTold
        <3>2. row.entry # NoEntry
            BY <2>2 DEF LongEntries, NoEntry
        <3>3. PICK b : l = print(row.entry, i, a % PcModulus, b)
            BY <3>1, <3>2, Zenon DEF RowAddress
        <3>4. a \in Int
            <4>1. Len(lines) = Len(listing) /\ listing \in Seq(Dump!RowType)
                BY <1>2 DEF IInv, RowsGood, Dump!TypeOK
            <4>2. row \in Dump!RowType
                BY <4>1 DEF Printed
            <4>3. row.start \in Nat
                BY <4>2 DEF Dump!RowType
            <4>4. BaseAddr \in Int
                BY DumpAssumption, ModulusIsNat, SMT
            <4> QED
                BY <4>3, <4>4
        <3>5. FirstWordOf(row.entry, i[0])
            BY <3>1, EntryWords, Zenon
        <3>6. row.words[0] = i[0]
            <4>1. WordsShown(i[0]) \in {1, 2, 3, 5}
                BY Zenon DEF WordsShown
            <4> QED
                BY <3>1, <4>1
        <3>7. i[0] \in \hE001..\hE7FF
            <4>1. i[0] \in Nat
                BY NumbersAreInt
            <4>2. CASE row.entry \in {"i48_b", "i48_add_pc_rel"}
                <5>1. i[0] \in \hE000..\hE7FF
                    BY <3>5, <4>2 DEF FirstWordOf
                <5>2. i[0] # \hE000
                    BY <3>6, <4>2 DEF PcRelative
                <5> QED
                    BY <4>1, <5>1, <5>2, SMT
            <4>3. CASE row.entry = "i48_add_ld_st"
                <5>1. i[0] \in \hE600..\hE7FF
                    BY <3>5, <4>3 DEF FirstWordOf
                <5> QED
                    BY <4>1, <5>1, SMT
            <4> QED
                BY <2>2, <4>2, <4>3 DEF LongEntries
        <3>8. row.words = [k \in 0..2 |-> i[k]]
            <4>1. WordsShown(i[0]) = 3
                BY <3>7, ThreeWordsShown
            <4>2. row.words = [k \in 0..(3 - 1) |-> i[k]]
                BY <3>1, <4>1, Zenon
            <4> QED
                BY <4>2
        <3>9. row.words[1] = i[1] /\ row.words[2] = i[2]
            BY <3>8
        <3>10. row.entry = "i48_add_ld_st" => Bits(row.words[0], 8, 1) = 1
            BY DEF PcRelative
        <3> HIDE DEF a
        <3>11. print(row.entry, i, a % PcModulus, b).addrs
                 = <<(a + Distance(row.entry, row.words)) % PcModulus>>
            BY <2>2, <3>4, <3>6, <3>9, <3>10, TargetOfLongEntry
        <3> QED
            BY <3>3, <3>11, Zenon DEF a
    <2> QED
        BY <2>1, <2>2 DEF PcRelative, RelativeEntries, LongEntries
<1>3. IInv /\ ToldInv /\ Dump!TypeOK => TargetsRelative
    BY <1>2
<1> QED
    BY <1>1, <1>3, PTL
=============================================================================
