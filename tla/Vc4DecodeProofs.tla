-------------------------- MODULE Vc4DecodeProofs --------------------------
(***************************************************************************)
(* What the decoder answers, and arithmetic modulo the range of            *)
(* current_pc: lemmas that the proofs about the main loop and the listing  *)
(* share.                                                                  *)
(***************************************************************************)
EXTENDS Vc4Decode, WellFoundedInduction, TLAPS

-----------------------------------------------------------------------------
(***************************************************************************)
(* The decoder.                                                            *)
(***************************************************************************)
\* A nonempty set of naturals has a least element: Min is defined on it.
LEMMA MinIsMember ==
    ASSUME NEW S \in SUBSET Nat, S # {}
    PROVE  Min(S) \in S /\ \A y \in S : Min(S) <= y
<1> DEFINE R == OpToRel(<, Nat)
<1>1. \E x \in S : \A y \in S : ~(<<y, x>> \in R)
    <2>1. IsWellFoundedOn(R, Nat)
        BY NatLessThanWellFounded
    <2> HIDE DEF R
    <2> QED
        BY <2>1, WFMin, Zenon
<1>2. \A x, y \in Nat : y < x => <<y, x>> \in R
    BY SMT DEF OpToRel
<1> HIDE DEF R
<1>3. \A x, y \in Nat : y < x \/ x <= y
    BY SMT
<1>4. \E x \in S : \A y \in S : x <= y
    BY <1>1, <1>2, <1>3
<1> QED
    BY <1>4, Zenon DEF Min

\* The places of the rules that match.
Matching(chain, w0, w1) == {i \in 1..Len(chain) : Matches(chain[i], w0, w1)}

\* FirstMatch in terms of the rules that match.
LEMMA FirstMatchByRules ==
    ASSUME NEW chain, Len(chain) \in Nat, NEW w0, NEW w1
    PROVE  LET I == Matching(chain, w0, w1)
           IN  /\ I = {} => FirstMatch(chain, w0, w1) = NoEntry
               /\ I # {} => /\ Min(I) \in 1..Len(chain)
                            /\ FirstMatch(chain, w0, w1) = chain[Min(I)].entry
<1> DEFINE I == {i \in 1..Len(chain) : Matches(chain[i], w0, w1)}
<1>1. CASE I = {}
    BY <1>1, Zenon DEF FirstMatch, SelectInSeq, Matching
<1>2. CASE I # {}
    <2>1. I \in SUBSET Nat /\ \A i \in I : i \in 1..Len(chain) /\ i # 0
        BY SMT
    <2>2. Min(I) \in 1..Len(chain) /\ Min(I) # 0
        BY <1>2, <2>1, MinIsMember, Zenon
    <2>3. FirstMatch(chain, w0, w1) = chain[Min(I)].entry
        BY <1>2, <2>2, Zenon DEF FirstMatch, SelectInSeq
    <2>4. Matching(chain, w0, w1) = I
        BY Zenon DEF Matching
    <2> HIDE DEF I
    <2> QED
        BY <1>2, <2>2, <2>3, <2>4
<1> QED
    BY <1>1, <1>2

\* FirstMatch answers the entry of one of the chain's rules, or NoEntry: the
\* chains of "if" in vc4_decode.c return one of their entries or NULL.
LEMMA FirstMatchIsEntry ==
    ASSUME NEW chain, Len(chain) \in Nat, NEW w0, NEW w1
    PROVE  FirstMatch(chain, w0, w1) \in {NoEntry} \cup EntriesOf(chain)
BY FirstMatchByRules, Zenon DEF EntriesOf

\* There are four lengths.
LEMMA SizeCases ==
    ASSUME NEW w
    PROVE  DecodedSize(w) \in {2, 4, 6, 10}
BY DEF DecodedSize

\* The decoder's answer is one of its entries, whatever instr holds.
LEMMA DecodeIsEntry ==
    ASSUME NEW words \in [0..4 -> Halfword]
    PROVE  vc4_decode_instr(words) \in Entries
<1> DEFINE size == DecodedSize(words[0])
<1>1. size \in {2, 4, 6, 10}
    BY SizeCases
<1>2. /\ Len(Chain16) \in Nat /\ Len(Chain32) \in Nat
      /\ Len(Chain48) \in Nat /\ Len(Chain80) \in Nat
    BY DEF Chain16, Chain32, Chain48, Chain80
<1>3. /\ size = 2 => ChainOf(size) = Chain16
      /\ size = 4 => ChainOf(size) = Chain32
      /\ size = 6 => ChainOf(size) = Chain48
      /\ size = 10 => ChainOf(size) = Chain80
    BY DEF ChainOf
<1>4. vc4_decode_instr(words) = FirstMatch(ChainOf(size), words[0], words[1])
    BY DEF vc4_decode_instr
<1> HIDE DEF size
<1>5. FirstMatch(ChainOf(size), words[0], words[1])
          \in {NoEntry} \cup EntriesOf(ChainOf(size))
    BY <1>1, <1>2, <1>3, FirstMatchIsEntry
<1> QED
    BY <1>1, <1>3, <1>4, <1>5 DEF Entries

-----------------------------------------------------------------------------
(***************************************************************************)
(* Arithmetic modulo the range of current_pc.                              *)
(***************************************************************************)
LEMMA DivMod ==
    ASSUME NEW a \in Int, NEW m \in Nat \ {0}
    PROVE  a = m * (a \div m) + (a % m) /\ a % m \in 0..(m - 1) /\ a \div m \in Int
BY SMT

\* A number has one remainder.
LEMMA RemainderUnique ==
    ASSUME NEW m \in Nat \ {0}, NEW k \in Int, NEW l \in Int,
           NEW r \in 0..(m - 1), NEW s \in 0..(m - 1),
           m * k + r = m * l + s
    PROVE  r = s
<1>1. m * (k - l) = s - r
    BY SMT
<1>2. CASE k > l
    <2>1. m * (k - l) >= m * 1
        BY <1>2, SMT
    <2> QED
        BY <1>1, <2>1, SMT
<1>3. CASE k < l
    <2>1. m * (l - k) >= m * 1
        BY <1>3, SMT
    <2>2. m * (l - k) = r - s
        BY <1>1, SMT
    <2> QED
        BY <2>1, <2>2, SMT
<1>4. CASE k = l
    BY <1>1, <1>4, SMT
<1> QED
    BY <1>2, <1>3, <1>4, SMT

\* Reducing a term of a sum first does not change the sum modulo m.
LEMMA ModAdd ==
    ASSUME NEW a \in Int, NEW b \in Int, NEW m \in Nat \ {0}
    PROVE  ((a % m) + b) % m = (a + b) % m
<1> DEFINE x == (a % m) + b
           y == a + b
           q == a \div m
           u == x \div m
           v == y \div m
<1>1. a = m * q + (a % m) /\ a % m \in Int /\ q \in Int
    BY DivMod, SMT
<1>2. x \in Int /\ y \in Int
    BY <1>1, SMT
<1>3. x = m * u + (x % m) /\ x % m \in 0..(m - 1) /\ u \in Int
    BY <1>2, DivMod
<1>4. y = m * v + (y % m) /\ y % m \in 0..(m - 1) /\ v \in Int
    BY <1>2, DivMod
<1>5. y = m * q + x
    BY <1>1, SMT
<1> HIDE DEF q, u, v, x, y
<1>6. m * v + (y % m) = m * (q + u) + (x % m)
    <2>1. m * (q + u) = m * q + m * u
        BY <1>1, <1>3, SMT
    <2> DEFINE mq == m * q
               mu == m * u
               xm == x % m
               ym == y % m
    <2>2. mq \in Int /\ mu \in Int /\ xm \in Int /\ ym \in Int
        BY <1>1, <1>3, <1>4, SMT
    <2>3. y = m * v + ym /\ y = mq + x /\ x = mu + xm /\ m * (q + u) = mq + mu
        BY <1>3, <1>4, <1>5, <2>1, Zenon
    <2> HIDE DEF mq, mu, xm, ym
    <2>4. m * v + ym = (mq + mu) + xm
        BY <1>2, <2>2, <2>3, SMT
    <2> QED
        BY <2>3, <2>4, Zenon DEF xm, ym
<1>7. q + u \in Int
    BY <1>1, <1>3, SMT
<1>8. x % m = y % m
    BY <1>3, <1>4, <1>6, <1>7, RemainderUnique
<1> QED
    BY <1>8 DEF x, y

-----------------------------------------------------------------------------
(***************************************************************************)
(* Only 32-bit instructions are decoded from the second halfword.          *)
(***************************************************************************)
\* The rules of the other chains have masks on the first halfword only.
FirstWordOnly(rule) == rule.mod = 1 /\ rule.low = {0}

LEMMA FirstWordChains ==
    ASSUME NEW size \in {2, 6, 10}
    PROVE  /\ Len(ChainOf(size)) \in Nat
           /\ \A k \in 1..Len(ChainOf(size)) : FirstWordOnly(ChainOf(size)[k])
<1>1. \A e, s : FirstWordOnly(FirstWordRule(e, s))
    BY DEF FirstWordOnly, FirstWordRule, Rule
<1>2. CASE size = 2
    <2>1. ChainOf(size) = Chain16
        BY <1>2 DEF ChainOf
    <2>3. Len(Chain16) = 22
        BY DEF Chain16
    <2>2. \A k \in 1..22 : FirstWordOnly(Chain16[k])
        <3>1. \A k \in 1..4 : FirstWordOnly(Chain16[k])
            BY <1>1, SMTT(60) DEF Chain16
        <3>2. \A k \in 5..8 : FirstWordOnly(Chain16[k])
            BY <1>1, SMTT(60) DEF Chain16
        <3>3. \A k \in 9..12 : FirstWordOnly(Chain16[k])
            BY <1>1, SMTT(60) DEF Chain16
        <3>4. \A k \in 13..16 : FirstWordOnly(Chain16[k])
            BY <1>1, SMTT(60) DEF Chain16
        <3>5. \A k \in 17..20 : FirstWordOnly(Chain16[k])
            BY <1>1, SMTT(60) DEF Chain16
        <3>6. \A k \in 21..22 : FirstWordOnly(Chain16[k])
            BY <1>1, SMTT(60) DEF Chain16
        <3> QED
            BY <3>1, <3>2, <3>3, <3>4, <3>5, <3>6, SMT
    <2> QED
        BY <2>1, <2>2, <2>3
<1>3. CASE size = 6
    <2>1. ChainOf(size) = Chain48 /\ Len(Chain48) = 6
        BY <1>3 DEF ChainOf, Chain48
    <2>2. \A k \in 1..6 : FirstWordOnly(Chain48[k])
        BY <1>1 DEF Chain48
    <2> QED
        BY <2>1, <2>2
<1>4. CASE size = 10
    <2>1. ChainOf(size) = Chain80 /\ Len(Chain80) = 2
        BY <1>4 DEF ChainOf, Chain80
    <2>2. \A k \in 1..2 : FirstWordOnly(Chain80[k])
        BY <1>1 DEF Chain80
    <2> QED
        BY <2>1, <2>2
<1> QED
    BY <1>2, <1>3, <1>4

\* Two second halfwords that the same rules match get the same answer.
LEMMA SameRulesSameAnswer ==
    ASSUME NEW c, Len(c) \in Nat, NEW w, NEW x, NEW y,
           \A i \in 1..Len(c) : Matches(c[i], w, x) <=> Matches(c[i], w, y)
    PROVE  FirstMatch(c, w, x) = FirstMatch(c, w, y)
<1>1. Matching(c, w, x) = Matching(c, w, y)
    BY Zenon DEF Matching
<1> QED
    BY <1>1, FirstMatchByRules, Zenon

\* So the second halfword, whatever it holds, does not change the answer.
LEMMA DecodeByFirstWord ==
    ASSUME NEW u, NEW v, u[0] = v[0], u[1] \in Int, v[1] \in Int,
           DecodedSize(u[0]) # 4
    PROVE  vc4_decode_instr(u) = vc4_decode_instr(v)
<1> DEFINE c == ChainOf(DecodedSize(u[0]))
<1>1. DecodedSize(u[0]) \in {2, 6, 10}
    BY SizeCases
<1>2. Len(c) \in Nat /\ \A i \in 1..Len(c) : FirstWordOnly(c[i])
    BY <1>1, FirstWordChains
<1>3. vc4_decode_instr(u) = FirstMatch(c, u[0], u[1])
      /\ vc4_decode_instr(v) = FirstMatch(c, u[0], v[1])
    BY Zenon DEF vc4_decode_instr
<1> HIDE DEF c
<1>4. u[1] % 1 = 0 /\ v[1] % 1 = 0
    BY SMT
<1>5. \A i \in 1..Len(c) : Matches(c[i], u[0], u[1]) <=> Matches(c[i], u[0], v[1])
    BY <1>2, <1>4, Zenon DEF FirstWordOnly, Matches
<1> QED
    BY <1>2, <1>3, <1>5, SameRulesSameAnswer, Zenon
=============================================================================
