-------------------------- MODULE SymbolLineProofs --------------------------
(***************************************************************************)
(* Proofs about SymbolLine: symbol_table_parse_line reads back every       *)
(* symbol of the format from each of its texts.                            *)
(***************************************************************************)
EXTENDS SymbolLine, SequenceTheorems, TLAPS

Letters == {"d", "w", "f", "s", "S", "p"}
Marks == {":", "@", "[", "]", "{", "}"}
HexDigits == {"0", "1", "2", "3", "4", "5", "6", "7", "8", "9",
              "a", "b", "c", "d", "e", "f"}

\* The characters of a line.  (That a literal is a string is not known to the
\* provers; most of what follows depends on neither.)
Ch == STRING \cup HexDigits \cup Letters \cup Marks
Text == Seq(Ch)

-----------------------------------------------------------------------------
(***************************************************************************)
(* Where the parser is: from place p on, the line reads u.                 *)
(***************************************************************************)
Rest(line, p, u) ==
    /\ line \in Text /\ u \in Text /\ p \in Nat /\ p >= 1
    /\ Len(line) = p - 1 + Len(u)
    /\ \A k \in 1..Len(u) : line[p - 1 + k] = u[k]

LEMMA RestWhole ==
    ASSUME NEW line \in Text
    PROVE  Rest(line, 1, line)
<1>1. Len(line) \in Nat
    BY LenProperties DEF Text
<1> QED
    BY <1>1 DEF Rest

\* Past the text a.
LEMMA RestAfter ==
    ASSUME NEW line, NEW p, NEW a \in Text, NEW u \in Text, Rest(line, p, a \o u)
    PROVE  /\ Rest(line, p + Len(a), u)
           /\ Len(a) \in Nat
           /\ \A k \in 1..Len(a) : line[p - 1 + k] = a[k]
<1> DEFINE w == a \o u
<1>1. /\ Len(a) \in Nat /\ Len(u) \in Nat
      /\ Len(w) = Len(a) + Len(u)
      /\ \A k \in 1..(Len(a) + Len(u)) : w[k] = IF k <= Len(a) THEN a[k] ELSE u[k - Len(a)]
    BY ConcatProperties, LenProperties DEF Text
<1>2. /\ line \in Text /\ p \in Nat /\ p >= 1 /\ Len(line) = p - 1 + Len(w)
      /\ \A k \in 1..Len(w) : line[p - 1 + k] = w[k]
    BY DEF Rest
<1> HIDE DEF w
<1>3. ASSUME NEW k \in 1..Len(a)
      PROVE  line[p - 1 + k] = a[k]
    <2>1. k \in 1..Len(w) /\ k \in 1..(Len(a) + Len(u)) /\ k <= Len(a)
        BY <1>1
    <2> QED
        BY <1>1, <1>2, <2>1, Zenon
<1>4. ASSUME NEW k \in 1..Len(u)
      PROVE  line[p + Len(a) - 1 + k] = u[k]
    <2>1. /\ k + Len(a) \in 1..Len(w) /\ k + Len(a) \in 1..(Len(a) + Len(u))
          /\ ~(k + Len(a) <= Len(a)) /\ k + Len(a) - Len(a) = k
          /\ p - 1 + (k + Len(a)) = p + Len(a) - 1 + k
        BY <1>1, <1>2
    <2>2. line[p - 1 + (k + Len(a))] = w[k + Len(a)]
        BY <1>2, <2>1, Zenon
    <2>3. w[k + Len(a)] = u[k + Len(a) - Len(a)]
        <3>1. \A j \in 1..(Len(a) + Len(u)) : ~(j <= Len(a)) => w[j] = u[j - Len(a)]
            BY <1>1, Zenon
        <3> QED
            BY <2>1, <3>1
    <2> QED
        BY <2>1, <2>2, <2>3, Zenon
<1>5. Len(line) = p + Len(a) - 1 + Len(u) /\ p + Len(a) \in Nat /\ p + Len(a) >= 1
    BY <1>1, <1>2
<1> QED
    BY <1>1, <1>2, <1>3, <1>4, <1>5 DEF Rest

\* Past one character.
LEMMA RestChar ==
    ASSUME NEW line, NEW p, NEW c \in Ch, NEW u \in Text, Rest(line, p, <<c>> \o u)
    PROVE  CharAt(line, p) = c /\ line[p] = c /\ p <= Len(line) /\ Rest(line, p + 1, u)
<1>1. <<c>> \in Text /\ Len(<<c>>) = 1 /\ <<c>>[1] = c
    <2>1. <<c>> \in Seq(Ch)
        OBVIOUS
    <2> QED
        BY <2>1 DEF Text
<1>2. Rest(line, p + 1, u) /\ line[p - 1 + 1] = c
    <2> DEFINE a == <<c>>
    <2>1. a \in Text /\ Len(a) = 1 /\ a[1] = c /\ Rest(line, p, a \o u)
        BY <1>1
    <2> HIDE DEF a
    <2>2. Rest(line, p + Len(a), u) /\ \A k \in 1..Len(a) : line[p - 1 + k] = a[k]
        BY <2>1, RestAfter
    <2> QED
        BY <2>1, <2>2
<1>3. p \in Nat /\ Len(u) \in Nat /\ Len(line) = p + 1 - 1 + Len(u)
    <2>1. u \in Text /\ p \in Nat
        BY DEF Rest
    <2> QED
        BY <1>2, <2>1, LenProperties DEF Rest, Text
<1> QED
    BY <1>2, <1>3 DEF CharAt

-----------------------------------------------------------------------------
(***************************************************************************)
(* A number of one digit.                                                  *)
(***************************************************************************)
\* Folding one element takes one step: the equation of the fold, which a
\* recursive function states, has a solution on the sets of one element.
LEMMA FoldOne ==
    ASSUME NEW base, NEW c
    PROVE  FoldLeft(LAMBDA n, d : base * n + DigitValue(d), 0, <<c>>)
               = base * 0 + DigitValue(c)
<1> DEFINE Step(s, g) == IF s = {} THEN 0
                         ELSE base * g[s \ {Max(s)}] + DigitValue(<<c>>[Max(s)])
           h == [s \in SUBSET {1} |-> IF s = {} THEN 0 ELSE base * 0 + DigitValue(c)]
           iter == CHOOSE g : g = [s \in SUBSET {1} |-> Step(s, g)]
<1>1. Max({1}) = 1 /\ DOMAIN <<c>> = {1} /\ <<c>>[1] = c /\ {1} \ {1} = {}
    BY DEF Max
<1>2. \A s \in SUBSET {1} : s = {} \/ s = {1}
    OBVIOUS
<1>3. h = [s \in SUBSET {1} |-> Step(s, h)]
    <2>1. h[{}] = 0 /\ h[{1}] = base * 0 + DigitValue(c)
        OBVIOUS
    <2>2. Step({}, h) = 0
        OBVIOUS
    <2>3. Step({1}, h) = base * h[{}] + DigitValue(c)
        <3> HIDE DEF h
        <3> QED
            BY <1>1, Zenon
    <2>4. \A s \in SUBSET {1} : h[s] = Step(s, h)
        <3> HIDE DEF h, Step
        <3> QED
            BY <1>2, <2>1, <2>2, <2>3, Zenon
    <2> HIDE DEF Step
    <2>5. \A s \in SUBSET {1} : Step(s, h) = IF s = {} THEN 0 ELSE base * 0 + DigitValue(c)
        BY <2>4, Zenon
    <2> QED
        BY <2>5, Zenon
<1>4. iter = [s \in SUBSET {1} |-> Step(s, iter)]
    BY <1>3
<1>5. iter[{1}] = base * 0 + DigitValue(c)
    <2> HIDE DEF iter, h
    <2>1. {} \in SUBSET {1} /\ {1} \in SUBSET {1} /\ {1} # {}
        OBVIOUS
    <2>2. iter[{}] = Step({}, iter) /\ iter[{1}] = Step({1}, iter)
        <3> HIDE DEF Step
        <3> QED
            BY <1>4, <2>1, Zenon
    <2>3. iter[{}] = 0
        BY <2>2, Zenon
    <2>4. iter[{1}] = base * iter[{}] + DigitValue(c)
        BY <1>1, <2>1, <2>2, Zenon
    <2> QED
        BY <2>3, <2>4, Zenon
<1> QED
    BY <1>1, <1>5 DEF FoldLeft, MapThenFoldSet
-----------------------------------------------------------------------------
LEMMA MinIs ==
    ASSUME NEW S \in SUBSET Int, NEW m \in S, \A y \in S : m <= y
    PROVE  Min(S) = m
<1>1. \A x \in S : (\A y \in S : x <= y) => x = m
    OBVIOUS
<1> QED
    BY <1>1 DEF Min

Bases == {10, 16}

LEMMA DigitsKnown ==
    /\ \A n \in 0..15 : Digits[n + 1] \in HexDigits /\ DigitValue(Digits[n + 1]) = n
    /\ \A base \in Bases : \A n \in 0..(base - 1) : Digits[n + 1] \in DigitsOf(base)
    /\ \A base \in Bases : \A c \in Marks : c \notin DigitsOf(base)
    /\ \A c \in Marks : c \notin HexDigits
    /\ HexDigits \subseteq Ch /\ Letters \subseteq Ch /\ Marks \subseteq Ch
<1>1. \A d \in 1..16 : Digits[d] \in HexDigits
    <2>1. /\ Digits[1] \in HexDigits /\ Digits[2] \in HexDigits /\ Digits[3] \in HexDigits
          /\ Digits[4] \in HexDigits /\ Digits[5] \in HexDigits /\ Digits[6] \in HexDigits
          /\ Digits[7] \in HexDigits /\ Digits[8] \in HexDigits
        BY DEF Digits, HexDigits
    <2>2. /\ Digits[9] \in HexDigits /\ Digits[10] \in HexDigits /\ Digits[11] \in HexDigits
          /\ Digits[12] \in HexDigits /\ Digits[13] \in HexDigits /\ Digits[14] \in HexDigits
          /\ Digits[15] \in HexDigits /\ Digits[16] \in HexDigits
        BY DEF Digits, HexDigits
    <2> QED
        BY <2>1, <2>2
<1>2. \A m, n \in 0..15 : Digits[m + 1] = Digits[n + 1] => m = n
    BY DEF Digits
<1>3. ASSUME NEW n \in 0..15
      PROVE  DigitValue(Digits[n + 1]) = n
    BY <1>2 DEF DigitValue
<1>4. \A base \in Bases : \A n \in 0..(base - 1) : Digits[n + 1] \in DigitsOf(base)
    BY DEF DigitsOf, Bases
<1>5. \A c \in Marks : c \notin HexDigits
    BY DEF Marks, HexDigits
<1>6. \A base \in Bases : \A c \in Marks : c \notin DigitsOf(base)
    <2> SUFFICES ASSUME NEW base \in Bases, NEW c \in Marks, NEW d \in 1..base, Digits[d] = c
                 PROVE  FALSE
        BY Zenon DEF DigitsOf
    <2>1. d \in 1..16
        BY SMT DEF Bases
    <2> QED
        BY <1>1, <1>5, <2>1
<1>7. \A n \in 0..15 : Digits[n + 1] \in HexDigits
    BY <1>1
<1>8. HexDigits \subseteq Ch /\ Letters \subseteq Ch /\ Marks \subseteq Ch
    BY Zenon DEF Ch
<1> QED
    BY <1>3, <1>4, <1>5, <1>6, <1>7, <1>8, Zenon

LEMMA TypesKnown ==
    /\ DOMAIN TypeOf = Letters
    /\ \A type \in Range(TypeOf) :
          /\ LetterOf(type) \in Letters
          /\ TypeOf[LetterOf(type)] = type
          /\ LetterOf(type) = "S" <=> type = "struct_spec"
<1>1. DOMAIN TypeOf = Letters
    BY DEF TypeOf, Letters
<1>2. ASSUME NEW c \in DOMAIN TypeOf, NEW type, type = TypeOf[c]
      PROVE  LetterOf(type) \in DOMAIN TypeOf /\ TypeOf[LetterOf(type)] = type
    BY <1>2, Zenon DEF LetterOf
<1>3. TypeOf["S"] = "struct_spec"
    BY DEF TypeOf
<1>4. \A c \in Letters : TypeOf[c] = "struct_spec" => c = "S"
    BY DEF TypeOf, Letters
<1>5. \A type \in Range(TypeOf) : LetterOf(type) \in Letters /\ TypeOf[LetterOf(type)] = type
    BY <1>1, <1>2, Zenon DEF Range
<1> QED
    BY <1>1, <1>3, <1>4, <1>5

LEMMA OneCharacter ==
    ASSUME NEW line \in Text, NEW p \in 1..Len(line)
    PROVE  SubSeq(line, p, p) = <<line[p]>>
<1>1. p \in Int /\ line[p] \in Ch /\ \A i \in p..p : line[i] \in Ch
    BY ElementOfSeq DEF Text
<1>2. /\ SubSeq(line, p, p) \in Seq(Ch) /\ Len(SubSeq(line, p, p)) = 1
      /\ \A i \in 1..1 : SubSeq(line, p, p)[i] = line[p + i - 1]
    BY <1>1, SubSeqProperties
<1> DEFINE s == SubSeq(line, p, p)
<1> HIDE DEF s
<1>3. <<line[p]>> \in Seq(Ch) /\ Len(<<line[p]>>) = 1 /\ <<line[p]>>[1] = line[p]
    BY <1>1
<1>4. s \in Seq(Ch) /\ Len(s) = 1 /\ s[1] = line[p]
    BY <1>1, <1>2 DEF s
<1>5. s = <<line[p]>>
    BY <1>3, <1>4, SeqEqual
<1> QED
    BY <1>5 DEF s

\* strtoul and atoi on one digit and something that is none.
LEMMA NumberRead ==
    ASSUME NEW base \in Bases, NEW n \in 0..(base - 1), NEW line, NEW p,
           NEW c \in Ch, c \notin DigitsOf(base), NEW u \in Text,
           Rest(line, p, Digit(n) \o (<<c>> \o u))
    PROVE  /\ NumberEnd(line, p, base) = p + 1
           /\ Number(line, p, base) = n
           /\ Rest(line, p + 1, <<c>> \o u)
           /\ CharAt(line, p + 1) = c
<1> DEFINE d == Digits[n + 1]
           v == <<c>> \o u
           S == {q \in p..(Len(line) + 1) : CharAt(line, q) \notin DigitsOf(base)}
<1>1. n \in 0..15 /\ d \in Ch /\ d \in DigitsOf(base) /\ DigitValue(d) = n
    <2>1. n \in 0..15
        BY DEF Bases
    <2> QED
        BY <2>1, DigitsKnown
<1>2. v \in Text
    <2>1. <<c>> \in Seq(Ch)
        OBVIOUS
    <2> QED
        BY <2>1, ConcatProperties DEF Text
<1>3. Rest(line, p, <<d>> \o v)
    BY DEF Digit
<1> HIDE DEF d
<1>4. CharAt(line, p) = d /\ line[p] = d /\ p <= Len(line) /\ Rest(line, p + 1, v)
    <2> HIDE DEF v
    <2> QED
        BY <1>1, <1>2, <1>3, RestChar
<1>5. CharAt(line, p + 1) = c /\ p + 1 <= Len(line)
    BY <1>4, RestChar
<1>6. line \in Text /\ p \in Nat /\ p >= 1 /\ Len(line) \in Nat
    <2>1. line \in Text /\ p \in Nat /\ p >= 1
        BY DEF Rest
    <2> QED
        BY <2>1, LenProperties DEF Text
<1>7. NumberEnd(line, p, base) = p + 1
    <2>1. p + 1 \in S
        BY <1>5, <1>6
    <2>2. \A q \in S : p + 1 <= q
        <3>1. p \notin S
            BY <1>1, <1>4
        <3> QED
            BY <1>6, <3>1
    <2>3. S \in SUBSET Int
        BY <1>6
    <2> HIDE DEF S
    <2>4. Min(S) = p + 1
        BY <2>1, <2>2, <2>3, MinIs
    <2> QED
        BY <2>4 DEF S, NumberEnd
<1>8. Number(line, p, base) = n
    <2>1. SubSeq(line, p, NumberEnd(line, p, base) - 1) = <<d>>
        <3>1. p + 1 - 1 = p /\ p \in 1..Len(line)
            BY <1>4, <1>6
        <3> QED
            BY <1>4, <1>6, <1>7, <3>1, OneCharacter
    <2>2. Number(line, p, base) = base * 0 + DigitValue(d)
        BY <2>1, FoldOne, Zenon DEF Number
    <2>3. base \in Int
        BY DEF Bases
    <2> QED
        BY <1>1, <2>2, <2>3
<1> QED
    BY <1>4, <1>5, <1>7, <1>8

-----------------------------------------------------------------------------
(***************************************************************************)
(* The fields.                                                             *)
(***************************************************************************)
LEMMA StringsAreText == \A s \in Seq(STRING) : s \in Text
<1>1. STRING \subseteq Ch
    BY Zenon DEF Ch
<1> HIDE DEF Ch
<1> QED
    BY <1>1, SeqMonotonic DEF Text

LEMMA OneText ==
    ASSUME NEW c \in Ch, NEW u \in Text
    PROVE  <<c>> \in Text /\ <<c>> \o u \in Text
<1>1. <<c>> \in Seq(Ch)
    OBVIOUS
<1> QED
    BY <1>1, ConcatProperties DEF Text

LEMMA JoinText ==
    ASSUME NEW a \in Text, NEW b \in Text
    PROVE  a \o b \in Text
BY ConcatProperties DEF Text

LEMMA Regroup ==
    ASSUME NEW a \in Text, NEW b \in Text, NEW c \in Text
    PROVE  (a \o b) \o c = a \o (b \o c)
BY ConcatAssociative DEF Text

LEMMA MarkText == \A c \in Marks : c \in Ch /\ <<c>> \in Text
BY OneText, DigitsKnown, EmptySeq DEF Text

LEMMA EmptyText == << >> \in Text /\ \A u \in Text : << >> \o u = u
BY EmptySeq, ConcatEmptySeq DEF Text

\* What strncpy copies.
LEMMA PartRead ==
    ASSUME NEW line \in Text, NEW p \in Nat, p >= 1, NEW a \in Text, NEW m \in Nat,
           m = p - 1 + Len(a), m <= Len(line),
           \A k \in 1..Len(a) : line[p - 1 + k] = a[k]
    PROVE  SubSeq(line, p, m) = a
<1>1. Len(line) \in Nat /\ Len(a) \in Nat /\ \A i \in 1..Len(line) : line[i] \in Ch
    BY LenProperties, ElementOfSeq DEF Text
<1>2. p \in Int /\ m \in Int /\ \A i \in p..m : line[i] \in Ch
    BY <1>1
<1> DEFINE s == SubSeq(line, p, m)
<1>3. /\ s \in Seq(Ch) /\ Len(s) = IF p <= m THEN m - p + 1 ELSE 0
      /\ \A i \in 1..(m - p + 1) : s[i] = line[p + i - 1]
    BY <1>2, SubSeqProperties
<1> HIDE DEF s
<1>4. Len(s) = Len(a)
    BY <1>1, <1>3
<1>5. ASSUME NEW i \in 1..Len(a) PROVE s[i] = a[i]
    <2>1. i \in 1..(m - p + 1) /\ p + i - 1 = p - 1 + i
        BY <1>1
    <2> QED
        BY <1>3, <2>1, Zenon
<1>6. s = a
    BY <1>3, <1>4, <1>5, SeqEqual DEF Text
<1> QED
    BY <1>6 DEF s

\* The address.
LEMMA AddressRead ==
    ASSUME NEW n \in 0..15, n <= ULongMax, NEW line, NEW u \in Text,
           Rest(line, 1, Digit(n) \o (<<":">> \o u))
    PROVE  Address(line) = At(3, Untyped(n)) /\ Rest(line, 3, u)
<1>1. 16 \in Bases /\ ":" \in Marks
    BY DEF Bases, Marks
<1>2. ":" \in Ch /\ ":" \notin DigitsOf(16) /\ n \in 0..(16 - 1)
    BY <1>1, DigitsKnown
<1>3. /\ NumberEnd(line, 1, 16) = 2 /\ Number(line, 1, 16) = n
      /\ Rest(line, 2, <<":">> \o u) /\ CharAt(line, 2) = ":"
    <2> DEFINE c == ":"
    <2>1. c \in Ch /\ c \notin DigitsOf(16) /\ Rest(line, 1, Digit(n) \o (<<c>> \o u))
        BY <1>2
    <2> HIDE DEF c
    <2>2. /\ NumberEnd(line, 1, 16) = 1 + 1 /\ Number(line, 1, 16) = n
          /\ Rest(line, 1 + 1, <<c>> \o u) /\ CharAt(line, 1 + 1) = c
        BY <1>1, <1>2, <2>1, NumberRead
    <2> QED
        BY <2>2 DEF c
<1>4. Rest(line, 3, u)
    <2>1. Rest(line, 2 + 1, u)
        BY <1>2, <1>3, RestChar
    <2> QED
        BY <2>1
<1>5. ~(n > ULongMax)
    BY CapAssumption
<1> QED
    BY <1>3, <1>4, <1>5 DEF Address

\* The first c from p on, when a text without c comes before it.
LEMMA FirstPlace ==
    ASSUME NEW line, NEW p, NEW c \in Ch, NEW a \in Text, NEW u \in Text,
           Rest(line, p, a \o (<<c>> \o u)), \A k \in 1..Len(a) : a[k] # c
    PROVE  /\ PlacesFrom(line, p, c) # {}
           /\ Min(PlacesFrom(line, p, c)) = p + Len(a)
           /\ SubSeq(line, p, Min(PlacesFrom(line, p, c)) - 1) = a
           /\ Rest(line, p + Len(a) + 1, u)
<1> DEFINE v == <<c>> \o u
           S == PlacesFrom(line, p, c)
<1>1. v \in Text
    BY OneText
<1>2. /\ Rest(line, p + Len(a), v) /\ Len(a) \in Nat
      /\ \A k \in 1..Len(a) : line[p - 1 + k] = a[k]
    <2>1. Rest(line, p, a \o v)
        OBVIOUS
    <2> HIDE DEF v
    <2> QED
        BY <1>1, <2>1, RestAfter
<1>3. line[p + Len(a)] = c /\ p + Len(a) <= Len(line) /\ Rest(line, p + Len(a) + 1, u)
    <2> DEFINE q == p + Len(a)
    <2>1. Rest(line, q, <<c>> \o u)
        BY <1>2
    <2> HIDE DEF q
    <2>2. line[q] = c /\ q <= Len(line) /\ Rest(line, q + 1, u)
        BY <2>1, RestChar
    <2> QED
        BY <2>2 DEF q
<1>4. p \in Nat /\ p >= 1 /\ line \in Text /\ Len(line) \in Nat
    <2>1. p \in Nat /\ p >= 1 /\ line \in Text
        BY DEF Rest
    <2> QED
        BY <2>1, LenProperties DEF Text
<1>5. p + Len(a) \in S
    BY <1>2, <1>3, <1>4 DEF PlacesFrom
<1>6. ASSUME NEW q \in S, ~(p + Len(a) <= q)
      PROVE  FALSE
    <2>1. q \in p..Len(line) /\ line[q] = c
        BY DEF PlacesFrom
    <2>2. q - p + 1 \in 1..Len(a) /\ p - 1 + (q - p + 1) = q
        BY <1>2, <1>4, <1>6, <2>1
    <2>3. line[q] = a[q - p + 1]
        BY <1>2, <2>2, Zenon
    <2> QED
        BY <2>1, <2>2, <2>3
<1>7. S \in SUBSET Int
    BY <1>4 DEF PlacesFrom
<1> HIDE DEF S
<1>8. Min(S) = p + Len(a) /\ S # {}
    <2>1. \A q \in S : p + Len(a) <= q
        BY <1>6
    <2> QED
        BY <1>5, <1>7, <2>1, MinIs
<1>9. SubSeq(line, p, Min(S) - 1) = a
    <2>1. /\ Min(S) - 1 \in Nat /\ Min(S) - 1 = p - 1 + Len(a) /\ Min(S) - 1 <= Len(line)
        BY <1>2, <1>3, <1>4, <1>8
    <2> QED
        BY <1>2, <1>4, <2>1, PartRead
<1> QED
    BY <1>3, <1>8, <1>9 DEF S

\* The type, and what is between the braces of a struct.
LEMMA TypeRead ==
    ASSUME NEW sym \in Describable, NEW s \in Symbols, s.struct_spec = << >>,
           NEW line, NEW p, NEW u \in Text,
           Rest(line, p, <<LetterOf(sym.type)>> \o (SpecText(sym) \o u))
    PROVE  \E q \in Nat, r \in Symbols :
              /\ TypeField(line, At(p, s)) = At(q, r)
              /\ q >= p /\ Rest(line, q, u)
              /\ r.addr = s.addr /\ r.type = sym.type /\ r.struct_spec = sym.struct_spec
              /\ r.size = s.size /\ r.size_known = s.size_known
              /\ r.num_array_elements = s.num_array_elements
<1> DEFINE letter == LetterOf(sym.type)
           r1 == [s EXCEPT !.type = sym.type]
<1>1. /\ sym.type \in Range(TypeOf) /\ sym.struct_spec \in Seq(STRING)
      /\ sym.type # "struct_spec" => sym.struct_spec = << >>
      /\ Len(sym.struct_spec) <= SpecCap /\ "}" \notin ToSet(sym.struct_spec)
    BY DEF Describable, Symbols
<1>2. letter \in Ch /\ letter \in DOMAIN TypeOf /\ TypeOf[letter] = sym.type
    BY <1>1, TypesKnown, DigitsKnown
<1>3. letter = "S" <=> sym.type = "struct_spec"
    BY <1>1, TypesKnown
<1>4. SpecText(sym) \o u \in Text
    <2>1. sym.struct_spec \in Text
        BY <1>1, StringsAreText
    <2>2. "{" \in Marks /\ "}" \in Marks
        BY DEF Marks
    <2>3. <<"{">> \in Text /\ <<"}">> \in Text /\ << >> \in Text
        BY <2>2, MarkText, EmptyText, Zenon
    <2>4. <<"{">> \o sym.struct_spec \o <<"}">> \in Text
        BY <2>1, <2>3, JoinText, Zenon
    <2>5. SpecText(sym) \in Text
        BY <2>3, <2>4, Zenon DEF SpecText
    <2> QED
        BY <2>5, JoinText
<1>5. CharAt(line, p) = letter /\ Rest(line, p + 1, SpecText(sym) \o u)
    <2> DEFINE v == SpecText(sym) \o u
    <2>1. v \in Text /\ Rest(line, p, <<letter>> \o v)
        BY <1>4
    <2> HIDE DEF letter, v
    <2>2. CharAt(line, p) = letter /\ Rest(line, p + 1, v)
        BY <1>2, <2>1, RestChar
    <2> QED
        BY <2>2 DEF v
<1>6. p \in Nat
    BY DEF Rest
<1>7. /\ r1 \in Symbols /\ r1.addr = s.addr /\ r1.type = sym.type
      /\ r1.struct_spec = s.struct_spec /\ r1.size = s.size
      /\ r1.size_known = s.size_known /\ r1.num_array_elements = s.num_array_elements
    BY <1>1 DEF Symbols
<1>8. TypeField(line, At(p, s)) = IF letter = "S" THEN StructSpec(line, p + 1, r1)
                                  ELSE At(p + 1, r1)
    <2>1. At(p, s).p = p /\ At(p, s).sym = s
        BY DEF At
    <2> HIDE DEF letter
    <2> QED
        BY <1>2, <1>5, <2>1, Zenon DEF TypeField
<1>9. CASE letter # "S"
    <2>1. SpecText(sym) \o u = u /\ sym.struct_spec = << >>
        <3>1. SpecText(sym) = << >> /\ sym.struct_spec = << >>
            BY <1>1, <1>3, <1>9, Zenon DEF SpecText
        <3>2. << >> \o u = u
            BY EmptyText
        <3> QED
            BY <3>1, <3>2, Zenon
    <2>2. Rest(line, p + 1, u)
        BY <1>5, <2>1, Zenon
    <2>3. TypeField(line, At(p, s)) = At(p + 1, r1)
        BY <1>8, <1>9, Zenon
    <2>4. p + 1 \in Nat /\ p + 1 >= p
        BY <1>6
    <2> HIDE DEF r1
    <2> QED
        BY <1>7, <2>1, <2>2, <2>3, <2>4
<1>10. CASE letter = "S"
    <2> DEFINE spec == sym.struct_spec
               v == <<"}">> \o u
               r2 == [r1 EXCEPT !.struct_spec = spec]
               closing == PlacesFrom(line, p + 1 + 1, "}")
    <2>1. spec \in Text /\ "{" \in Ch /\ "}" \in Ch
        BY <1>1, StringsAreText, DigitsKnown DEF Marks
    <2>2. <<"{">> \in Text /\ <<"}">> \in Text /\ v \in Text
        BY <2>1, OneText, Zenon
    <2>3. SpecText(sym) \o u = <<"{">> \o (spec \o v)
        <3>1. SpecText(sym) = <<"{">> \o spec \o <<"}">>
            BY <1>3, <1>10, Zenon DEF SpecText
        <3>2. <<"{">> \o spec \in Text
            BY <2>1, <2>2, JoinText
        <3>3. ((<<"{">> \o spec) \o <<"}">>) \o u = (<<"{">> \o spec) \o v
            BY <2>1, <2>2, <3>2, Regroup, Zenon
        <3>4. (<<"{">> \o spec) \o v = <<"{">> \o (spec \o v)
            <4> HIDE DEF v
            <4> QED
                BY <2>1, <2>2, Regroup, Zenon
        <3> QED
            BY <3>1, <3>3, <3>4, Zenon
    <2>4. CharAt(line, p + 1) = "{" /\ Rest(line, p + 1 + 1, spec \o v)
        <3> DEFINE w == spec \o v
                   c == "{"
        <3>1. w \in Text /\ c \in Ch /\ Rest(line, p + 1, <<c>> \o w)
            BY <1>5, <2>1, <2>2, <2>3, JoinText, Zenon
        <3> HIDE DEF w, c
        <3>2. CharAt(line, p + 1) = c /\ Rest(line, p + 1 + 1, w)
            BY <3>1, RestChar
        <3> QED
            BY <3>2 DEF w, c
    <2>5. \A k \in 1..Len(spec) : spec[k] # "}"
        <3>1. \A k \in DOMAIN spec : spec[k] # "}"
            BY <1>1 DEF ToSet
        <3>2. DOMAIN spec = 1..Len(spec)
            BY <1>1, LenProperties
        <3> QED
            BY <3>1, <3>2, Zenon
    <2>6. /\ closing # {} /\ Min(closing) = p + 1 + 1 + Len(spec)
          /\ SubSeq(line, p + 1 + 1, Min(closing) - 1) = spec
          /\ Rest(line, p + 1 + 1 + Len(spec) + 1, u)
        <3> DEFINE c == "}"
                   pp == p + 1 + 1
        <3>1. /\ c \in Ch /\ Rest(line, pp, spec \o (<<c>> \o u))
              /\ \A k \in 1..Len(spec) : spec[k] # c
            BY <2>1, <2>4, <2>5, Zenon
        <3> HIDE DEF c, pp
        <3>2. /\ PlacesFrom(line, pp, c) # {} /\ Min(PlacesFrom(line, pp, c)) = pp + Len(spec)
              /\ SubSeq(line, pp, Min(PlacesFrom(line, pp, c)) - 1) = spec
              /\ Rest(line, pp + Len(spec) + 1, u)
            <4>1. spec \in Text /\ c \in Ch /\ Rest(line, pp, spec \o (<<c>> \o u))
                BY <2>1, <3>1
            <4> HIDE DEF spec
            <4> QED
                BY <3>1, <4>1, FirstPlace
        <3> QED
            BY <3>2 DEF c, pp
    <2>7. StructSpec(line, p + 1, r1) = At(p + 1 + 1 + Len(spec) + 1, r2)
        <3>1. ~(Len(spec) > SpecCap)
            <4>1. Len(spec) <= SpecCap
                BY <1>1
            <4>2. Len(spec) \in Nat
                BY <1>1, LenProperties
            <4> HIDE DEF spec
            <4> QED
                BY <4>1, <4>2, CapAssumption
        <3> HIDE DEF closing, r1, spec
        <3> QED
            BY <2>4, <2>6, <3>1, Zenon DEF StructSpec, closing
    <2>8. /\ r2 \in Symbols /\ r2.addr = r1.addr /\ r2.type = r1.type
          /\ r2.struct_spec = spec /\ r2.size = r1.size
          /\ r2.size_known = r1.size_known /\ r2.num_array_elements = r1.num_array_elements
        <3> HIDE DEF r1
        <3> QED
            BY <1>1, <1>7 DEF Symbols
    <2>9. TypeField(line, At(p, s)) = At(p + 1 + 1 + Len(spec) + 1, r2)
        <3> HIDE DEF r1, r2
        <3> QED
            BY <1>8, <1>10, <2>7, Zenon
    <2>10. p + 1 + 1 + Len(spec) + 1 \in Nat /\ p + 1 + 1 + Len(spec) + 1 >= p
        <3>1. Len(spec) \in Nat
            BY <1>1, LenProperties
        <3> HIDE DEF spec
        <3> QED
            BY <1>6, <3>1
    <2> HIDE DEF r1, r2, spec
    <2>11. spec = sym.struct_spec
        BY DEF spec
    <2> QED
        BY <1>7, <2>6, <2>8, <2>9, <2>10, <2>11
<1> QED
    BY <1>9, <1>10

\* A mark and a digit, with another mark behind.
LEMMA MarkAndDigit ==
    ASSUME NEW m \in Marks, NEW n \in 0..9, NEW c \in Marks, NEW u \in Text, NEW line, NEW p,
           Rest(line, p, <<m>> \o (Digit(n) \o (<<c>> \o u)))
    PROVE  /\ CharAt(line, p) = m /\ p \in Nat
           /\ NumberEnd(line, p + 1, 10) = p + 2 /\ Number(line, p + 1, 10) = n
           /\ Rest(line, p + 2, <<c>> \o u)
           /\ Rest(line, p + 1, Digit(n) \o (<<c>> \o u))
           /\ Len(Digit(n)) = 1 /\ Digit(n)[1] \notin Marks
<1> DEFINE w == Digit(n) \o (<<c>> \o u)
           q == p + 1
<1>1. m \in Ch /\ c \in Ch /\ 10 \in Bases /\ c \notin DigitsOf(10) /\ n \in 0..(10 - 1)
    <2>1. 10 \in Bases
        BY DEF Bases
    <2> QED
        BY <2>1, DigitsKnown
<1>2. Digits[n + 1] \in Ch /\ Digits[n + 1] \notin Marks
    <2>1. n \in 0..15
        OBVIOUS
    <2> QED
        BY <2>1, DigitsKnown
<1>3. w \in Text
    <2>1. <<c>> \o u \in Text /\ Digit(n) \in Text
        BY <1>1, <1>2, OneText DEF Digit
    <2> QED
        BY <2>1, JoinText
<1>4. CharAt(line, p) = m /\ Rest(line, q, w)
    <2>1. Rest(line, p, <<m>> \o w)
        OBVIOUS
    <2> HIDE DEF w
    <2> QED
        BY <1>1, <1>3, <2>1, RestChar
<1>5. NumberEnd(line, q, 10) = q + 1 /\ Number(line, q, 10) = n /\ Rest(line, q + 1, <<c>> \o u)
    <2>1. Rest(line, q, Digit(n) \o (<<c>> \o u))
        BY <1>4
    <2> HIDE DEF q, w
    <2> QED
        BY <1>1, <2>1, NumberRead
<1>6. p \in Nat
    BY DEF Rest
<1>7. q + 1 = p + 2
    BY <1>6
<1>8. Len(Digit(n)) = 1 /\ Digit(n)[1] = Digits[n + 1]
    BY DEF Digit
<1> HIDE DEF Rest
<1> QED
    BY <1>2, <1>4, <1>5, <1>6, <1>7, <1>8, Zenon

LEMMA SizeRead ==
    ASSUME NEW sym \in Describable, NEW s \in Symbols, s.size = 0, ~s.size_known,
           NEW line, NEW p, NEW c \in Marks, c # "@", NEW u \in Text,
           Rest(line, p, SizeText(sym) \o (<<c>> \o u))
    PROVE  \E q \in Nat, r \in Symbols :
              /\ SizeField(line, At(p, s)) = At(q, r)
              /\ q >= p /\ Rest(line, q, <<c>> \o u)
              /\ r.addr = s.addr /\ r.type = s.type /\ r.struct_spec = s.struct_spec
              /\ r.size = sym.size /\ r.size_known = sym.size_known
              /\ r.num_array_elements = s.num_array_elements
<1>1. sym.size \in 0..9 /\ sym.size_known \in BOOLEAN /\ (~sym.size_known => sym.size = 0)
    BY DEF Describable, Symbols
<1>2. /\ At(p, s).p = p /\ At(p, s).sym = s /\ At(p, s).verdict = "ok"
    BY DEF At
<1>3. c \in Ch /\ <<c>> \o u \in Text
    BY OneText, DigitsKnown
<1>4. p \in Nat
    BY DEF Rest
<1>5. CASE ~sym.size_known
    <2>1. SizeText(sym) = << >>
        BY <1>5 DEF SizeText
    <2>2. Rest(line, p, <<c>> \o u)
        BY <1>3, <2>1, EmptyText, Zenon
    <2>3. CharAt(line, p) = c
        BY <1>3, <2>2, RestChar
    <2>4. SizeField(line, At(p, s)) = At(p, s)
        BY <2>3, <1>2, Zenon DEF SizeField
    <2>5. s.size = sym.size /\ s.size_known = sym.size_known
        <3>1. s.size_known \in BOOLEAN
            BY DEF Symbols
        <3> QED
            BY <1>1, <1>5, <3>1
    <2>6. p >= p
        BY <1>4
    <2> QED
        BY <1>4, <2>2, <2>4, <2>5, <2>6
<1>6. CASE sym.size_known
    <2> DEFINE r == [s EXCEPT !.size = sym.size, !.size_known = TRUE]
               m == "@"
    <2>1. m \in Marks
        BY DEF Marks
    <2>2. Rest(line, p, <<m>> \o (Digit(sym.size) \o (<<c>> \o u)))
        <3>1. SizeText(sym) = <<m>> \o Digit(sym.size)
            BY <1>6, Zenon DEF SizeText
        <3>2. <<m>> \in Text /\ Digit(sym.size) \in Text
            <4>1. sym.size \in 0..15
                BY <1>1
            <4>2. Digits[sym.size + 1] \in Ch
                BY <4>1, DigitsKnown
            <4>3. <<Digits[sym.size + 1]>> \in Text
                BY <4>2, EmptyText, OneText
            <4>4. <<m>> \in Text
                BY <2>1, MarkText, Zenon
            <4> QED
                BY <4>3, <4>4, Zenon DEF Digit
        <3> DEFINE d == Digit(sym.size)
                   v == <<c>> \o u
        <3>3. Rest(line, p, (<<m>> \o d) \o v) /\ v \in Text /\ d \in Text
            BY <1>3, <3>1, <3>2, Zenon
        <3> HIDE DEF m, d, v
        <3>4. (<<m>> \o d) \o v = <<m>> \o (d \o v)
            BY <3>2, <3>3, Regroup, Zenon
        <3>5. Rest(line, p, <<m>> \o (d \o v))
            BY <3>3, <3>4, Zenon
        <3> QED
            BY <3>5 DEF d, v
    <2>3. /\ CharAt(line, p) = m /\ NumberEnd(line, p + 1, 10) = p + 2
          /\ Number(line, p + 1, 10) = sym.size /\ Rest(line, p + 2, <<c>> \o u)
        <3> HIDE DEF m
        <3> QED
            BY <1>1, <2>1, <2>2, MarkAndDigit
    <2>4. SizeField(line, At(p, s)) = At(p + 2, r)
        BY <2>3, <1>2, Zenon DEF SizeField
    <2>5. /\ r \in Symbols /\ r.addr = s.addr /\ r.type = s.type
          /\ r.struct_spec = s.struct_spec /\ r.size = sym.size /\ r.size_known = TRUE
          /\ r.num_array_elements = s.num_array_elements
        BY <1>1 DEF Symbols
    <2>6. p + 2 \in Nat /\ p + 2 >= p
        BY <1>4
    <2> HIDE DEF r
    <2> QED
        BY <1>6, <2>3, <2>4, <2>5, <2>6
<1> QED
    BY <1>1, <1>5, <1>6

LEMMA CountRead ==
    ASSUME NEW sym \in Describable, NEW s \in Symbols, s.num_array_elements = 1,
           NEW line, NEW p, NEW u \in Text,
           Rest(line, p, CountText(sym) \o (<<":">> \o u))
    PROVE  \E q \in Nat, r \in Symbols :
              /\ CountField(line, At(p, s)) = At(q, r)
              /\ q >= p /\ Rest(line, q, <<":">> \o u)
              /\ r.addr = s.addr /\ r.type = s.type /\ r.struct_spec = s.struct_spec
              /\ r.size = s.size /\ r.size_known = s.size_known
              /\ r.num_array_elements = sym.num_array_elements
<1> DEFINE colon == ":"
           v == <<colon>> \o u
           n == sym.num_array_elements
<1>1. n \in 0..9
    BY DEF Describable, Symbols
<1>2. At(p, s).p = p /\ At(p, s).sym = s /\ At(p, s).verdict = "ok"
    BY DEF At
<1>3. colon \in Marks /\ colon \in Ch /\ v \in Text
    <2>1. colon \in Marks
        BY DEF Marks
    <2> QED
        BY <2>1, OneText, DigitsKnown
<1>4. p \in Nat
    BY DEF Rest
<1>5. CASE n = 1
    <2>1. CountText(sym) = << >>
        BY <1>5 DEF CountText
    <2>2. Rest(line, p, v)
        BY <1>3, <2>1, EmptyText, Zenon
    <2>3. CharAt(line, p) = colon
        <3> HIDE DEF colon
        <3> QED
            BY <1>3, <2>2, RestChar
    <2>4. CountField(line, At(p, s)) = At(p, s)
        BY <2>3, <1>2 DEF CountField
    <2> QED
        BY <1>4, <1>5, <2>2, <2>4
<1>6. CASE n # 1
    <2> DEFINE r == [s EXCEPT !.num_array_elements = n]
               open == "["
               close == "]"
               closing == PlacesFrom(line, p + 1, close)
    <2>1. open \in Marks /\ close \in Marks /\ close \in Ch
        <3>1. open \in Marks /\ close \in Marks
            BY DEF Marks
        <3> QED
            BY <3>1, MarkText
    <2>2. Digit(n) \in Text
        <3>1. n \in 0..15
            BY <1>1
        <3>2. Digits[n + 1] \in Ch
            BY <3>1, DigitsKnown
        <3> QED
            BY <3>2, EmptyText, OneText DEF Digit
    <2>3. Rest(line, p, <<open>> \o (Digit(n) \o (<<close>> \o v)))
        <3>1. CountText(sym) = <<open>> \o Digit(n) \o <<close>>
            BY <1>6, Zenon DEF CountText
        <3>2. <<open>> \in Text /\ <<close>> \in Text
            BY <2>1, MarkText, Zenon
        <3>3. <<open>> \o Digit(n) \in Text
            BY <2>2, <3>2, JoinText, Zenon
        <3>4. <<close>> \o v \in Text
            BY <1>3, <3>2, JoinText, Zenon
        <3> HIDE DEF v, open, close, n
        <3>5. ((<<open>> \o Digit(n)) \o <<close>>) \o v = (<<open>> \o Digit(n)) \o (<<close>> \o v)
            BY <1>3, <3>2, <3>3, Regroup, Zenon
        <3>6. (<<open>> \o Digit(n)) \o (<<close>> \o v) = <<open>> \o (Digit(n) \o (<<close>> \o v))
            BY <2>2, <3>2, <3>4, Regroup, Zenon
        <3>7. Rest(line, p, CountText(sym) \o v)
            BY DEF v
        <3> QED
            BY <3>1, <3>5, <3>6, <3>7, Zenon
    <2>4. /\ CharAt(line, p) = open /\ Number(line, p + 1, 10) = n
          /\ Rest(line, p + 1, Digit(n) \o (<<close>> \o v))
          /\ Len(Digit(n)) = 1 /\ Digit(n)[1] \notin Marks
        <3>1. v \in Text /\ n \in 0..9
            BY <1>1, <1>3
        <3>2. /\ open \in Marks /\ close \in Marks
              /\ Rest(line, p, <<open>> \o (Digit(n) \o (<<close>> \o v)))
            BY <2>1, <2>3
        <3> HIDE DEF open, close, v, n, closing, r, colon
        <3>3. /\ CharAt(line, p) = open /\ p \in Nat
              /\ NumberEnd(line, p + 1, 10) = p + 2 /\ Number(line, p + 1, 10) = n
              /\ Rest(line, p + 2, <<close>> \o v)
              /\ Rest(line, p + 1, Digit(n) \o (<<close>> \o v))
              /\ Len(Digit(n)) = 1 /\ Digit(n)[1] \notin Marks
            BY <3>1, <3>2, MarkAndDigit
        <3> QED
            BY <3>3
    <2>5. /\ closing # {} /\ Min(closing) = p + 1 + Len(Digit(n))
          /\ Rest(line, p + 1 + Len(Digit(n)) + 1, v)
        <3> DEFINE pp == p + 1
                   a == Digit(n)
        <3>1. \A k \in 1..Len(a) : a[k] # close
            BY <2>1, <2>4
        <3>2. a \in Text /\ Rest(line, pp, a \o (<<close>> \o v))
            BY <2>2, <2>4
        <3> HIDE DEF pp, a, close, v
        <3>3. /\ PlacesFrom(line, pp, close) # {} /\ Min(PlacesFrom(line, pp, close)) = pp + Len(a)
              /\ Rest(line, pp + Len(a) + 1, v)
            BY <1>3, <2>1, <3>1, <3>2, FirstPlace
        <3> QED
            BY <3>3 DEF pp, a
    <2>6. Min(closing) + 1 \in Nat /\ Min(closing) + 1 >= p /\ Rest(line, Min(closing) + 1, v)
        <3>1. Rest(line, Min(closing) + 1, v)
            BY <2>5, Zenon
        <3> HIDE DEF closing
        <3> QED
            BY <1>4, <2>4, <2>5, <3>1
    <2>7. CountField(line, At(p, s)) = At(Min(closing) + 1, r)
        <3> HIDE DEF n
        <3> QED
            BY <2>4, <2>5, <1>2, Zenon DEF CountField
    <2>8. /\ r \in Symbols /\ r.addr = s.addr /\ r.type = s.type
          /\ r.struct_spec = s.struct_spec /\ r.size = s.size /\ r.size_known = s.size_known
          /\ r.num_array_elements = n
        BY <1>1 DEF Symbols
    <2> HIDE DEF r, closing, n
    <2>9. n = sym.num_array_elements
        BY DEF n
    <2> QED
        BY <2>6, <2>7, <2>8, <2>9
<1> QED
    BY <1>5, <1>6

LEMMA SeparatorRead ==
    ASSUME NEW s, NEW line, NEW p, NEW u \in Text, Rest(line, p, <<":">> \o u)
    PROVE  /\ Separator(line, At(p, s)) = At(p + 1, s)
           /\ Rest(line, p + 1, u) /\ p <= Len(line) /\ line[p] = ":"
<1> DEFINE colon == ":"
<1>1. colon \in Marks
    BY DEF Marks
<1>2. colon \in Ch /\ Rest(line, p, <<colon>> \o u)
    BY <1>1, DigitsKnown
<1>3. CharAt(line, p) = colon /\ line[p] = colon /\ p <= Len(line) /\ Rest(line, p + 1, u)
    <2> HIDE DEF colon
    <2> QED
        BY <1>2, RestChar
<1> QED
    BY <1>3, Zenon DEF Separator, At

LEMMA NameRead ==
    ASSUME NEW sym \in Describable, NEW s \in Symbols,
           NEW line, NEW p, Rest(line, p, sym.name)
    PROVE  \E q \in Nat, r \in Symbols :
              /\ NameField(line, At(p, s)) = At(q, r)
              /\ r.addr = s.addr /\ r.type = s.type /\ r.struct_spec = s.struct_spec
              /\ r.size = s.size /\ r.size_known = s.size_known
              /\ r.num_array_elements = s.num_array_elements
              /\ r.name = sym.name
<1> DEFINE r == [s EXCEPT !.name = sym.name]
<1>1. sym.name \in Seq(STRING) /\ Len(sym.name) <= NameCap
    BY DEF Describable, Symbols
<1>2. At(p, s).p = p /\ At(p, s).sym = s /\ At(p, s).verdict = "ok"
    BY DEF At
<1>3. sym.name \in Text /\ Len(sym.name) \in Nat
    BY <1>1, StringsAreText, LenProperties
<1> DEFINE name == sym.name
<1>4. /\ line \in Text /\ p \in Nat /\ p >= 1 /\ Len(line) \in Nat
      /\ Len(line) = p - 1 + Len(name)
      /\ \A k \in 1..Len(name) : line[p - 1 + k] = name[k]
    <2>1. /\ line \in Text /\ p \in Nat /\ p >= 1 /\ Len(line) = p - 1 + Len(name)
          /\ \A k \in 1..Len(name) : line[p - 1 + k] = name[k]
        BY DEF Rest
    <2> QED
        BY <2>1, LenProperties DEF Text
<1>5. SubSeq(line, p, Len(line)) = name
    <2>1. name \in Text /\ Len(line) <= Len(line)
        BY <1>3, <1>4
    <2> HIDE DEF name
    <2> QED
        BY <1>4, <2>1, PartRead
<1>6. ~(Len(name) > NameCap)
    <2>1. Len(name) <= NameCap /\ Len(name) \in Nat
        BY <1>1, <1>3
    <2> HIDE DEF name
    <2> QED
        BY <2>1, CapAssumption
<1>7. NameField(line, At(p, s)) = At(Len(line) + 1, r)
    BY <1>2, <1>5, <1>6, Zenon DEF NameField
<1>8. /\ r \in Symbols /\ r.addr = s.addr /\ r.type = s.type
      /\ r.struct_spec = s.struct_spec /\ r.size = s.size /\ r.size_known = s.size_known
      /\ r.num_array_elements = s.num_array_elements /\ r.name = sym.name
    BY <1>1 DEF Symbols
<1>9. Len(line) + 1 \in Nat
    BY <1>4
<1> HIDE DEF r
<1> QED
    BY <1>7, <1>8, <1>9

-----------------------------------------------------------------------------
(***************************************************************************)
(* The line.                                                               *)
(***************************************************************************)
Joined(a, b, c, d, e, f, g, h) == a \o b \o c \o d \o e \o f \o g \o h
Nested(a, b, c, d, e, f, g, h) == a \o (b \o (c \o (d \o (e \o (f \o (g \o h))))))

AllText(a, b, c, d, e, f, g, h) == {a, b, c, d, e, f, g, h} \subseteq Text

LEMMA RegroupAll ==
    ASSUME NEW a, NEW b, NEW c, NEW d, NEW e, NEW f, NEW g, NEW h,
           AllText(a, b, c, d, e, f, g, h)
    PROVE  Joined(a, b, c, d, e, f, g, h) = Nested(a, b, c, d, e, f, g, h)
<1> DEFINE a2 == a \o b
           a3 == a2 \o c
           a4 == a3 \o d
           a5 == a4 \o e
           a6 == a5 \o f
           h7 == g \o h
           h6 == f \o h7
           h5 == e \o h6
           h4 == d \o h5
           h3 == c \o h4
<1>a. a \in Text
    BY DEF AllText
<1>b. b \in Text
    BY DEF AllText
<1>c. c \in Text
    BY DEF AllText
<1>d. d \in Text
    BY DEF AllText
<1>e. e \in Text
    BY DEF AllText
<1>f. f \in Text
    BY DEF AllText
<1>g. g \in Text
    BY DEF AllText
<1>h. h \in Text
    BY DEF AllText
<1>1. a2 \in Text
    BY <1>a, <1>b, JoinText
<1>2. a3 \in Text
    BY <1>1, <1>c, JoinText
<1>3. a4 \in Text
    BY <1>2, <1>d, JoinText
<1>4. a5 \in Text
    BY <1>3, <1>e, JoinText
<1>5. a6 \in Text
    BY <1>4, <1>f, JoinText
<1>6. h7 \in Text
    BY <1>g, <1>h, JoinText
<1>7. h6 \in Text
    BY <1>6, <1>f, JoinText
<1>8. h5 \in Text
    BY <1>7, <1>e, JoinText
<1>9. h4 \in Text
    BY <1>8, <1>d, JoinText
<1>10. h3 \in Text
    BY <1>9, <1>c, JoinText
<1>11. /\ a2 = a \o b /\ a3 = a2 \o c /\ a4 = a3 \o d /\ a5 = a4 \o e /\ a6 = a5 \o f
       /\ h7 = g \o h /\ h6 = f \o h7 /\ h5 = e \o h6 /\ h4 = d \o h5 /\ h3 = c \o h4
       /\ Joined(a, b, c, d, e, f, g, h) = (a6 \o g) \o h
       /\ Nested(a, b, c, d, e, f, g, h) = a \o (b \o h3)
    BY Zenon DEF Joined, Nested
<1> HIDE DEF a2, a3, a4, a5, a6, h3, h4, h5, h6, h7
<1>12. (a6 \o g) \o h = a6 \o (g \o h)
    BY <1>5, <1>g, <1>h, Regroup
<1>13. (a5 \o f) \o h7 = a5 \o (f \o h7)
    BY <1>4, <1>6, <1>f, Regroup
<1>14. (a4 \o e) \o h6 = a4 \o (e \o h6)
    BY <1>3, <1>7, <1>e, Regroup
<1>15. (a3 \o d) \o h5 = a3 \o (d \o h5)
    BY <1>2, <1>8, <1>d, Regroup
<1>16. (a2 \o c) \o h4 = a2 \o (c \o h4)
    BY <1>1, <1>9, <1>c, Regroup
<1>17. (a \o b) \o h3 = a \o (b \o h3)
    BY <1>10, <1>a, <1>b, Regroup
<1> QED
    BY <1>11, <1>12, <1>13, <1>14, <1>15, <1>16, <1>17 DEF a2, a3, a4, a5, a6, h3, h4, h5, h6, h7

\* What comes after the type and its braces.
Ending(sym) == CountText(sym) \o (<<":">> \o sym.name)

LEMMA TextParts ==
    ASSUME NEW sym \in Describable
    PROVE  /\ TextOf(sym) = Digit(sym.addr) \o (<<":">> \o (<<LetterOf(sym.type)>> \o
                                (SpecText(sym) \o (SizeText(sym) \o Ending(sym)))))
           /\ TextOf(sym) \in Text /\ sym.name \in Text
           /\ SizeText(sym) \o Ending(sym) \in Text
           /\ <<LetterOf(sym.type)>> \o (SpecText(sym) \o (SizeText(sym) \o Ending(sym))) \in Text
           /\ \E c \in Marks, u \in Text : c # "@" /\ Ending(sym) = <<c>> \o u
<1> DEFINE letter == <<LetterOf(sym.type)>>
           colon == <<":">>
           addr == Digit(sym.addr)
<1>1. /\ sym.addr \in 0..15 /\ sym.type \in Range(TypeOf) /\ sym.size \in 0..9
      /\ sym.num_array_elements \in 0..9
      /\ sym.struct_spec \in Text /\ sym.name \in Text
    BY StringsAreText DEF Describable, Symbols
<1>2. \A n \in 0..15 : Digit(n) \in Text
    <2> SUFFICES ASSUME NEW n \in 0..15 PROVE Digit(n) \in Text
        OBVIOUS
    <2>1. Digits[n + 1] \in Ch
        BY DigitsKnown
    <2> QED
        BY <2>1, EmptyText, OneText DEF Digit
<1>3. addr \in Text /\ Digit(sym.size) \in Text /\ Digit(sym.num_array_elements) \in Text
    <2>1. sym.size \in 0..15 /\ sym.num_array_elements \in 0..15
        BY <1>1
    <2> QED
        BY <1>1, <1>2, <2>1
<1>4. /\ ":" \in Marks /\ "@" \in Marks /\ "[" \in Marks /\ "]" \in Marks
      /\ "{" \in Marks /\ "}" \in Marks /\ ":" # "@" /\ "[" # "@"
    BY DEF Marks
<1>5. colon \in Text /\ <<"@">> \in Text /\ <<"[">> \in Text /\ <<"]">> \in Text
      /\ <<"{">> \in Text /\ <<"}">> \in Text
    BY <1>4, MarkText, Zenon
<1>6. letter \in Text
    <2>1. LetterOf(sym.type) \in Ch
        BY <1>1, TypesKnown, DigitsKnown
    <2> QED
        BY <2>1, EmptyText, OneText
<1>7. SpecText(sym) \in Text
    <2>1. <<"{">> \o sym.struct_spec \o <<"}">> \in Text
        BY <1>1, <1>5, JoinText, Zenon
    <2> QED
        BY <2>1, EmptyText, Zenon DEF SpecText
<1>8. SizeText(sym) \in Text
    <2>1. <<"@">> \o Digit(sym.size) \in Text
        BY <1>3, <1>5, JoinText, Zenon
    <2> QED
        BY <2>1, EmptyText, Zenon DEF SizeText
<1>9. CountText(sym) \in Text
    <2>1. <<"[">> \o Digit(sym.num_array_elements) \o <<"]">> \in Text
        BY <1>3, <1>5, JoinText, Zenon
    <2> QED
        BY <2>1, EmptyText, Zenon DEF CountText
<1>10. colon \o sym.name \in Text
    BY <1>1, <1>5, JoinText, Zenon
<1>11. Ending(sym) \in Text
    BY <1>9, <1>10, JoinText, Zenon DEF Ending
<1>12. SizeText(sym) \o Ending(sym) \in Text
    BY <1>8, <1>11, JoinText, Zenon
<1>13. SpecText(sym) \o (SizeText(sym) \o Ending(sym)) \in Text
    BY <1>7, <1>12, JoinText, Zenon
<1>14. letter \o (SpecText(sym) \o (SizeText(sym) \o Ending(sym))) \in Text
    BY <1>6, <1>13, JoinText, Zenon
<1>15. TextOf(sym) = addr \o (colon \o (letter \o
                        (SpecText(sym) \o (SizeText(sym) \o Ending(sym)))))
    <2> DEFINE spec == SpecText(sym)
               size == SizeText(sym)
               count == CountText(sym)
               name == sym.name
    <2>1. name \in Text
        BY <1>1
    <2>2. TextOf(sym) = Joined(addr, colon, letter, spec, size, count, colon, name)
        BY Zenon DEF TextOf, Joined
    <2>3. Ending(sym) = count \o (colon \o name)
        BY Zenon DEF Ending
    <2>4. AllText(addr, colon, letter, spec, size, count, colon, name)
        <3> HIDE DEF addr, colon, letter, spec, size, count, name
        <3> SUFFICES {addr, colon, letter, spec, size, count, colon, name} \subseteq Text
            BY DEF AllText
        <3> USE DEF addr, colon, letter, spec, size, count
        <3> QED
            BY <1>3, <1>5, <1>6, <1>7, <1>8, <1>9, <2>1, Zenon
    <2> HIDE DEF addr, colon, letter, spec, size, count, name
    <2>5. Joined(addr, colon, letter, spec, size, count, colon, name)
              = Nested(addr, colon, letter, spec, size, count, colon, name)
        BY <2>4, RegroupAll
    <2>6. TextOf(sym) = addr \o (colon \o (letter \o (spec \o (size \o Ending(sym)))))
        BY <2>2, <2>3, <2>5, Zenon DEF Nested
    <2> QED
        BY <2>6, Zenon DEF addr, colon, letter, spec, size
<1>16. TextOf(sym) \in Text
    BY <1>3, <1>5, <1>14, <1>15, JoinText, Zenon
<1>17. \E c \in Marks, u \in Text : c # "@" /\ Ending(sym) = <<c>> \o u
    <2>1. CASE sym.num_array_elements = 1
        <3>1. Ending(sym) = colon \o sym.name
            BY <1>10, <2>1, EmptyText, Zenon DEF Ending, CountText
        <3> QED
            BY <1>1, <1>4, <3>1, Zenon
    <2>2. CASE sym.num_array_elements # 1
        <3> DEFINE open == <<"[">>
                   close == <<"]">>
                   n == Digit(sym.num_array_elements)
                   v == colon \o sym.name
        <3>1. CountText(sym) = (open \o n) \o close
            BY <2>2, Zenon DEF CountText
        <3>2. open \in Text /\ close \in Text /\ n \in Text /\ v \in Text
            BY <1>3, <1>5, <1>10
        <3>3. Ending(sym) = ((open \o n) \o close) \o v
            BY <3>1, Zenon DEF Ending
        <3>4. Ending(sym) = open \o ((n \o close) \o v) /\ (n \o close) \o v \in Text
            <4> HIDE DEF open, close, n, v
            <4>1. n \o close \in Text /\ (n \o close) \o v \in Text
                BY <3>2, JoinText
            <4>2. (open \o n) \o close = open \o (n \o close)
                BY <3>2, Regroup, Zenon
            <4>3. (open \o (n \o close)) \o v = open \o ((n \o close) \o v)
                BY <3>2, <4>1, Regroup, Zenon
            <4> QED
                BY <3>3, <4>1, <4>2, <4>3, Zenon
        <3> HIDE DEF n, close, v
        <3> QED
            BY <1>4, <3>4, Zenon
    <2> QED
        BY <2>1, <2>2
<1> QED
    BY <1>1, <1>12, <1>14, <1>15, <1>16, <1>17

\* Two symbols with the same fields.
LEMMA SameSymbol ==
    ASSUME NEW r \in Symbols, NEW s \in Symbols,
           r.addr = s.addr, r.type = s.type, r.struct_spec = s.struct_spec,
           r.size = s.size, r.size_known = s.size_known,
           r.num_array_elements = s.num_array_elements, r.name = s.name
    PROVE  r = s
BY DEF Symbols

LEMMA UntypedSymbol ==
    ASSUME NEW n \in 0..15
    PROVE  Untyped(n) \in Symbols
<1>1. TypeOf["f"] = "function" /\ "f" \in DOMAIN TypeOf
    BY DEF TypeOf
<1>2. "function" \in Range(TypeOf) /\ << >> \in Seq(STRING)
    BY <1>1 DEF Range
<1> QED
    BY <1>2 DEF Symbols, Untyped

\* A line with all the fields.
LEMMA TypedRead ==
    ASSUME NEW sym \in Describable
    PROVE  /\ symbol_table_parse_line(TextOf(sym)).verdict = "ok"
           /\ symbol_table_parse_line(TextOf(sym)).sym = sym
<1> DEFINE line == TextOf(sym)
           s == Untyped(sym.addr)
           colon == ":"
<1>1. /\ line \in Text /\ sym.name \in Text /\ SizeText(sym) \o Ending(sym) \in Text
      /\ <<LetterOf(sym.type)>> \o (SpecText(sym) \o (SizeText(sym) \o Ending(sym))) \in Text
    BY TextParts
<1>2. Rest(line, 1, Digit(sym.addr) \o (<<":">> \o (<<LetterOf(sym.type)>> \o
                       (SpecText(sym) \o (SizeText(sym) \o Ending(sym))))))
    <2>1. Rest(line, 1, line)
        BY <1>1, RestWhole
    <2> QED
        BY <2>1, TextParts, Zenon
<1>3. sym \in Symbols /\ sym.addr \in 0..15 /\ sym.addr <= ULongMax
    BY DEF Describable, Symbols
<1> HIDE DEF line
<1>4. /\ Address(line) = At(3, s)
      /\ Rest(line, 3, <<LetterOf(sym.type)>> \o (SpecText(sym) \o (SizeText(sym) \o Ending(sym))))
    BY <1>1, <1>2, <1>3, AddressRead
<1>5. /\ s \in Symbols /\ s.addr = sym.addr /\ s.struct_spec = << >> /\ s.size = 0
      /\ ~s.size_known /\ s.num_array_elements = 1
    BY <1>3, UntypedSymbol DEF Untyped
<1> HIDE DEF s
<1>6. PICK q1 \in Nat, r1 \in Symbols :
          /\ TypeField(line, At(3, s)) = At(q1, r1)
          /\ q1 >= 3 /\ Rest(line, q1, SizeText(sym) \o Ending(sym))
          /\ r1.addr = s.addr /\ r1.type = sym.type /\ r1.struct_spec = sym.struct_spec
          /\ r1.size = s.size /\ r1.size_known = s.size_known
          /\ r1.num_array_elements = s.num_array_elements
    BY <1>1, <1>4, <1>5, TypeRead
<1>7. PICK c \in Marks, u \in Text : c # "@" /\ Ending(sym) = <<c>> \o u
    BY TextParts
<1>7a. Rest(line, q1, SizeText(sym) \o (<<c>> \o u)) /\ s.size = 0 /\ ~s.size_known
    BY <1>5, <1>6, <1>7, Zenon
<1>8. PICK q2 \in Nat, r2 \in Symbols :
          /\ SizeField(line, At(q1, r1)) = At(q2, r2)
          /\ q2 >= q1 /\ Rest(line, q2, Ending(sym))
          /\ r2.addr = r1.addr /\ r2.type = r1.type /\ r2.struct_spec = r1.struct_spec
          /\ r2.size = sym.size /\ r2.size_known = sym.size_known
          /\ r2.num_array_elements = r1.num_array_elements
    <2>1. /\ r1.size = 0 /\ ~r1.size_known
        BY <1>5, <1>6
    <2>2. \E q \in Nat, r \in Symbols :
              /\ SizeField(line, At(q1, r1)) = At(q, r)
              /\ q >= q1 /\ Rest(line, q, <<c>> \o u)
              /\ r.addr = r1.addr /\ r.type = r1.type /\ r.struct_spec = r1.struct_spec
              /\ r.size = sym.size /\ r.size_known = sym.size_known
              /\ r.num_array_elements = r1.num_array_elements
        BY <1>7, <1>7a, <2>1, SizeRead
    <2> QED
        BY <1>7, <2>2, Zenon
<1>9. PICK q3 \in Nat, r3 \in Symbols :
          /\ CountField(line, At(q2, r2)) = At(q3, r3)
          /\ q3 >= q2 /\ Rest(line, q3, <<":">> \o sym.name)
          /\ r3.addr = r2.addr /\ r3.type = r2.type /\ r3.struct_spec = r2.struct_spec
          /\ r3.size = r2.size /\ r3.size_known = r2.size_known
          /\ r3.num_array_elements = sym.num_array_elements
    BY <1>1, <1>5, <1>6, <1>8, CountRead DEF Ending
<1>10. /\ Separator(line, At(q3, r3)) = At(q3 + 1, r3)
       /\ Rest(line, q3 + 1, sym.name) /\ q3 <= Len(line) /\ line[q3] = ":"
    BY <1>1, <1>9, SeparatorRead
<1>11. PICK q4 \in Nat, r4 \in Symbols :
           /\ NameField(line, At(q3 + 1, r3)) = At(q4, r4)
           /\ r4.addr = r3.addr /\ r4.type = r3.type /\ r4.struct_spec = r3.struct_spec
           /\ r4.size = r3.size /\ r4.size_known = r3.size_known
           /\ r4.num_array_elements = r3.num_array_elements
           /\ r4.name = sym.name
    BY <1>10, NameRead
<1>12. r4 = sym
    BY <1>3, <1>5, <1>6, <1>8, <1>9, <1>11, SameSymbol
<1>13. PlacesFrom(line, 3, ":") # {}
    <2>1. q3 \in 3..Len(line)
        <3>1. Len(line) \in Nat
            BY <1>1, LenProperties DEF line, Text
        <3> QED
            BY <1>6, <1>8, <1>9, <1>10, <3>1
    <2> QED
        BY <1>10, <2>1 DEF PlacesFrom
<1>14. symbol_table_parse_line(line) = At(q4, r4)
    <2>1. At(3, s).p = 3 /\ At(3, s).verdict = "ok"
        BY DEF At
    <2> QED
        BY <1>4, <1>6, <1>8, <1>9, <1>10, <1>11, <1>13, <2>1, Zenon DEF symbol_table_parse_line
<1>15. At(q4, r4).verdict = "ok" /\ At(q4, r4).sym = r4
    BY DEF At
<1> QED
    BY <1>12, <1>14, <1>15 DEF line

\* A line with an address and a name only.
NameOnly(sym) ==
    sym = [Untyped(sym.addr) EXCEPT !.name = sym.name] /\ ":" \notin ToSet(sym.name)

LEMMA PlainRead ==
    ASSUME NEW sym \in Describable, NameOnly(sym), NEW t, t = Digit(sym.addr) \o <<":">> \o sym.name
    PROVE  symbol_table_parse_line(t).verdict = "ok" /\ symbol_table_parse_line(t).sym = sym
<1> DEFINE s == Untyped(sym.addr)
<1>1. /\ sym \in Symbols /\ sym.addr \in 0..15 /\ sym.addr <= ULongMax
      /\ sym.name \in Text /\ sym.name \in Seq(STRING)
    BY StringsAreText DEF Describable, Symbols
<1>2. t = Digit(sym.addr) \o (<<":">> \o sym.name) /\ t \in Text
    <2>1. Digit(sym.addr) \in Text
        <3>1. Digits[sym.addr + 1] \in Ch
            BY <1>1, DigitsKnown
        <3> QED
            BY <3>1, EmptyText, OneText DEF Digit
    <2>2. <<":">> \in Text
        <3>1. ":" \in Marks
            BY DEF Marks
        <3> QED
            BY <3>1, MarkText, Zenon
    <2>3. (Digit(sym.addr) \o <<":">>) \o sym.name = Digit(sym.addr) \o (<<":">> \o sym.name)
        BY <1>1, <2>1, <2>2, Regroup, Zenon
    <2>4. <<":">> \o sym.name \in Text
        BY <1>1, <2>2, JoinText, Zenon
    <2>5. Digit(sym.addr) \o (<<":">> \o sym.name) \in Text
        BY <2>1, <2>4, JoinText, Zenon
    <2> QED
        BY <2>3, <2>5, Zenon
<1>3. Rest(t, 1, Digit(sym.addr) \o (<<":">> \o sym.name))
    <2>1. Rest(t, 1, t)
        BY <1>2, RestWhole
    <2> QED
        BY <1>2, <2>1, Zenon
<1>4. Address(t) = At(3, s) /\ Rest(t, 3, sym.name)
    BY <1>1, <1>3, AddressRead
<1>5. PlacesFrom(t, 3, ":") = {}
    <2> SUFFICES ASSUME NEW q \in 3..Len(t), t[q] = ":"
                 PROVE  FALSE
        BY DEF PlacesFrom
    <2> DEFINE name == sym.name
    <2>1. /\ Len(t) = 2 + Len(name) /\ \A k \in 1..Len(name) : t[2 + k] = name[k]
        <3>1. 3 - 1 = 2
            OBVIOUS
        <3> QED
            BY <1>4, <3>1 DEF Rest
    <2>2. Len(name) \in Nat /\ DOMAIN name = 1..Len(name)
        BY <1>1, LenProperties
    <2>3. \A k \in DOMAIN name : name[k] # ":"
        BY DEF ToSet, NameOnly
    <2> HIDE DEF name
    <2>4. q - 2 \in 1..Len(name) /\ 2 + (q - 2) = q
        <3> DEFINE l == Len(t)
                   n == Len(name)
        <3>1. q \in 3..l /\ l = 2 + n /\ n \in Nat
            BY <2>1, <2>2
        <3> HIDE DEF l, n
        <3>2. q - 2 \in 1..n /\ 2 + (q - 2) = q
            BY <3>1
        <3> QED
            BY <3>2 DEF n
    <2>5. t[q] = name[q - 2]
        BY <2>1, <2>4
    <2> QED
        BY <2>2, <2>3, <2>4, <2>5
<1>6. /\ s \in Symbols
      /\ sym.addr = s.addr /\ sym.type = s.type /\ sym.struct_spec = s.struct_spec
      /\ sym.size = s.size /\ sym.size_known = s.size_known
      /\ sym.num_array_elements = s.num_array_elements
    <2>1. s \in Symbols
        BY <1>1, UntypedSymbol
    <2> HIDE DEF s
    <2>2. sym = [s EXCEPT !.name = sym.name]
        BY DEF s, NameOnly
    <2> QED
        BY <2>1, <2>2 DEF Symbols
<1> HIDE DEF s
<1>7. PICK q \in Nat, r \in Symbols :
          /\ NameField(t, At(3, s)) = At(q, r)
          /\ r.addr = s.addr /\ r.type = s.type /\ r.struct_spec = s.struct_spec
          /\ r.size = s.size /\ r.size_known = s.size_known
          /\ r.num_array_elements = s.num_array_elements
          /\ r.name = sym.name
    BY <1>4, <1>6, NameRead
<1>8. r = sym
    BY <1>1, <1>6, <1>7, SameSymbol
<1>9. symbol_table_parse_line(t) = At(q, r)
    <2>1. At(3, s).p = 3 /\ At(3, s).verdict = "ok"
        BY DEF At
    <2> QED
        BY <1>4, <1>5, <1>7, <2>1, Zenon DEF symbol_table_parse_line
<1>10. At(q, r).verdict = "ok" /\ At(q, r).sym = r
    BY DEF At
<1> QED
    BY <1>8, <1>9, <1>10

\* symbol_table_parse_line reads back what was written: the parts of the line
\* that it takes to be the type, the spec, the size, the count and the name
\* are those that a writer of the format put there, whatever characters a
\* name or a spec is made of (symbol_table.c:96-197).
THEOREM ReadsBack ==
    \A sym \in Describable : \A t \in Texts(sym) :
        /\ symbol_table_parse_line(t).verdict = "ok"
        /\ symbol_table_parse_line(t).sym = sym
<1> SUFFICES ASSUME NEW sym \in Describable, NEW t \in Texts(sym)
             PROVE  /\ symbol_table_parse_line(t).verdict = "ok"
                    /\ symbol_table_parse_line(t).sym = sym
    OBVIOUS
<1>1. CASE t = TextOf(sym)
    BY <1>1, TypedRead
<1>2. CASE t # TextOf(sym)
    <2>1. /\ sym = [Untyped(sym.addr) EXCEPT !.name = sym.name]
          /\ ":" \notin ToSet(sym.name)
          /\ t = Digit(sym.addr) \o <<":">> \o sym.name
        BY <1>2, Zenon DEF Texts
    <2>2. NameOnly(sym)
        BY <2>1, Zenon DEF NameOnly
    <2> QED
        BY <2>1, <2>2, PlainRead
<1> QED
    BY <1>1, <1>2
=============================================================================
