----------------------------- MODULE SymbolLine ----------------------------
(***************************************************************************)
(* symbol_table_parse_line: what one line of a symbol file means.          *)
(*                                                                         *)
(*     address:name      address:type[{spec}][@size][[count]]:name         *)
(*                                                                         *)
(* A line is a sequence of characters without blanks, signs, capitals or a *)
(* 0x prefix, so that strtoul and atoi read a run of digits.  Each part of *)
(* the function takes the line and where the parts before it came to: the  *)
(* place p of the next character, the symbol so far, and the verdict: "ok" *)
(* until the function returns -1 ("error"), calls abort ("abort") or looks *)
(* past the end of the line for a bracket ("runaway").                     *)
(***************************************************************************)
EXTENDS Integers, SequencesExt, FiniteSetsExt

CONSTANTS
    ULongMax,   \* ULONG_MAX
    NameCap,    \* sizeof(s->name) - 1, 63
    SpecCap     \* sizeof(s->struct_spec) - 1, 31

ASSUME CapAssumption == ULongMax \in Nat /\ NameCap \in Nat /\ SpecCap \in Nat

Digits == <<"0", "1", "2", "3", "4", "5", "6", "7", "8", "9",
            "a", "b", "c", "d", "e", "f">>
DigitsOf(base) == {Digits[d] : d \in 1..base}
DigitValue(c) == CHOOSE v \in 0..15 : Digits[v + 1] = c

\* The types by their letter; any other letter stands for a function.
TypeOf ==
    [d |-> "data", w |-> "word", f |-> "function", s |-> "string",
     S |-> "struct_spec", p |-> "ptr"]

\* A line ends in a zero.
Zero == "zero"
CharAt(line, p) == IF p <= Len(line) THEN line[p] ELSE Zero

\* strchr: the places of c from p on.
PlacesFrom(line, p, c) == {q \in p..Len(line) : line[q] = c}

\* Where strtoul stops, and the number it saw.
NumberEnd(line, p, base) ==
    Min({q \in p..(Len(line) + 1) : CharAt(line, q) \notin DigitsOf(base)})
Number(line, p, base) ==
    FoldLeft(LAMBDA n, c : base * n + DigitValue(c), 0,
             SubSeq(line, p, NumberEnd(line, p, base) - 1))

At(p, sym) == [p |-> p, sym |-> sym, verdict |-> "ok"]
Ends(verdict) == [p |-> 0, sym |-> << >>, verdict |-> verdict]

\* What the symbol holds before its fields are read.
Untyped(addr) ==
    [addr |-> addr, type |-> "function", struct_spec |-> << >>, size |-> 0,
     size_known |-> FALSE, num_array_elements |-> 1, name |-> << >>]

-----------------------------------------------------------------------------
\* A bug to check the properties against: the largest address is refused.
AddressBug(line) ==
    LET q == NumberEnd(line, 1, 16)
        addr == Number(line, 1, 16)
    IN  IF addr >= ULongMax \/ CharAt(line, q) # ":" THEN Ends("error")
        ELSE At(q + 1, Untyped(addr))

\* The address up to its colon.  A line without digits has address 0.
Address(line) ==
    LET q == NumberEnd(line, 1, 16)
        addr == Number(line, 1, 16)
    IN  IF addr > ULongMax \/ CharAt(line, q) # ":" THEN Ends("error")
        ELSE At(q + 1, Untyped(addr))

\* The braces after S: the first closing one ends them.
StructSpec(line, p, sym) ==
    LET closing == PlacesFrom(line, p + 1, "}")
        spec == SubSeq(line, p + 1, Min(closing) - 1)
    IN  IF CharAt(line, p) # "{" THEN Ends("abort")
        ELSE IF closing = {} THEN Ends("runaway")
        ELSE IF Len(spec) > SpecCap THEN Ends("abort")
        ELSE At(Min(closing) + 1, [sym EXCEPT !.struct_spec = spec])

\* The letter of the type; one character is used up whatever it is.
TypeField(line, st) ==
    LET letter == CharAt(line, st.p)
        sym == [st.sym EXCEPT !.type = IF letter \in DOMAIN TypeOf
                                        THEN TypeOf[letter] ELSE "function"]
    IN  IF letter = "S" THEN StructSpec(line, st.p + 1, sym)
        ELSE At(st.p + 1, sym)

\* @size
SizeField(line, st) ==
    IF st.verdict = "ok" /\ CharAt(line, st.p) = "@"
    THEN At(NumberEnd(line, st.p + 1, 10),
            [st.sym EXCEPT !.size = Number(line, st.p + 1, 10), !.size_known = TRUE])
    ELSE st

\* [count]: atoi reads the digits, the bracket is looked for anywhere.
CountField(line, st) ==
    LET closing == PlacesFrom(line, st.p + 1, "]")
    IN  IF st.verdict # "ok" \/ CharAt(line, st.p) # "[" THEN st
        ELSE IF closing = {} THEN Ends("runaway")
        ELSE At(Min(closing) + 1,
                [st.sym EXCEPT !.num_array_elements = Number(line, st.p + 1, 10)])

\* The colon before the name.
Separator(line, st) ==
    IF st.verdict # "ok" THEN st
    ELSE IF CharAt(line, st.p) # ":" THEN Ends("abort")
    ELSE At(st.p + 1, st.sym)

\* The rest of the line is the name.
NameField(line, st) ==
    LET name == SubSeq(line, st.p, Len(line))
    IN  IF st.verdict # "ok" THEN st
        ELSE IF Len(name) > NameCap THEN Ends("error")
        ELSE At(Len(line) + 1, [st.sym EXCEPT !.name = name])

\* The fields between the address and the name are there when another colon
\* follows.
symbol_table_parse_line(line) ==
    LET a == Address(line)
        typed == PlacesFrom(line, a.p, ":") # {}
    IN  IF a.verdict # "ok" THEN a
        ELSE NameField(line,
                IF ~typed THEN a
                ELSE Separator(line,
                        CountField(line, SizeField(line, TypeField(line, a)))))

-----------------------------------------------------------------------------
(***************************************************************************)
(* The format, the other way round: how a symbol is written.  Addresses,   *)
(* sizes and counts have one digit here.                                   *)
(***************************************************************************)
Digit(n) == <<Digits[n + 1]>>

LetterOf(type) == CHOOSE c \in DOMAIN TypeOf : TypeOf[c] = type

SpecText(sym) ==
    IF sym.type = "struct_spec" THEN <<"{">> \o sym.struct_spec \o <<"}">>
    ELSE << >>
SizeText(sym) ==
    IF sym.size_known THEN <<"@">> \o Digit(sym.size) ELSE << >>
CountText(sym) ==
    IF sym.num_array_elements # 1
    THEN <<"[">> \o Digit(sym.num_array_elements) \o <<"]">> ELSE << >>

TextOf(sym) ==
    Digit(sym.addr) \o <<":">> \o <<LetterOf(sym.type)>> \o SpecText(sym)
    \o SizeText(sym) \o CountText(sym) \o <<":">> \o sym.name

\* The symbols that the format can say, in a spec and a name that fit their
\* fields.
Symbols ==
    [addr : 0..15, type : Range(TypeOf), struct_spec : Seq(STRING), size : 0..9,
     size_known : BOOLEAN, num_array_elements : 0..9, name : Seq(STRING)]

Describable ==
    {sym \in Symbols :
        /\ sym.addr <= ULongMax
        /\ sym.type # "struct_spec" => sym.struct_spec = << >>
        /\ Len(sym.struct_spec) <= SpecCap /\ "}" \notin ToSet(sym.struct_spec)
        /\ ~sym.size_known => sym.size = 0
        /\ Len(sym.name) <= NameCap}

\* The texts of a symbol: without the middle fields when they say nothing,
\* and no colon in the name is taken for the end of them.
Texts(sym) ==
    {TextOf(sym)} \cup
    (IF /\ sym = [Untyped(sym.addr) EXCEPT !.name = sym.name]
        /\ ":" \notin ToSet(sym.name)
     THEN {Digit(sym.addr) \o <<":">> \o sym.name} ELSE {})
=============================================================================
