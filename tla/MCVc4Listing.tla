---------------------------- MODULE MCVc4Listing ----------------------------
(***************************************************************************)
(* Vc4Listing on files of one or two instructions.  What a second word     *)
(* holds is what instr[1] held at the start, so Stale ranges over operands.*)
(***************************************************************************)
EXTENDS Vc4Listing

\* The first and the last word of the 16- and 32-bit rules that have operands.
Ends16 == {\h0020, \h003F, \h0040, \h007F, \h0080, \h00AF, \h00E0, \h00FF,
           \h01C0, \h01FF, \h0200, \h03FF, \h0400, \h07FF, \h0800, \h0FFF,
           \h1000, \h17FF, \h1800, \h1FFF, \h2000, \h3FFF,
           \h4000, \h5FFF, \h6000, \h7FFF}
Ends32 == {\h8000, \h8FFF, \h9000, \h9FFF, \hA000, \hA0FF, \hA200, \hA3FF,
           \hA400, \hA5FF, \hA800, \hABFF, \hB000, \hB3FF, \hB400, \hB7FF,
           \hBFE0, \hBFFF, \hC000, \hC7FF, \hC800, \hC9FF, \hCA00, \hCA3F,
           \hCA40, \hCA7F, \hCC00, \hCC3F}
Ends48 == {\hE800, \hEBFF, \hEC00, \hEFFF}

Flip(w, b) == IF Bits(w, b, 1) = 1 THEN w - 2^b ELSE w + 2^b

\* 16-bit branches with every offset, and with every condition; 32-bit ones of
\* every condition and form, with the ends of their offset's upper part; a
\* second branch after a row of each length; what counts from the pc in 48 bits.
Branches ==
    {<<w>> : w \in \h1800..\h187F} \cup
    {<<\h1800 + 128 * c + low>> : c \in 1..15, low \in {0, 63, 64, 127}} \cup
    {<<\h9000 + 128 * k + low, 0>> : k \in 0..31, low \in {0, 1, 63, 64, 127}} \cup
    {<<1, w>> : w \in {\h183F, \h1840, \h187F}} \cup
    {<<\hE800, 0, 0, w>> : w \in {\h183F, \h1840, \h187F}} \cup
    {<<\hF800, 0, 0, 0, 0, w>> : w \in {\h183F, \h1840, \h187F}} \cup
    {<<w, 0, y>> : w \in {\hE000, \hE001, \hE0FF, \hE100, \hE3FF, \hE500, \hE5FF,
                         \hE600, \hE700, \hE7FF},
                   y \in {0, 1, \h1FFF, \h2000, \h7FFE, \h8000, \hFFFF}}

\* Two instructions whose words differ in one bit, of those that a 29-bit
\* uint32_t keeps.
Pairs ==
    {<<w, Flip(w, b)>> : w \in Ends16, b \in 0..15} \cup
    {<<w, 0, Flip(w, b), 0>> : w \in Ends32, b \in 0..15} \cup
    {<<w, 0, 0, Flip(w, b), 0, 0>> : w \in Ends48, b \in 0..15} \cup
    {<<w, 0, 0, w, 0, 2^b>> : w \in Ends48, b \in 0..12}

\* Memory and vector operations: every operation, and every prefix in b and
\* in a.
Vectors ==
    {<<w, 0, y>> : w \in {\hF400 + 8 * k : k \in 0..127}, y \in {3, \h7C3}} \cup
    {<<w, 0, y>> : w \in {\hF400, \hF578, \hF600},
                   y \in {64 * k + 3 : k \in 0..31}} \cup
    {<<w, 0, y, z, v>> : w \in {\hF800 + 32 * k + 1 : k \in 0..31} \cup
                               {\hFC00 + 8 * k + 7 : k \in {0, 1, 47, 48, 49, 63, 64, 112}},
                         y \in {63, \h7FF}, z \in {0, 15}, v \in {0, \hFFFF}} \cup
    {<<w, 0, y, z, v>> : w \in {\hF801, \hF8A1, \hFC07, \hFD87, \hFE07},
                         y \in {64 * k + 63 : k \in 0..31},
                         z \in {0, 15}, v \in {0, \hFFFF}}

MCImages ==
    Branches \cup Pairs \cup Vectors

\* Offsets at both ends of each width, both forms and modes of the rest, one
\* bit at a time, and every prefix of a vector operand.
MCStale ==
    {0, \h01FF, \h7FFF, \h807F, \h8080, \hFFFF} \cup {2^b : b \in 0..15} \cup
    {4096 * k + 4 * (15 - k) + 2 : k \in 0..15}
=============================================================================
