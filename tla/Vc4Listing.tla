----------------------------- MODULE Vc4Listing -----------------------------
(***************************************************************************)
(* The whole dump: the main loop (Vc4Dump) with the printers               *)
(* (Vc4Operands).  Each row of the listing has a line, what                *)
(* decoded_i->print writes after the bytes.  A printer that reads past the *)
(* end of a table of names gets an arbitrary pointer: it prints something  *)
(* (a line that is not defined) or takes the program down (crashed).       *)
(***************************************************************************)
EXTENDS Vc4Operands

CONSTANTS Images, Stale, BaseAddr, Faults,   \* as in Vc4Dump
          Unset      \* what a local variable that was never set may hold

\* As in Vc4Dump: 16-bit words, and a uint32_t base address.
ASSUME DumpAssumption ==
    /\ Images \subseteq Seq(Halfword) /\ Stale \subseteq Halfword
    /\ BaseAddr \in 0..(PcModulus - 1)
    /\ Faults \in BOOLEAN

ASSUME UnsetAssumption == Unset \subseteq Int /\ Unset # {}

VARIABLES image, pos, instr, instr_sz, current_pc, at, listing,
          lines,     \* the text of each row
          crashed    \* a stray pointer was followed

Dump == INSTANCE Vc4Dump

dumpVars == <<image, pos, instr, instr_sz, current_pc, at, listing>>
vars == <<dumpVars, lines, crashed>>

-----------------------------------------------------------------------------
Init ==
    /\ Dump!Init
    /\ lines = << >>
    /\ crashed = FALSE

\* "Failed to decode instruction" and the bytes, or the entry's printer.
RowLine(b) ==
    LET entry == vc4_decode_instr(instr)
    IN  IF entry = NoEntry
        THEN Plain([n \in 1..(instr_sz \div 2) |-> instr[n - 1]])
        ELSE print(entry, instr, current_pc, b)

\* A bug to check the properties against: current_pc advances first.
PrintLineBug ==
    /\ ~crashed
    /\ Dump!PrintRow
    /\ \E b \in Unset :
          lines' = Append(lines, print(vc4_decode_instr(instr), instr, current_pc', b))
    /\ UNCHANGED crashed

\* The body of vc4_dump's loop after the fetch.
PrintLine ==
    /\ ~crashed
    /\ Dump!PrintRow
    /\ \E b \in Unset : lines' = Append(lines, RowLine(b))
    /\ UNCHANGED crashed

\* printf("%s") of what lies after the end of a table.
Crash ==
    /\ ~crashed
    /\ at = "print"
    /\ \E b \in Unset : ~RowLine(b).defined
    /\ crashed' = TRUE
    /\ UNCHANGED <<dumpVars, lines>>

\* The loop's other steps.
Fetching ==
    /\ ~crashed
    /\ \/ Dump!OpenImage \/ Dump!MainFails \/ Dump!Seek \/ Dump!SeekFails
       \/ Dump!FetchFirst \/ Dump!FetchSecond \/ Dump!FetchThird \/ Dump!FetchLast
       \/ Dump!FetchFails
    /\ UNCHANGED <<lines, crashed>>

\* The process has ended, one way or the other.
Ended == (crashed \/ at = "done") /\ UNCHANGED vars

Next == PrintLine \/ Crash \/ Fetching \/ Ended

Spec == Init /\ [][Next]_vars

-----------------------------------------------------------------------------
(***************************************************************************)
(* What the text must say, in terms of the row's words.                    *)
(***************************************************************************)
Printed == 1..Len(lines)

Uint32 == 0..(PcModulus - 1)

\* The places of a line's vector operands.
VectorPlaces == [i48_data_vop |-> 3..5, i80_mem_op |-> {5}, i80_data_op |-> 5..7]

\* The loop's variables and control points are as in Vc4Dump.  Every row has
\* its line, whose numbers are those of a 32-bit machine: the addresses of all
\* entries, and the operands of all but the vector entries.
TypeOK ==
    /\ Dump!TypeOK
    /\ Len(lines) = Len(listing)
    /\ \A n \in Printed :
          /\ DOMAIN lines[n] = {"ops", "addrs", "defined"}
          /\ listing[n].entry \notin DOMAIN VectorPlaces => lines[n].ops \in Seq(Uint32)
          /\ lines[n].addrs \in Seq(Uint32)
          /\ lines[n].defined \in BOOLEAN
    /\ crashed \in BOOLEAN

\* Two's complement: what an n-bit field says.
Signed(v, bits) == IF v < 2^(bits - 1) THEN v ELSE v - 2^bits

Bits(word, low, width) == (word \div 2^low) % 2^width

\* How far from its instruction each pc-relative address lies.
Distance(entry, words) ==
    CASE entry = "i16_b_cond" -> 2 * Signed(words[0] % 128, 7)
      [] entry = "i32_addcmpb" ->
            IF words[1] < 2^15 THEN 2 * Signed(words[1] % 2^10, 10)
                               ELSE 2 * Signed(words[1] % 2^8, 8)
      [] entry = "i32_b" ->
            LET low == (words[0] % 128) * 65536 + words[1]
            IN  IF Bits(words[0], 7, 1) = 0 THEN 2 * Signed(low, 23)
                ELSE 2 * Signed(Bits(words[0], 8, 4) * 2^23 + low, 27)
      [] entry = "i32_alu_add_pc" -> Signed(words[1], 16)
      [] entry \in {"i48_b", "i48_add_pc_rel"} -> Signed(words[2], 16) * 65536 + words[1]
      [] entry = "i48_add_ld_st" -> Signed(words[2], 16) * 65536 + Bits(words[1], 0, 11)

\* The rows whose address counts from the pc: branches, additions to the pc,
\* and the 48-bit loads and stores whose base register is the pc.  Not the
\* branch 0xe000, which is fetched without the offset's second half.
PcRelative(row) ==
    \/ row.entry \in {"i16_b_cond", "i32_addcmpb", "i32_b", "i32_alu_add_pc"}
    \/ row.entry \in {"i48_b", "i48_add_pc_rel"} /\ row.words[0] # \hE000
    \/ row.entry = "i48_add_ld_st" /\ Bits(row.words[0], 8, 1) = 1

\* The address such a row shows is that of its own first byte and the signed
\* offset in its words, twice where it counts halfwords, modulo 2^32: for
\* every width of offset, forwards and backwards, past either end of the
\* address space, wherever the row is (vc4_instructions.c:66-74, 160-221,
\* 389, 474, 502).
TargetsRelative ==
    \A n \in Printed :
        PcRelative(listing[n]) =>
            lines[n].addrs =
                << (BaseAddr + 2 * listing[n].start
                        + Distance(listing[n].entry, listing[n].words)) % PcModulus >>

\* The entries whose text holds all there is in the words.  The float
\* conversions are not among them: whether their last operand is a register
\* or a number does not show.
Lossless ==
    {"i16_swi", "i16_b", "i16_switch", "i16_version", "i16_swi_u", "i16_ldm_stm",
     "i16_ld_st_sp", "i16_add_sp", "i16_b_cond", "i16_ld_st", "i16_alu_op",
     "i32_addcmpb", "i32_b", "i32_ld_st_cond_indexed", "i32_alu_op", "i32_alu_add",
     "i32_alu_add_pc", "i32_p_control", "i48_alu_op", "i48_alu_add", NoEntry}

\* Two instructions of one entry that differ anywhere in their words are
\* printed differently: the fields a printer takes out, by positions and
\* widths written down apart from the decoder's masks, leave out no bit that
\* the masks leave open (vc4_decode.c:94-183, vc4_instructions.c:145-618).
TellsApart ==
    \A m, n \in Printed :
        /\ listing[m].entry = listing[n].entry
        /\ listing[m].entry \in Lossless
        /\ lines[m].ops = lines[n].ops
        /\ lines[m].addrs = lines[n].addrs
        => listing[m].words = listing[n].words

\* All rows of a run have the same second word, because nothing reads one.
\* The text of the last row holds that one, too: with any other that decodes
\* to the same entry, say that of another run, it would not be the same
\* (vc4_dump.c:30, vc4_instructions.c:145-232, 433-618).
SecondWordTold ==
    at = "fetch1" /\ lines # << >> =>
        LET row == Last(listing)
            With(x) == [row.words EXCEPT ![1] = x]
            Text(x) == print(row.entry, With(x), row.addr, 0)
        IN  row.entry \in Lossless \ {NoEntry} /\ 1 \in DOMAIN row.words =>
                \A x \in Stale \ {row.words[1]} :
                    Text(x).ops = Last(lines).ops /\ Text(x).addrs = Last(lines).addrs
                        => vc4_decode_instr(With(x)) # row.entry

\* First words whose operation field goes past the table of names: scalar
\* operations 57..63 of the conditional form, vector operations 48..63 of the
\* 48-bit and 48 of the 80-bit form, memory operations 10..31.
NamelessWords ==
    (\hC720..\hC7FF) \cup
    (\hF580..\hF5FF) \cup (\hF780..\hF7FF) \cup
    (\hF940..\hFBFF) \cup
    (\hFD80..\hFD87) \cup (\hFF80..\hFF87)

\* No printer leaves a table of names but for those words, however the other
\* words, stale ones included, look: conditions, predicates, repetitions and
\* the 16-bit, the five-bit and the float operations stay within theirs
\* (vc4_instructions.c:54, 424, 595, 640-644, 895, 983, 1041,
\* vc4_scalar_op_table.c:124).
NamesWithinTables ==
    /\ \A n \in Printed : ~lines[n].defined => listing[n].words[0] \in NamelessWords
    /\ crashed => instr[0] \in NamelessWords

\* Rows and columns of vector operands are inside the 64 by 64 register file,
\* whatever the ten bits, the lane register and an unset b are: the table of
\* column offsets lacks only prefixes whose operands are dashes
\* (vc4_instructions.c:76-117).
InRegisterFile ==
    \A n \in Printed : listing[n].entry \in DOMAIN VectorPlaces =>
        \A k \in VectorPlaces[listing[n].entry] \cap DOMAIN lines[n].ops :
            LET operand == lines[n].ops[k]
            IN  Len(operand) = 4 => operand[3] \in 0..63 /\ operand[4] \in 0..63
=============================================================================
