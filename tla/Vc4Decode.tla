----------------------------- MODULE Vc4Decode -----------------------------
(***************************************************************************)
(* The instruction decoder, vc4_decode.c: from the halfwords of an         *)
(* instruction to the vc4_disas_instruction that prints it.  The decoder   *)
(* keeps no state; each chain of "if ((i & mask) == value)" tests is a     *)
(* sequence of rules and the first rule that matches wins, as in the C.    *)
(***************************************************************************)
EXTENDS Integers, SequencesExt

\* A halfword as the program stores it, uint16_t.
Halfword == 0..65535

\* A NULL vc4_disas_instruction: "Failed to decode instruction".
NoEntry == "none"

\* The bits [pos, pos + width) of value.
bf_extract(value, pos, width) == (value \div 2^pos) % 2^width

(***************************************************************************)
(* A rule: the first halfwords it accepts, and the residues (modulo mod)   *)
(* it accepts in the second halfword.                                      *)
(***************************************************************************)
Rule(entry, words, mod, low) ==
    [entry |-> entry, words |-> words, mod |-> mod, low |-> low]

\* A rule whose mask has no bit in the second halfword.
FirstWordRule(entry, words) == Rule(entry, words, 1, {0})

Matches(rule, w0, w1) == w0 \in rule.words /\ w1 % rule.mod \in rule.low

\* The entry of the first rule of the chain that matches.
FirstMatch(chain, w0, w1) ==
    LET k == SelectInSeq(chain, LAMBDA rule : Matches(rule, w0, w1))
    IN  IF k = 0 THEN NoEntry ELSE chain[k].entry

-----------------------------------------------------------------------------
\* The tests of vc4_decode_instr16, on the whole uint16_t.
Chain16 == <<
    FirstWordRule("i16_bkpt",    {0}),
    FirstWordRule("i16_nop",     {1}),
    FirstWordRule("i16_sleep",   {2}),
    FirstWordRule("i16_user",    {3}),
    FirstWordRule("i16_ei",      {4}),
    FirstWordRule("i16_di",      {5}),
    FirstWordRule("i16_cbclr",   {6}),
    FirstWordRule("i16_cbadd1",  {7, 8, 9}),
    FirstWordRule("i16_rti",     {10}),
    FirstWordRule("i16_illegal", 11..15),
    FirstWordRule("i16_swi",     \h0020..\h003F),
    FirstWordRule("i16_b",       \h0040..\h007F),
    FirstWordRule("i16_switch",  (\h0080..\h008F) \cup (\h00A0..\h00AF)),
    FirstWordRule("i16_version", \h00E0..\h00FF),
    FirstWordRule("i16_swi_u",   \h01C0..\h01FF),
    FirstWordRule("i16_ldm_stm", \h0200..\h03FF),
    FirstWordRule("i16_ld_st_sp",\h0400..\h07FF),
    FirstWordRule("i16_ldw_stw", \h0800..\h0FFF),
    FirstWordRule("i16_add_sp",  \h1000..\h17FF),
    FirstWordRule("i16_b_cond",  \h1800..\h1FFF),
    FirstWordRule("i16_ld_st",   \h2000..\h3FFF),
    FirstWordRule("i16_alu_op",  \h4000..\h7FFF) >>

\* Register form (bits 5 and 6 clear) or immediate form (bit 6 set).
RegOrImm == (0..31) \cup (64..127)

\* The float conversions, selected by bits 21..22 of the 32-bit word.
FloatOp(k) == {w \in \hCA00..\hCA7F : bf_extract(w, 5, 2) = k}

\* The tests of vc4_decode_instr32, on (i[0] << 16) | i[1].
Chain32 == <<
    FirstWordRule("i32_addcmpb",  \h8000..\h8FFF),
    FirstWordRule("i32_b",        \h9000..\h9FFF),
    Rule("i32_ld_st_cond_indexed", \hA000..\hA0FF, 128, {x \in 0..127 : bf_extract(x, 5, 2) = 0}),
    FirstWordRule("i32_ld_st_disp_12", \hA200..\hA3FF),
    Rule("i32_ld_st_pre_post",     \hA400..\hA5FF, 128, {0}),
    FirstWordRule("i32_ld_st_disp_16", \hA800..\hABFF),
    FirstWordRule("i32_alu_op",   \hB000..\hB3FF),
    FirstWordRule("i32_alu_add",  \hB400..\hB7FF),
    FirstWordRule("i32_alu_add_pc", \hBFE0..\hBFFF),
    Rule("i32_alu_cond", \hC000..\hC7FF, 128, RegOrImm),
    Rule("i32_alu_fop",  \hC800..\hC9FF, 128, RegOrImm),
    Rule("i32_ftrunc",   FloatOp(0), 128, RegOrImm),
    Rule("i32_floor",    FloatOp(1), 128, RegOrImm),
    Rule("i32_flts",     FloatOp(2), 128, RegOrImm),
    Rule("i32_fltu",     FloatOp(3), 128, RegOrImm),
    Rule("i32_p_control", \hCC00..\hCC3F, 65536, 0..31) >>

\* A bug to check the properties against: a mask with a bit in the operand.
Chain48Bug == << Rule("i48_alu_op", \hE800..\hEBFF, 2, {0}) >>

\* The tests of vc4_decode_instr48: only the first halfword is looked at.
Chain48 == <<
    FirstWordRule("i48_data_vop",   \hF400..\hF7FF),
    FirstWordRule("i48_b",          \hE000..\hE3FF),
    FirstWordRule("i48_add_pc_rel", \hE500..\hE5FF),
    FirstWordRule("i48_add_ld_st",  \hE600..\hE7FF),
    FirstWordRule("i48_alu_op",     \hE800..\hEBFF),
    FirstWordRule("i48_alu_add",    \hEC00..\hEFFF) >>

\* The tests of vc4_decode_instr80.
Chain80 == <<
    FirstWordRule("i80_mem_op",  \hF800..\hFBFF),
    FirstWordRule("i80_data_op", \hFC00..\hFFFF) >>

-----------------------------------------------------------------------------
\* Which of the four decoders the first halfword selects, as the number of
\* bytes its instructions have.
DecodedSize(w0) ==
    IF w0 < \h8000 THEN 2
    ELSE IF w0 < \hE000 THEN 4
    ELSE IF w0 < \hF800 THEN 6 ELSE 10

ChainOf(size) ==
    CASE size = 2 -> Chain16 [] size = 4 -> Chain32
      [] size = 6 -> Chain48 [] size = 10 -> Chain80

\* Everything a decoder can answer.
EntriesOf(chain) == {chain[k].entry : k \in 1..Len(chain)}
Entries ==
    {NoEntry} \cup EntriesOf(Chain16) \cup EntriesOf(Chain32)
              \cup EntriesOf(Chain48) \cup EntriesOf(Chain80)

\* instr is the five-halfword array of the caller; instr_sz is ignored.
vc4_decode_instr(instr) ==
    FirstMatch(ChainOf(DecodedSize(instr[0])), instr[0], instr[1])
=============================================================================
