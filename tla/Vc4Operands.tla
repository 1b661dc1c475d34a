---------------------------- MODULE Vc4Operands ----------------------------
(***************************************************************************)
(* The printers, vc4_instructions.c: what a row's text says after its      *)
(* bytes.  One operator per printer (printers that say the same thing      *)
(* share one), from the words in instr and d->current_pc to a Line: the    *)
(* operands in the order of the text and the addresses shown.  Wording and *)
(* number formats are left out; a name taken from a table is its index.    *)
(*                                                                         *)
(* The program's uint32_t and the int it is stored in are both a residue   *)
(* modulo PcModulus.                                                       *)
(***************************************************************************)
EXTENDS Vc4Decode

CONSTANTS
    PcModulus,  \* 2^32
    DataStart   \* d->data_start, 0x900000

\* uint32_t is made of two halfwords, and holds the longest branch offset.
ASSUME WordAssumption == PcModulus \in Nat /\ PcModulus % 65536 = 0 /\ PcModulus >= 2^28
\* Of the high halfword of a 32-bit operand nothing but whole turns is lost.
ASSUME TurnsAssumption == 65536 % (PcModulus \div 65536) = 0
ASSUME DataStartAssumption == DataStart \in 0..(PcModulus - 1)

-----------------------------------------------------------------------------
(***************************************************************************)
(* Numbers.                                                                *)
(***************************************************************************)
UInt(n) == n % PcModulus

\* (high << 16) | low
Join(high, low) == (high % (PcModulus \div 65536)) * 65536 + low

\* The flag at a bit of a word.
Flag(word, pos) == bf_extract(word, pos, 1)

\* A bug to check the properties against: the bit above the field is tested.
sign_extendBug(value, bits) == value % 2^bits

\* The result of the C function, whose value has more bits than counted only
\* where the caller's field is narrower.
sign_extend(value, bits) ==
    LET v == value % 2^bits
    IN  IF v >= 2^(bits - 1) THEN v + (PcModulus - 2^bits) ELSE v

\* A bug to check the properties against: a wider type for the address.
print_abs_addrBug(addr) == addr

\* print_abs_addr; vc4_dump loads no symbols, so no name follows an address.
print_abs_addr(addr) == UInt(addr)

-----------------------------------------------------------------------------
(***************************************************************************)
(* Tables: a lookup succeeds when the index is one of the table's.  What   *)
(* the code reads after the end of a table is anybody's pointer.           *)
(***************************************************************************)
ConditionNames == 16   \* vc4_cond_table
ScalarNames    == 57   \* vc4_scalar_op_table
FloatNames     == 16   \* vc4_float_op_table
MemOpNames     == 10   \* vmemops
VectorNames    == 48   \* vop_48_string
RepeatNames    == 8    \* repstr
PredicateNames == 8    \* pstr

Lookup(names, index) == index < names

\* A printed line; defined says whether every lookup was in its table.
Line(ops, addrs, lookups) ==
    [ops |-> ops, addrs |-> addrs, defined |-> FALSE \notin lookups]

\* A line without tables and addresses.
Plain(ops) == Line(ops, << >>, {})

vc4_operand_size(format) == <<4, 2, 1, 2>>[format + 1]

-----------------------------------------------------------------------------
(***************************************************************************)
(* 16 bits.                                                                *)
(***************************************************************************)
i16_swi(i) == Plain(<<bf_extract(i[0], 0, 5)>>)

i16_b(i) == Plain(<<Flag(i[0], 5), bf_extract(i[0], 0, 5)>>)

i16_switch(i) == Plain(<<Flag(i[0], 5), bf_extract(i[0], 0, 4)>>)

\* A bug to check the properties against: a register field cut short.
i16_versionBug(i) == Plain(<<bf_extract(i[0], 0, 4)>>)

i16_version(i) == Plain(<<bf_extract(i[0], 0, 5)>>)

i16_swi_u(i) == Plain(<<32 + bf_extract(i[0], 0, 6)>>)

\* Store or load, the first and the last register, lr or pc as well.
i16_ldm_stm(i) ==
    LET rb == <<0, 6, 16, 24>>[bf_extract(i[0], 5, 2) + 1]
        rm == (rb + bf_extract(i[0], 0, 5)) % 32
    IN  Plain(<<Flag(i[0], 7), rb, rm, Flag(i[0], 8)>>)

i16_ld_st_sp(i) ==
    Plain(<<Flag(i[0], 9), bf_extract(i[0], 0, 4), 4 * bf_extract(i[0], 4, 5)>>)

i16_ldw_stw(i) ==
    Plain(<<Flag(i[0], 8), vc4_operand_size(bf_extract(i[0], 9, 2)),
            bf_extract(i[0], 0, 4), bf_extract(i[0], 4, 4)>>)

i16_add_sp(i) ==
    Plain(<<bf_extract(i[0], 0, 5),
            UInt(4 * sign_extend(bf_extract(i[0], 5, 6), 6))>>)

i16_b_cond(i, pc) ==
    LET cond == bf_extract(i[0], 7, 4)
        off  == UInt(2 * sign_extend(bf_extract(i[0], 0, 7), 7))
    IN  Line(<<cond, off>>, <<print_abs_addr(pc + off)>>,
             {Lookup(ConditionNames, cond)})

i16_ld_st(i) ==
    Plain(<<Flag(i[0], 12), bf_extract(i[0], 0, 4), bf_extract(i[0], 4, 4),
            4 * bf_extract(i[0], 8, 4)>>)

\* A bug to check the properties against: the immediate form's operation has
\* a bit too many.
i16_alu_opBug(i) ==
    LET op == bf_extract(i[0], 9, 5) * 2
    IN  Line(<<Flag(i[0], 13), op, bf_extract(i[0], 0, 4)>>, << >>,
             {Lookup(ScalarNames, op)})

\* The immediate form has the even operations; its operand is printed as an
\* address.
i16_alu_op(i) ==
    LET Rd  == bf_extract(i[0], 0, 4)
        Rs  == bf_extract(i[0], 4, 4)
        u   == bf_extract(i[0], 4, 5)
        imm_mode == Flag(i[0], 13)
        op  == IF imm_mode = 1 THEN 2 * bf_extract(i[0], 9, 4)
                               ELSE bf_extract(i[0], 8, 5)
        known == {Lookup(ScalarNames, op)}
    IN  IF imm_mode = 1 THEN Line(<<1, op, Rd>>, <<print_abs_addr(u)>>, known)
                        ELSE Line(<<0, op, Rd, Rs>>, << >>, known)

-----------------------------------------------------------------------------
(***************************************************************************)
(* 32 bits.                                                                *)
(***************************************************************************)
\* The last operand is a register (mode bit 15 clear) or a number; so is the
\* one before it (bit 14), where the number is a signed four-bit one.
i32_addcmpb(i, pc) ==
    LET rd   == bf_extract(i[0], 0, 4)
        ra   == bf_extract(i[0], 4, 4)
        cond == bf_extract(i[0], 8, 4)
        mode == bf_extract(i[1], 14, 2)
        a    == IF mode % 2 = 0 THEN ra ELSE sign_extend(ra, 4)
        last == IF mode < 2 THEN bf_extract(i[1], 10, 4) ELSE bf_extract(i[1], 8, 6)
        o    == UInt(2 * IF mode < 2 THEN sign_extend(bf_extract(i[1], 0, 10), 10)
                                     ELSE sign_extend(bf_extract(i[1], 0, 8), 8))
    IN  Line(<<mode, cond, rd, a, last, o>>, <<print_abs_addr(pc + o)>>,
             {Lookup(ConditionNames, cond)})

\* A branch with link has no condition: the four bits extend the offset.
i32_b(i, pc) ==
    LET is_bl == Flag(i[0], 7)
        high  == bf_extract(i[0], 8, 4)
        low   == bf_extract(i[0], 0, 7) * 65536 + i[1]
        o     == UInt(2 * IF is_bl = 1 THEN sign_extend(high * 2^23 + low, 27)
                                       ELSE sign_extend(low, 23))
        target == <<print_abs_addr(pc + o)>>
    IN  IF is_bl = 1 THEN Line(<<1, o>>, target, {})
        ELSE Line(<<0, high, o>>, target, {Lookup(ConditionNames, high)})

\* Store or load, the size, the condition, rd, ra and what is particular: the
\* width also decides the factor shown in the indexed form.
i32_ld_st_cond_indexed(i) ==
    LET w    == bf_extract(i[0], 6, 2)
        cond == bf_extract(i[1], 7, 4)
    IN  Line(<<Flag(i[0], 5), w, cond, bf_extract(i[0], 0, 5),
               bf_extract(i[1], 11, 5), bf_extract(i[1], 0, 5)>>,
             << >>, {Lookup(ConditionNames, cond)})

i32_ld_st_pre_post(i) ==
    LET w    == bf_extract(i[0], 6, 2)
        cond == bf_extract(i[1], 7, 4)
    IN  Line(<<Flag(i[0], 5), vc4_operand_size(w), cond, bf_extract(i[0], 0, 5),
               bf_extract(i[1], 11, 5), Flag(i[0], 8)>>,
             << >>, {Lookup(ConditionNames, cond)})

i32_ld_st_disp_12(i) ==
    LET o == sign_extend(Flag(i[0], 8) * 2^11 + bf_extract(i[1], 0, 11), 12)
    IN  Plain(<<Flag(i[0], 5), vc4_operand_size(bf_extract(i[0], 6, 2)),
                bf_extract(i[0], 0, 5), bf_extract(i[1], 11, 5), o>>)

\* The base register's number is compared with the pc, not with 31.
i32_ld_st_disp_16(i, pc) ==
    LET r_idx == bf_extract(i[0], 8, 2)
        rs    == <<24, 25, 31, 0>>[r_idx + 1]
        o     == sign_extend(i[1], 16)
    IN  Line(<<Flag(i[0], 5), vc4_operand_size(bf_extract(i[0], 6, 2)),
               bf_extract(i[0], 0, 5), r_idx, o>>,
             IF rs = pc THEN <<print_abs_addr(pc + o)>> ELSE << >>, {})

\* The immediate is printed as an address.
i32_alu_op(i) ==
    LET op == bf_extract(i[0], 5, 5)
    IN  Line(<<op, bf_extract(i[0], 0, 5)>>,
             <<print_abs_addr(sign_extend(i[1], 16))>>, {Lookup(ScalarNames, op)})

\* A bug to check the properties against: the immediate one bit too narrow.
i32_alu_addBug(i) ==
    LET k == sign_extend(i[1], 15)
    IN  Plain(<<bf_extract(i[0], 0, 5), bf_extract(i[0], 5, 5), k>>)

\* r24 holds the start of the data.
i32_alu_add(i) ==
    LET rs == bf_extract(i[0], 5, 5)
        k  == sign_extend(i[1], 16)
    IN  Line(<<bf_extract(i[0], 0, 5), rs, k>>,
             IF rs = 24 THEN <<print_abs_addr(DataStart + k)>> ELSE << >>, {})

i32_alu_add_pc(i, pc) ==
    LET k == sign_extend(i[1], 16)
    IN  Line(<<bf_extract(i[0], 0, 5), k>>, <<print_abs_addr(pc + k)>>, {})

\* The six-bit immediate is extended as if it had 16 bits: it stays as it is.
\* mov shows no first operand and cmp (operation 10) no destination.
i32_alu_cond(i) ==
    LET is_i == Flag(i[1], 6)
        last == IF is_i = 1 THEN sign_extend(bf_extract(i[1], 0, 6), 16)
                            ELSE bf_extract(i[1], 0, 5)
        cond == bf_extract(i[1], 7, 4)
        ra   == bf_extract(i[1], 11, 5)
        rd   == bf_extract(i[0], 0, 5)
        op   == bf_extract(i[0], 5, 6)
        regs == CASE op = 0 -> <<rd>> [] op = 10 -> <<ra>> [] OTHER -> <<rd, ra>>
    IN  Line(<<op, cond, is_i, last>> \o regs, << >>,
             {Lookup(ScalarNames, op), Lookup(ConditionNames, cond)})

\* Only the first three operations show their operands; the second source is
\* read as a register in the immediate form too.
i32_alu_fop(i) ==
    LET fop  == bf_extract(i[0], 5, 4)
        cond == bf_extract(i[1], 7, 4)
        regs == <<bf_extract(i[0], 0, 5), bf_extract(i[1], 11, 5), bf_extract(i[1], 0, 5)>>
    IN  Line(<<fop, cond>> \o (IF fop < 3 THEN regs ELSE << >>), << >>,
             {Lookup(FloatNames, fop), Lookup(ConditionNames, cond)})

\* i32_ftrunc, i32_floor, i32_flts, i32_fltu: immediate form and register form
\* are printed as an immediate.
FloatConversion(i) ==
    LET cond == bf_extract(i[1], 7, 4)
    IN  Line(<<cond, bf_extract(i[0], 0, 5), bf_extract(i[1], 11, 5),
               bf_extract(i[1], 0, 6)>>, << >>, {Lookup(ConditionNames, cond)})

i32_p_control(i) ==
    Plain(<<Flag(i[0], 5), bf_extract(i[0], 0, 5), bf_extract(i[1], 0, 5)>>)

-----------------------------------------------------------------------------
(***************************************************************************)
(* 48 bits: a 32-bit operand in instr[1] and instr[2].                     *)
(***************************************************************************)
Operand32(i) == Join(i[2], i[1])

\* Jumps (bit 8 clear) are shown as relative to the pc, too.
i48_b(i, pc) ==
    Line(<<Flag(i[0], 9), Flag(i[0], 8), Operand32(i)>>,
         <<print_abs_addr(pc + Operand32(i))>>, {})

i48_add_pc_rel(i, pc) ==
    Line(<<bf_extract(i[0], 0, 5), Operand32(i)>>,
         <<print_abs_addr(pc + Operand32(i))>>, {})

i48_add_ld_st(i, pc) ==
    LET o     == Join(i[2], bf_extract(i[1], 0, 11))
        is_pc == Flag(i[0], 8)
        rs    == bf_extract(i[1], 11, 5)
    IN  Line(<<Flag(i[0], 5), vc4_operand_size(bf_extract(i[0], 6, 2)),
               bf_extract(i[0], 0, 5), is_pc, IF is_pc = 1 THEN 0 ELSE rs, o>>,
             IF is_pc = 1 THEN <<print_abs_addr(pc + o)>> ELSE << >>, {})

i48_alu_op(i) ==
    LET op == bf_extract(i[0], 5, 5)
    IN  Line(<<op, bf_extract(i[0], 0, 5)>>, <<print_abs_addr(Operand32(i))>>,
             {Lookup(ScalarNames, op)})

i48_alu_add(i) ==
    LET rs == bf_extract(i[0], 5, 5)
        u  == Operand32(i)
    IN  Line(<<bf_extract(i[0], 0, 5), rs, u>>,
             <<print_abs_addr(u)>> \o
                 (IF rs = 24 THEN <<print_abs_addr(u + DataStart)>> ELSE << >>), {})

-----------------------------------------------------------------------------
(***************************************************************************)
(* Vector operands: a direction, a size, a row y and a column x.           *)
(***************************************************************************)
NoNumber == -1          \* no lane register, no operation
Dash == <<"-">>         \* an unused operand

\* offs[], and what lies after its seven elements.
ColumnOffset(k) == IF k \in 0..6 THEN <<0, 16, 32, 48, 0, 32, 0>>[k + 1] ELSE PcModulus - 1

\* A bug to check the properties against: prefix 0b1110 is let through.
UnusedBug(prefix) == prefix > 14

\* The prefixes of an operand that is not there.
Unused(prefix) == prefix >= 14

\* The prefix says the direction (bit 0), the size (bits 2 and 3) and the
\* column to start at (bits 1 to 3).
i80_arg_to_str(arg, ra_x) ==
    LET prefix == bf_extract(arg, 6, 4)
        y == IF ra_x # NoNumber \/ prefix % 2 = 1
             THEN bf_extract(arg, 0, 6) ELSE 16 * bf_extract(arg, 4, 2)
        x == ColumnOffset(prefix \div 2) +
             (IF ra_x = NoNumber THEN bf_extract(arg, 0, 4) ELSE ra_x)
        char1 == IF prefix % 2 = 1 THEN "V" ELSE "H"
        char2 == CASE prefix < 8 -> "" [] prefix >= 12 -> "Y" [] OTHER -> "X"
    IN  IF Unused(prefix) THEN Dash ELSE <<char1, char2, y, x>>

Register(n)  == <<"r", n>>
Immediate(n) == <<"#", n>>

\* Bits 22..31 and 12..21 of (instr[1] << 16) | instr[2], d and a.
ArgD(i) == bf_extract(i[1], 6, 10)
ArgA(i) == bf_extract(i[1], 0, 6) * 16 + bf_extract(i[2], 12, 4)

\* The third operand: (rb) when bits 7..10 are 0111; otherwise bit 10 chooses
\* between b and a number.  b is a local variable that nothing has set.
i48_data_vop(i, b) ==
    LET vop == bf_extract(i[0], 3, 6)
        rb  == bf_extract(i[2], 0, 6)
        third == CASE bf_extract(i[2], 7, 4) = 7 -> Register(rb)
                   [] Flag(i[2], 10) = 0 -> i80_arg_to_str(b, NoNumber)
                   [] OTHER -> Immediate(rb)
    IN  Line(<<vop, Flag(i[0], 9), i80_arg_to_str(ArgD(i), NoNumber),
               i80_arg_to_str(ArgA(i), NoNumber), third>>,
             << >>, {Lookup(VectorNames, vop)})

\* A table access: prefix 1110 of d; an address in a register; or d alone.
i80_mem_op(i) ==
    LET mop  == bf_extract(i[0], 5, 5)
        rep  == bf_extract(i[0], 0, 3)
        ra_x == bf_extract(i[3], 0, 4)
        imm  == (bf_extract(i[4], 6, 7) * 4 + bf_extract(i[4], 0, 2)) * 128
                    + bf_extract(i[2], 0, 7)
        head == <<mop, 2 * bf_extract(i[0], 3, 2), rep>>
        ops  == CASE bf_extract(i[1], 12, 4) = 14 ->
                       << <<IF bf_extract(i[2], 7, 4) = 7 THEN "+" ELSE "0">>,
                          i80_arg_to_str(ArgA(i), ra_x), Immediate(imm),
                          Register(bf_extract(i[4], 2, 4)),
                          Register(bf_extract(i[1], 6, 6)) >>
                  [] bf_extract(i[1], 8, 4) # 0 -> << <<"1">> >>
                  [] OTHER -> << <<IF Flag(i[2], 10) = 0 THEN "2" ELSE "3">>,
                                 i80_arg_to_str(ArgD(i), NoNumber) >>
    IN  Line(head \o ops, << >>,
             {Lookup(MemOpNames, mop), Lookup(RepeatNames, rep)})

\* The immediate: bits 6..9 of k and 0..3 of j overlap, and are or-ed.
KOrJ(k, j) ==
    LET both == {n \in 0..3 : Flag(k, n + 6) = 1 /\ Flag(j, n) = 1}
    IN  k + j * 64 - MapThenSumSet(LAMBDA n : 2^(n + 6), both)

\* A bug to check the properties against: one more operation gets through.
HasNameBug(vop) == vop <= 49

\* The test of the operation before the table is used; it lets 48 through.
HasName(vop) == vop <= 48

\* Operations without a name are printed as <VOPSTR>.
i80_data_op(i) ==
    LET vop == bf_extract(i[0], 3, 6)
        rep == bf_extract(i[0], 0, 3)
        p   == bf_extract(i[4], 13, 3)
        b   == bf_extract(i[2], 0, 10)
        last == IF Flag(i[2], 10) = 1
                THEN Immediate(KOrJ(b, bf_extract(i[4], 0, 6)))
                ELSE i80_arg_to_str(b, NoNumber)
    IN  Line(<<IF HasName(vop) THEN vop ELSE NoNumber, bf_extract(i[4], 6, 7), p, rep,
               i80_arg_to_str(ArgD(i), NoNumber),
               i80_arg_to_str(ArgA(i), bf_extract(i[3], 0, 4)), last>>,
             << >>,
             {Lookup(PredicateNames, p), Lookup(RepeatNames, rep)} \cup
                 (IF HasName(vop) THEN {Lookup(VectorNames, vop)} ELSE {}))

-----------------------------------------------------------------------------
\* decoded_i->print(&d, instr): the printer of an entry.  The entries left
\* over print a fixed text.
print(entry, i, pc, b) ==
    CASE entry = "i16_swi"      -> i16_swi(i)
      [] entry = "i16_b"        -> i16_b(i)
      [] entry = "i16_switch"   -> i16_switch(i)
      [] entry = "i16_version"  -> i16_version(i)
      [] entry = "i16_swi_u"    -> i16_swi_u(i)
      [] entry = "i16_ldm_stm"  -> i16_ldm_stm(i)
      [] entry = "i16_ld_st_sp" -> i16_ld_st_sp(i)
      [] entry = "i16_ldw_stw"  -> i16_ldw_stw(i)
      [] entry = "i16_add_sp"   -> i16_add_sp(i)
      [] entry = "i16_b_cond"   -> i16_b_cond(i, pc)
      [] entry = "i16_ld_st"    -> i16_ld_st(i)
      [] entry = "i16_alu_op"   -> i16_alu_op(i)
      [] entry = "i32_addcmpb"  -> i32_addcmpb(i, pc)
      [] entry = "i32_b"        -> i32_b(i, pc)
      [] entry = "i32_ld_st_cond_indexed" -> i32_ld_st_cond_indexed(i)
      [] entry = "i32_ld_st_pre_post"     -> i32_ld_st_pre_post(i)
      [] entry = "i32_ld_st_disp_12"      -> i32_ld_st_disp_12(i)
      [] entry = "i32_ld_st_disp_16"      -> i32_ld_st_disp_16(i, pc)
      [] entry = "i32_alu_op"     -> i32_alu_op(i)
      [] entry = "i32_alu_add"    -> i32_alu_add(i)
      [] entry = "i32_alu_add_pc" -> i32_alu_add_pc(i, pc)
      [] entry = "i32_alu_cond"   -> i32_alu_cond(i)
      [] entry = "i32_alu_fop"    -> i32_alu_fop(i)
      [] entry \in {"i32_ftrunc", "i32_floor", "i32_flts", "i32_fltu"} -> FloatConversion(i)
      [] entry = "i32_p_control"  -> i32_p_control(i)
      [] entry = "i48_b"          -> i48_b(i, pc)
      [] entry = "i48_add_pc_rel" -> i48_add_pc_rel(i, pc)
      [] entry = "i48_add_ld_st"  -> i48_add_ld_st(i, pc)
      [] entry = "i48_alu_op"     -> i48_alu_op(i)
      [] entry = "i48_alu_add"    -> i48_alu_add(i)
      [] entry = "i48_data_vop"   -> i48_data_vop(i, b)
      [] entry = "i80_mem_op"     -> i80_mem_op(i)
      [] entry = "i80_data_op"    -> i80_data_op(i)
      [] OTHER -> Plain(<< >>)
=============================================================================
