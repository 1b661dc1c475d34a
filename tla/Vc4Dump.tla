------------------------------ MODULE Vc4Dump ------------------------------
(***************************************************************************)
(* The disassembler's main loop, vc4_dump.c: open the binary, skip its     *)
(* first 512 bytes, then fetch an instruction halfword by halfword, show   *)
(* its address and words, decode and print it, until a call fails.         *)
(*                                                                         *)
(* Every read(), and every other step that the operating system may        *)
(* refuse, is an action of its own.  Positions are halfwords from offset   *)
(* 512: an odd last byte makes read() short, exactly as the end of the     *)
(* file does.  Whatever ends the program, it exits with status -1; that is *)
(* at = "done" (the "return 0" of vc4_dump is never reached).              *)
(***************************************************************************)
EXTENDS Vc4Decode

CONSTANTS
    Images,     \* the files: what they hold from offset 512, as halfwords
    Stale,      \* what the uninitialised array instr may hold
    BaseAddr,   \* the address shown for the first halfword, 0x8000000
    PcModulus,  \* current_pc is a uint32_t: 2^32
    Faults      \* TRUE when the operating system may refuse a call

ASSUME ImagesAssumption == Images \subseteq Seq(Halfword)
ASSUME StaleAssumption == Stale \subseteq Halfword
ASSUME PcAssumption == PcModulus \in Nat \ {0} /\ BaseAddr \in 0..(PcModulus - 1)
ASSUME FaultsAssumption == Faults \in BOOLEAN

VARIABLES
    image,       \* the file being read
    pos,         \* the file offset
    instr,       \* uint16_t instr[5]
    instr_sz,    \* the size fetched, in bytes
    current_pc,  \* d.current_pc
    at,          \* where control is
    listing      \* the rows printed

vars == <<image, pos, instr, instr_sz, current_pc, at, listing>>

-----------------------------------------------------------------------------
(***************************************************************************)
(* The three tests of fetch_next_instr on the first halfword: 2, 4, 6 or,  *)
(* when none holds, 10 bytes.                                              *)
(***************************************************************************)
\* A bug to check the properties against: the next-to-last prefix is long.
ThreeWordsBug(w) == w - (w % 1024) < \hF400

OneWord(w)    == w < \h8000
TwoWords(w)   == w <= \hE000
ThreeWords(w) == w - (w % 1024) <= \hF400

\* The halfwords the next read() of fetch_next_instr asks for.
Wanted == [fetch1 |-> 1, fetch2 |-> 1, fetch3 |-> 1, fetch4 |-> 2]
FetchPoints == {"fetch1", "fetch2", "fetch3", "fetch4"}

Available(n) == pos + n <= Len(image)

-----------------------------------------------------------------------------
Init ==
    /\ image \in Images
    /\ pos = 0
    /\ \E s \in Stale : instr = [k \in 0..4 |-> s]
    /\ instr_sz = 0
    /\ current_pc = BaseAddr
    /\ at = "main"
    /\ listing = << >>

\* main: the argument is there, stat and open succeed.
OpenImage ==
    /\ at = "main"
    /\ at' = "seek"
    /\ UNCHANGED <<image, pos, instr, instr_sz, current_pc, listing>>

\* vc4_dump: lseek(fd, 512) succeeds, and the loop begins.
Seek ==
    /\ at = "seek"
    /\ at' = "fetch1"
    /\ UNCHANGED <<image, pos, instr, instr_sz, current_pc, listing>>

\* main: no argument, or stat or open fails.
MainFails ==
    /\ Faults
    /\ at = "main"
    /\ at' = "done"
    /\ UNCHANGED <<image, pos, instr, instr_sz, current_pc, listing>>

\* vc4_dump: lseek fails.
SeekFails ==
    /\ Faults
    /\ at = "seek"
    /\ at' = "done"
    /\ UNCHANGED <<image, pos, instr, instr_sz, current_pc, listing>>

\* Control after a read: out, with the size fetched, or the next read.
Out(size) == at' = "print" /\ instr_sz' = size
More(next) == at' = next /\ UNCHANGED instr_sz

\* read(fd, i, 2)
FetchFirst ==
    /\ at = "fetch1"
    /\ Available(1)
    /\ instr' = [instr EXCEPT ![0] = image[pos + 1]]
    /\ pos' = pos + 1
    /\ IF OneWord(instr'[0]) THEN Out(2) ELSE More("fetch2")
    /\ UNCHANGED <<image, current_pc, listing>>

\* read(fd, i + 2, 2): i points to halfwords, so this fills instr[2].
FetchSecond ==
    /\ at = "fetch2"
    /\ Available(1)
    /\ instr' = [instr EXCEPT ![2] = image[pos + 1]]
    /\ pos' = pos + 1
    /\ IF TwoWords(instr[0]) THEN Out(4) ELSE More("fetch3")
    /\ UNCHANGED <<image, current_pc, listing>>

\* read(fd, i + 2, 2) again: the second halfword is overwritten.
FetchThird ==
    /\ at = "fetch3"
    /\ Available(1)
    /\ instr' = [instr EXCEPT ![2] = image[pos + 1]]
    /\ pos' = pos + 1
    /\ IF ThreeWords(instr[0]) THEN Out(6) ELSE More("fetch4")
    /\ UNCHANGED <<image, current_pc, listing>>

\* A bug to check the properties against: two of the four bytes are counted.
FetchLastBug ==
    /\ at = "fetch4"
    /\ Available(2)
    /\ instr' = [instr EXCEPT ![3] = image[pos + 1], ![4] = image[pos + 2]]
    /\ pos' = pos + 2
    /\ Out(8)
    /\ UNCHANGED <<image, current_pc, listing>>

\* read(fd, i + 3, 4)
FetchLast ==
    /\ at = "fetch4"
    /\ Available(2)
    /\ instr' = [instr EXCEPT ![3] = image[pos + 1], ![4] = image[pos + 2]]
    /\ pos' = pos + 2
    /\ Out(10)
    /\ UNCHANGED <<image, current_pc, listing>>

\* A bug to check the properties against: a failed fetch is tried again.
FetchFailsBug ==
    /\ at \in FetchPoints
    /\ Faults \/ ~Available(Wanted[at])
    /\ UNCHANGED vars

\* A read is short or fails, vc4_dump gives up and main returns.  (What a
\* short read left in instr is not looked at again.)
FetchFails ==
    /\ at \in FetchPoints
    /\ Faults \/ ~Available(Wanted[at])
    /\ at' = "done"
    /\ UNCHANGED <<image, pos, instr, instr_sz, current_pc, listing>>

\* What the row of the loop's current instruction shows: dump_bytecode's
\* address and words, and the entry that prints it.  start is the offset of
\* the instruction in the file, which the program does not keep.
Row ==
    [start |-> pos - instr_sz \div 2,
     addr  |-> current_pc,
     size  |-> instr_sz,
     words |-> [n \in 0..(instr_sz \div 2 - 1) |-> instr[n]],
     entry |-> vc4_decode_instr(instr)]

\* A bug to check the properties against: the address counts halfwords.
PrintRowBug ==
    /\ at = "print"
    /\ listing' = Append(listing, Row)
    /\ current_pc' = (current_pc + instr_sz \div 2) % PcModulus
    /\ at' = "fetch1"
    /\ UNCHANGED <<image, pos, instr, instr_sz>>

\* A bug to check the properties against: a wider type for current_pc.
PrintRowWideBug ==
    /\ at = "print"
    /\ listing' = Append(listing, Row)
    /\ current_pc' = current_pc + instr_sz
    /\ at' = "fetch1"
    /\ UNCHANGED <<image, pos, instr, instr_sz>>

\* dump_bytecode, vc4_decode_instr, print, current_pc += instr_sz.
PrintRow ==
    /\ at = "print"
    /\ listing' = Append(listing, Row)
    /\ current_pc' = (current_pc + instr_sz) % PcModulus
    /\ at' = "fetch1"
    /\ UNCHANGED <<image, pos, instr, instr_sz>>

\* The process has exited.
Exited == at = "done" /\ UNCHANGED vars

Next ==
    \/ OpenImage \/ MainFails \/ Seek \/ SeekFails
    \/ FetchFirst \/ FetchSecond \/ FetchThird \/ FetchLast \/ FetchFails
    \/ PrintRow
    \/ Exited

\* One thread that never waits for another: it keeps being scheduled.
Spec == Init /\ [][Next]_vars /\ WF_vars(Next)

-----------------------------------------------------------------------------
(***************************************************************************)
(* What the listing must be, whatever the file.                            *)
(***************************************************************************)
Rows == {listing[n] : n \in 1..Len(listing)}

\* The file's halfword at place n of a row.
Original(row, n) == image[row.start + n + 1]

\* Types, and the control points of vc4_dump.c.
RowType ==
    [start : Nat, addr : 0..(PcModulus - 1), size : {2, 4, 6, 10},
     words : [0..0 -> Halfword] \cup [0..1 -> Halfword] \cup
             [0..2 -> Halfword] \cup [0..4 -> Halfword],
     entry : Entries]

TypeOK ==
    /\ image \in Seq(Halfword)
    /\ pos \in 0..Len(image)
    /\ instr \in [0..4 -> Halfword]
    /\ instr_sz \in {0, 2, 4, 6, 10}
    /\ current_pc \in 0..(PcModulus - 1)
    /\ at \in {"main", "seek", "print", "done"} \cup FetchPoints
    /\ listing \in Seq(RowType)

\* The number of halfwords of the instruction that a first word starts, as
\* the decoder sees it; only the word 0xe000 is fetched short of it.
InstructionLength(w) == IF w = \hE000 THEN 2 ELSE DecodedSize(w) \div 2

RowEnd(row) == row.start + row.size \div 2

\* Where the instruction being fetched starts: the end of the last row.
Cursor == IF listing = << >> THEN 0 ELSE RowEnd(listing[Len(listing)])

\* What fetch_next_instr has read of the instruction that starts at Cursor,
\* at each of its reads and when it returns: how much, and where it put it.
FetchedUpTo(n) ==
    /\ pos = Cursor + n
    /\ instr[0] = image[Cursor + 1]
    /\ n >= 3 => instr[2] = image[Cursor + 3]
    /\ n >= 5 => instr[3] = image[Cursor + 4] /\ instr[4] = image[Cursor + 5]

\* The loop keeps its place: at every control point the file offset, the
\* instruction's words and current_pc belong to the instruction that starts
\* where the last row ended (vc4_dump.c:10-46, 84-109).
KeepsItsPlace ==
    /\ at \in {"main", "seek", "fetch1"} => pos = Cursor
    /\ at \in {"main", "seek"} => listing = << >>
    /\ at = "fetch2" => FetchedUpTo(1) /\ ~OneWord(instr[0])
    /\ at = "fetch3" => FetchedUpTo(2) /\ ~TwoWords(instr[0])
    /\ at = "fetch4" => FetchedUpTo(3) /\ ~ThreeWords(instr[0])
    /\ at = "print"  => /\ FetchedUpTo(instr_sz \div 2)
                        /\ instr_sz = 2 * InstructionLength(instr[0])
    /\ current_pc = (BaseAddr + 2 * Cursor) % PcModulus

\* The address a row shows is where its first byte is, counted from the base
\* address modulo 2^32: current_pc, which adds up instr_sz, never drifts from
\* the file offset, which adds up what the reads returned (vc4_dump.c:107).
RowAddresses ==
    \A row \in Rows : row.addr = (BaseAddr + 2 * row.start) % PcModulus

\* Every word a row shows is the file's word at that place, except the second
\* one of an instruction of several words: instr is never cleared, and what
\* an earlier, longer instruction left in it is never shown again
\* (vc4_dump.c:53-58).
ShownWords ==
    \A row \in Rows : \A n \in DOMAIN row.words :
        n # 1 => row.words[n] = Original(row, n)

\* What the second word holds does not change how 16-, 48- and 80-bit
\* instructions are decoded: the row is printed by the entry that the words
\* of the file select (vc4_decode.c:222-241 reads instr[1] and instr[2]).
EntryOfWords ==
    \A row \in Rows :
        DecodedSize(row.words[0]) # 4 =>
            row.entry = vc4_decode_instr(
                            [n \in 0..4 |-> IF n < row.size \div 2
                                                THEN Original(row, n) ELSE 0])

\* The program lists the file as a linear sweep does: fetch and decoder,
\* which derive the length independently, agree on it.
Sweep == INSTANCE LinearSweep WITH
    Length    <- InstructionLength,
    EarlyStop <- Faults,
    image     <- image,
    cursor    <- Cursor,
    rows      <- [n \in 1..Len(listing) |->
                     [start  |-> listing[n].start,
                      length |-> listing[n].size \div 2]],
    closed    <- at = "done"

\* Rows tile the file from its start, each as long as its first word says,
\* and the program goes on until the rest holds no whole instruction (or a
\* call is refused): vc4_dump.c:84-109 does what LinearSweep promises.
SweepsTheFile == Sweep!Spec

\* The "while (1)" of vc4_dump ends for every file: each round consumes input.
Terminates == <>(at = "done")

-----------------------------------------------------------------------------
(***************************************************************************)
(* What the sources say of the listing and the program does not do.        *)
(***************************************************************************)
\* The second word of an instruction is the file's: the printers' comments
\* (vc4_instructions.c:966, 856) lay the operands out from instr[1] on.
SecondWordShown ==
    \A row \in Rows :
        row.size > 2 => row.words[1] = Original(row, 1)

\* The comment at vc4_instructions.c:830 gives the prefix 1111 00 to the
\* 48-bit memory operations, which vc4_instructions.h:60 declares.
MemOp48Decoded ==
    \A row \in Rows :
        row.words[0] \in \hF000..\hF3FF => row.entry = "i48_mem_op"

\* What a 48-bit entry prints was fetched as 48 bits (vc4_decode.c:194 gives
\* every word from 0xe000 to 0xe3ff to i48_b, vc4_instructions.h:54).
Fetched48 ==
    \A row \in Rows : row.entry = "i48_b" => row.size = 6
=============================================================================
