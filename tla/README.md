# A formal model of the VideoCore IV bytecode dumper

`vc4dump` reads a VideoCore IV binary, takes its instructions apart one after
the other and prints a row for each.  A symbol table, loaded through a small
line reader, can name addresses in the listing.  This directory holds TLA+
modules of that program, the TLC configurations that check them, and proofs
that TLAPS checks.

## Inventory

| Part (source) | State | Operations | Interacts with |
|---|---|---|---|
| Main loop (`vc4_dump.c`) | file offset, `instr[5]`, `instr_sz`, `d.current_pc` | `main`, `vc4_dump`, `fetch_next_instr`, `dump_bytecode` | reads the file; hands `instr` to the decoder and the entry it returns |
| Decoder (`vc4_decode.c`, `bitfield.h`) | none | `vc4_decode_instr` and one chain of tests per length | called by the main loop; names a printer |
| Printers (`vc4_instructions.c`) | none of their own; one uses a local variable it never sets | one `vc4_i_print_*` per entry, `print_abs_addr`, `sign_extend`, `i80_arg_to_str` | read `instr` and `current_pc`, index the tables of names, ask the symbol table |
| Operation tables (`vc4_scalar_op*.c`, `vc4_float_op.h`) | constant tables | names and printers by index | indexed by the printers with instruction fields |
| Line reader (`filereader.c`) | cache `buf/off/off2/eof`, a chunk, the line being filled | `filereader_open`, `filereader_read`, `linefiller_fill`, `filereader_iterate_lines` | calls back per line; the callback may stop it |
| Symbol table (`symbol_table.c`) | `data`, `num_elements`, `max_elements` | `symbol_table_init`, `_add`, `_find_*`, line parsing | is the line reader's callback; queried by the printers |
| Table generator (`vc4_scalar_op_gen.py`) | two generated files | removes, opens and writes the header, then the source | run by hand; its files are compiled into different objects |
| Build (`Makefile`) | `build/`, the objects and `vc4dump`, and which is newer | `all`, `build/%.o`, the link, `clean` | compiles what the generator wrote |

The program has one thread, persists nothing and talks to nothing but the file
system.  What is hard in it:

* two accounts of the same thing that have to agree: the length by which an
  instruction is fetched and the one by which it is decoded; the file offset
  and `current_pc`;
* reused and uninitialised memory (`instr`, `linefiller_fill`'s `ret`);
* seams: a line over several chunks, a chunk over two refills, the end of the
  file anywhere in an instruction or a line;
* calls that fail, or come short, between any two steps; a generator and a build that
  may be stopped between any two steps and started again;
* the same fields written down twice, by mask in the decoder and by position and width
  in a printer;
* limits: the 128-byte line, the growing table, table sizes and field widths.

What makes each part correct: the main loop's rows tile the file, show the
right addresses and words and use the entry the file's words select; the line
reader gives each line once, unchanged and in order; the symbol table keeps what
was added, at any size; the printers stay within their tables, show the targets
the words say and lose no bit that the masks leave open; the numbers of the scalar
operations, compiled into one object, find their names in another.

## Modules

| Module | What it is |
|---|---|
| `Vc4Decode` | the decoder: each chain of `if ((i & mask) == value)` is a sequence of rules, the first that matches answers |
| `Vc4Dump` | the main loop as a state machine, and its properties |
| `LinearSweep` | the abstract specification of a linear-sweep disassembler |
| `Vc4DumpProofs` | theorems about `Vc4Dump` |
| `MCVc4Dump` | the finite instances of `Vc4Dump` that TLC checks |
| `FileReader` | the line reader as a state machine, and its properties |
| `LineSource` | the abstract specification of iterating over lines |
| `MCFileReader` | the finite instances of `FileReader` |
| `SymbolTable` | the growing table on a heap, and its properties |
| `SymbolList` | the abstract specification of an append-only table |
| `SymbolTableProofs` | theorems about `SymbolTable` |
| `SymbolLine` | the parser of one line, and how a symbol is written |
| `SymbolLoad` | `symbol_table_init`: composes `FileReader`, `SymbolLine` and `SymbolTable` |
| `MCSymbolLoad` | the finite instances of `SymbolLoad` |
| `SymbolLineProofs` | what the parser makes of a line that a symbol was written as |
| `SymbolLoadProofs` | theorems about `SymbolLoad` |
| `FileReaderProofs` | theorems about `FileReader` |
| `Vc4Operands` | the printers: one operator each, from words and `current_pc` to what the line says |
| `Vc4Listing` | the whole dump: composes `Vc4Dump` with the printers; its properties are about the lines |
| `MCVc4Listing` | the finite instance of `Vc4Listing` |
| `Vc4DecodeProofs` | lemmas about the decoder and modular arithmetic that the next one and `Vc4DumpProofs` share |
| `Vc4ListingProofs` | theorems about `Vc4Listing` |
| `ScalarOpTables` | the generator and the build, interrupted and repeated, and its properties |
| `MCScalarOpTables` | its finite instance |
| `ScalarOpTablesProofs` | theorems about `ScalarOpTables` |

### The main loop

`image` is the file from offset 512 as halfwords, `pos` the file offset,
`instr`, `instr_sz` and `current_pc` the C variables, `at` the place of control,
`listing` the rows printed.  `OpenImage`, `Seek` and the four `Fetch...` actions
are the calls that may fail; `MainFails`, `SeekFails` and `FetchFails` are their failures.
What follows a successful read up to the next one (the test of the first word,
the size) belongs to the read's action.  `PrintRow` is the loop's body after the
fetch: show, decode, print, advance `current_pc`; nothing else runs in between.
`Exited` is the process after its return, so that deadlock is checked.

`instr` starts with an arbitrary value of `Stale` in every cell (it is an
uninitialised array).  The second and the third `read` store into `instr[2]`, as
in the code, where `i + 2` counts halfwords.  An odd last byte makes a read
short exactly as the end of the file does; positions are therefore counted in
halfwords.  Every exit returns -1, which is why `at = "done"` carries no status.
A row also records where its instruction starts, which the program does not
keep and only the properties use.

### The line reader

`cached` is `buf[off..off2)`, `chunk` what `filereader_read` has copied, `next`
how far `linefiller_fill` is in it, `line` the text between `line` and `line_w`,
`fill_ret` its `ret` (`Unset` until a newline is met), `delivered` the lines the
callback got.  One action is one iteration of a loop.  Undefined results are
modelled by what may come of them: an unset `ret` is taken for one of `UnsetReads`,
and a write past the line buffer ends the model in `at = "overrun"`.  With `Faults`,
`open` and `read` may fail and `read` may return less than there is.  The code
after "Unexpected error while iterating" and the `abort` before it are never
reached: `filereader_read` returns a short chunk only after `eof`.  The check for
a NULL reader has no caller that could fail it.

### The symbol table

`heap` maps the blocks in use to their cells; `data`, `num_elements` and
`max_elements` are the fields of `struct symbol_table`, `found` the pointer the
last lookup returned, with the symbol it pointed to then.  `Create` is
`symbol_table_init` up to the reading of the file, `Add` and `AddGrowing` the two
ways through `symbol_table_add`, `GrowthFails` the refused `malloc` in it; `malloc` may return any block that is not in
use, one that was freed before included.  `max_elements *= 1.6` is done in double and truncated, which for
any size a table can have is `(8 * n) \div 5`.  A read or a store where there is
no cell ends the model in `"fault"`: by the walk of a lookup or of
`symbol_table_printout` (`WalkFaults`), or in `Add`.  `symbol_table_add_simple` is
`AddSymbol` for a name that fits its field and `AddSimpleOverruns` for one that
does not.  Of a symbol's fields the model keeps the name and the address, which
lookups compare; the others are copied along.  `MaxSymbols` bounds additions in
the model only.

### Loading symbols

`SymbolLine` reads a line from left to right as `symbol_table_parse_line` does, one
operator for each part of the function; each returns the place it came to, the
symbol so far and a verdict.  Lines that make the code abort or read past their
end have verdicts of their own.  `Describable` is the set of symbols
that the format can say within the lengths of the fields, and `Texts` the lines each may be
written as, with or without the middle fields: what the parser is compared with.  `Written`,
the symbols the files were written from, is any part of `Describable`.

`SymbolLoad` holds the variables of the reader and of the table and instantiates both.
`ReadOn` is any step of the reader but its callback; the callback step is joined with
what `filereader_iter_symbol_lines` does with the line: `AddLine`, `AddLineFails`
(memory refused) and `BadLine` (-1 from the parser), of which the last two set
`ctx_err` and answer STOP; `LineEndsProgram` is an abort.  `symbol_table_init` returns what the
reader returned, so its result is `at`; `exit` is set where it ends otherwise: no
memory for the first array, no path (the reader is then used uninitialised), an
abort.  `LookUp` is `print_abs_addr` afterwards.

### The printers and the listing

A printer in `Vc4Operands` yields a `Line`: the numbers in the order of the text
(`ops`), the addresses shown (`addrs`), and whether every lookup in a table of names
stayed in it (`defined`).  A name from a table is its index, wording and number formats
are left out.  Printers that differ in wording only are one operator; where a format
omits something (a dash, a default), the line has `Dash` or `NoNumber` in its
place, so that two lines are equal only if the texts are.  `UInt` is reduction modulo
`PcModulus`, and `sign_extend` adds the complement as the C function does.  Fields
are taken as the code takes them, also where that looks wrong: see Findings.

`Vc4Listing` instantiates `Vc4Dump` on its own variables and adds `lines`, one for each
row.  `PrintLine` is `PrintRow` joined with the entry's printer, which runs before
`current_pc` advances; `b` of `i48_data_vop`, never set, is any value of
`Unset`.  A lookup past the end of a table either yields some text (a line that is not
`defined`) or ends the process (`Crash`).  Stale words are inputs here: `instr[1]`
is never written, so what a printer sees as second word is any value of `Stale`.

### The operation tables and the build

`ScalarOpTables` follows the numbers of the scalar operations from
`vc4_scalar_op.in` to the program.  A text is the sequence of names it lists, `None`
(no file) or `Broken` (a table that ends in the middle, which no compiler accepts).
`RemoveFile`, `OpenFile` and `WriteFile` are `os.remove`, `open` and the writes of the
generator; `StopGenerator` stops it anywhere, with part of its buffer on disk
or not.  `Compile` is the rule `build/%.o` with make's own test of dates (`Needed`),
`Link` the rule for `vc4dump`, `StopMake` and `MakeFails` its two ways to end early.  A
compilation and the link are one step each: gcc and ld remove an output they did not finish
when they fail, so an object or a program is the old one, the new one or none.
Of the objects the model has the two that meet in the numbers: `"table"` holds names by
number, `"uses"` the numbers of the operations that `vc4_instructions.c` names.
Time is the two flags `upToDate` and `linked`.  The program's other objects come and go as
these two do.

## Runs

| Run | Instance | What it shows |
|---|---|---|
| `dump_clean` | all files up to 5 words over one word of each length and 0xe000, up to 4 over the words at every limit between lengths, up to 7 over three lengths; two stale values; addresses modulo 12 from 4 | the tiling, addresses (wrapping within two or three rows), words and entries |
| `dump_faults` | files up to 4 words, and up to 6 words of 16- and 80-bit instructions, every call may fail | the tiling up to the failure; termination |
| `reader_clean` | all files up to 6 characters over two letters and newline, cache 4, chunk 2, line buffer 4 | order and integrity of the lines, completeness when success is reported, overrun only by a long line, STOP final, termination; an unset `ret` reads as CONTINUE |
| `reader_faults` | files up to 9 characters over one letter and newline, cache 3, chunk 2, failing and short reads | order and integrity across chunks that straddle refills; what success may leave behind, and when; termination; an unset `ret` reads as either answer |
| `table_grow` | two names and two addresses, an array of 3 that grows to 4 and 6, five symbols, three blocks, a refused growth at any time | growth keeps symbols, places and what lookups returned; the array is never left; what a refused growth leads to |
| `load` | files of up to two lines out of five written from four symbols and twelve odd ones, of up to five good lines, and of up to five lines any of which may be refused, whose chunks may be full and without a newline; with and without a last newline; cache 16 and chunk 8 as in the code, line buffer 16, names and specs of two characters, array of 3; a refused growth at any time, short and failing reads, an unset `ret` reads as either answer | what was written is what is in the table; completeness unless `ctx_err` or the reader stopped short; what a swallowed error leads to |
| `listing` | 16-bit branches with every offset, and with every condition; `i32_b` in every condition and form, both words of its offset at their ends; branches after a row of each length; the 48-bit forms relative to the pc at both ends of their masks, seven offsets each; pairs of instructions that differ in one bit, at both ends of each scalar rule, and second words with one bit set; vector and memory operations with every operation, and some of them with every operand prefix; calls may fail | targets, texts that tell instructions and second words apart, table lookups, register file |
| `optables` | three lists of operations, two of them in use, one with a new operation before the second; generator and make stopped anywhere, any number of times | what an interrupted run leaves, what a repeated one repairs, what make can build from it |
| `optables_clone` | the same instance | a counterexample, see Findings |
| `dump_second_word`, `dump_mem_op48`, `dump_fetched48` | the small instances | counterexamples, see Findings |

The bounds.  The loop's behaviour depends on the lengths of the instructions that
follow each other and on where the file ends in them; files of up to seven words
contain every pair of lengths and every cut, and the `Limits` words every outcome
of each test on both sides.  The address modulus 12 makes every row sequence of
more than eight bytes wrap.  In the reader the cache is twice the chunk, as in the code
(16 and 8), so files of six characters need two refills, an empty last read and
lines over up to three chunks; a line buffer of 4 is overrun by files of 5.  The
table starts with 3 cells, the least for which the trace of line 81 stays in the array, and
grows twice, so that the second growth can get the first block again.

TLC counts in 32 bits, so `listing` uses a `PcModulus` of 2^29: larger than any offset
of a branch of 16 or 32 bits, and a divisor of 2^32 (`TurnsAssumption`), so that what is right
modulo 2^32 stays right.  It is why the 48-bit operands, which
are joined from two words, are compared only in the bits that 29 leave.  The
proofs have no such bound, and compare them in all 32.  The base address 24 puts negative targets below
zero and offsets at the ends of each width on both sides.  In `optables` nothing is bounded: the
state space is finite, and the lists are enough to move an operation in use up, down, or not at all.

`UnsetReads`.  In a `gcc -g` build, as the Makefile makes it, the stack slot of
`ret` is the one in which `filereader_read` left the bytes still to copy, zero
after a full chunk, so the caller takes an unset answer for CONTINUE: that is
`reader_clean`.  Nothing in the source makes it so; `reader_faults` and `load` allow both, and
there `SuccessIsComplete` says what is left of the promise: only a short read, or a full chunk
without a newline, may end the iteration early.

Fairness.  `Vc4Listing` and `ScalarOpTables` state none: a build may stop forever.
`WF_vars(Next)` in `Vc4Dump` and `FileReader`: one thread that waits for nobody, so a step
that can be taken eventually is.  For the reader this includes that the callback
returns.

Deadlock is checked in every run.  The operators whose names end in `Bug` are
wrong versions of the definitions after them; every property of a passing run is
violated when one of them takes the place of its original.

## Proofs

`Vc4DumpProofs` proves for every set of files, every stale value, base address and
modulus, with and without faults:

* `TypeCorrect`, `PlaceKept`, `AddressesRight`, `WordsRight`: the invariants
  `TypeOK`, `KeepsItsPlace`, `RowAddresses`, `ShownWords`;
* `EntriesRight`: the invariant `EntryOfWords`;
* `Sweeps`: `Vc4Dump` implements `LinearSweep`.

Assumed: the files hold halfwords, `BaseAddr` is less than the modulus.  The
argument: `IInv` is the conjunction of the first four invariants.  None of the
row properties is inductive alone: that the row about to be printed shows the
right address and words follows from `KeepsItsPlace`, which says, at each control
point, how far into the instruction after the last row the file offset is, what
is in `instr` and which tests the first word failed; and `TypeOK` needs it to
know that a row starts at a natural number.  The modular sum in `PrintRow` rests
on `ModAdd`.  `FetchAgreesWithDecode` shows for all 65536 first words that
the three tests of the fetch give the decoder's length, except for 0xe000.
The step simulation `SweepNext` maps `PrintRow` to `ListRow`, the failing call to
`Close` (a failing read without faults means fewer words are left than the
instruction needs) and the rest to stuttering.  `EntryOfWords` holds because the
rules of the 16-, 48- and 80-bit chains do not test the second halfword
(`FirstWordChains`, `DecodeByFirstWord`).

`SymbolTableProofs` proves for every initial size from 3 on, every bound on the
symbols and every choice of blocks:

* `TypeCorrect`, `FieldsCorrect`, `NoFaultWithArray`, `FoundIsGood`:
  the invariants `TypeOK`, `FieldsAgree` (with no block left behind by a growth),
  `FaultOnlyWithoutArray`, `FoundStays`;
* `Implements`: `SymbolTable` implements `SymbolList`.

Assumed: `NULL` is no block, an unwritten cell is no symbol.  Two strengthenings
make the invariants inductive.  `FoundStays` speaks of pointers into the current
array, but a block may leave the table and come back; `FoundInTable` says more, that a
symbol once found is at the same index of whatever array the table has.
`Stages` ties the fields to the life of the table: a refused growth leaves
`num_elements < max_elements` with no array, so the next addition takes the branch
that stores.  `GrownIsLarger` is the arithmetic: 1.6 times the size makes room
from two cells on.

`FileReaderProofs` proves for every file, every cache, chunk and line length, with and
without failing or short reads:

* `TypeCorrect`, `BytesConserved`, `OverrunsAreLongLines`: the invariants `TypeOK`,
  `Conserved`, `OverrunOnlyByLongLine`;
* `StopEnds`: the action property `StopIsFinal`;
* `ReaderGivesLines`: `FileReader` implements `LineSource`;
* `SuccessGivesAll`: the invariant `SuccessIsComplete`, which names the two ways in which success
  may leave lines behind.

Assumed: the sizes are not zero, `NL` is a character.  `IInv` is `TypeOK`, `Conserved`,
and two facts: the line being filled starts at a natural number (`LineStart`), and where
it overran, the buffer was full (`OverrunFull`).  `Conserved` says that there are newlines which
cut what was read of the file into the delivered lines, all of them and in this order, and a
rest, which is the unfinished line, the rest of the chunk and the cache.  A callback adds the
next newline to them, and what it delivers is the stretch of the file between the last newline and
this one, which is what `LineSource` asks for.

`Vc4ListingProofs` proves for every file of halfwords, every stale second word, every unset
`b`, every base address and the 32-bit modulus (any divisor of 2^32 from 2^28 on):

* `TypeCorrect`, `TargetsRight`, `NamesFound`, `OperandsRight`: the invariants `TypeOK`,
  `TargetsRelative`, `NamesWithinTables`, `InRegisterFile`
  (`TargetsRelative` covers every form relative to the pc but two: the branch 0xe000, of which the
  fetch leaves out a word, and `i32_ld_st_disp_16`, see Findings);
* `TextsTellApart`, `SecondWordsTold`: the invariants `TellsApart` and `SecondWordTold`, for a
  modulus of 2^32, what a `uint32_t` has: the 48-bit operands need all of it.

`IInv` is `Place /\ RowsGood /\ CrashKnown`.  `Place` ties `current_pc` to the file offset at
each control point, and says that the first word of an instruction longer than 16 bits is not
below 0x8000; `RowsGood` says of each row and its line what the theorems say.  The
argument: `ChainsRanged` and `EntryWords` give, for the entries whose fields matter, the range of the first
word; `SignExtension` shows that the C expression is the two's complement of the
field, and `ModShift` that adding it to the reduced `current_pc` is adding it to the
true address; `AlwaysDefined` shows that most printers with lookups cannot leave their tables,
`DefinedButNameless` that the other four do so only for the words of
`NamelessWords`; `OperandInside` is about `i80_arg_to_str`.  The early return of `i80_arg_to_str` is what keeps
`offs[7]` from being read.

The last two theorems are about the printers.  `EntrySays` turns the answer of the decoder into
what the rule said of the words (`LosslessWords`).  For each printer of a `Lossless` entry there
is a lemma (`Told_i16_swi` and so on): a word in the rule's range is the sum of its fields at their
places, so the positions and widths of the printer and the open bits of the mask partition it,
and equal texts have equal fields.  `SignKept` and `JoinKept` say that sign extension, the factor 2 or 4
and the reduction to 32 bits lose nothing of a field; `i32_addcmpb`, `i32_b` and `i16_alu_op`, whose
fields depend on a flag, are split by it, and the flag is in the text.
`ToldInv` carries this to the listing: `SizeFetched` says what the tests on the first word have
answered by each read, `RowsTold` that every row shows all that was fetched and its
line is what the entry's printer made of it, at the row's own address (`RowAddress`).  From
`ToldInv` follow `TypeCorrect`, since each printer's numbers are fields, sums reduced to 32 bits or
joined halves (`PrintShowsNumbers`), and the 48-bit part of `TargetsRight`: there the upper half of the
offset is joined without its sign, and `JoinedAddress` shows that the sign is a number of whole turns
of the 32-bit circle.

`ScalarOpTablesProofs` proves for every set of lists without repetition that hold the
operations in use:

* `TypeCorrect`, `RunsRepair`, `NeverHalfBuilt`, `MakeRecovers`, `NumbersOnly`: the
  invariants `TypeOK`, `RerunRepairs`, `NothingHalfBuilt`, `BuildRecovers`,
  `OnlyNumbersAreStale`.

The strengthening: the header is a beginning of some list (`HeaderBegins`), so numbers
taken from it are those of a list; objects are compiled from what is on disk or older
(`ObjectsFollow`, `SourceFollows`); make links after it compiled (`MakeOrder`), and never
while the generator runs (`OneAtATime`); there is no object without `build/` (`ObjectsInDir`); `Built`
says what a linked program holds.

`SymbolLineProofs` proves `ReadsBack`: whatever symbol of `Describable` a line was written
from, in whichever of its `Texts`, the parser accepts the line and yields that symbol.
The lemmas take the line from left to right.  `Rest(line, p, u)` says that from place `p` on the
line reads `u`; for each field there is a lemma that, when the rest begins with what `TextOf` writes for
that field, the operator moves to the place behind it with the field set (`AddressRead`,
`TypeRead`, `SizeRead`, `CountRead`, `SeparatorRead`, `NameRead`), and one for an absent field.
Where `strchr` looks for a bracket or a colon, `FirstPlace` says that the first one is the
one written.  A number is one digit, as in `TextOf`, so `FoldOne` is all that is needed of the fold
in `Number`; numbers of several digits would take an induction that the provers cannot do.
Assumed: `ULongMax`, `NameCap` and `SpecCap` are natural numbers.

`SymbolLoadProofs` proves for every file, every cache, chunk and line length, every initial
size of the table from 3 on, refused growths and failing reads:

* `LoadedIsWritten`: the invariant `HoldsWhatWasWritten`;
* `FaultsAreSwallowedErrors`: the invariant `FaultMeansSwallowedError`;
* `LoadStopsAtError`: the action property `StopsAtError`;
* `LoadIsComplete`: the invariant `CompleteUnlessErr`, with the same two exceptions;
* `LoadGivesLines`: the reader within the load implements `LineSource`, with the callback answering
  as `filereader_iter_symbol_lines` does.

Assumed: what the reader and the table assume, and that `Written` is part of `Describable`.
Every step of the load is a step of the reader or leaves it alone (`ReaderSteps`), so the
lemmas of `FileReaderProofs` hold in it through an `INSTANCE`.  `LoadInv` adds what ties
the two parts together: `ctx_err` is set exactly when the last answer was STOP
(`ErrorsStop`), and this is why nothing comes after an error although nobody looks at `ctx_err`
in the loop; the array is there unless a growth was refused
(`ArrayIsThere`); and there is one symbol for each delivered line, the one parsed from it,
but for a refused last one (`SymbolPerLine`).  The last is about what the parser says, whatever it says;
`ReadsBack` turns it into what was written.  `LinePerNewline` counts the delivered lines by the
newlines before the line being filled, and gives completeness at the end of the file.

Only model-checked: termination (liveness is out of this prover's reach).

## Findings

* `dump_second_word`: `vc4_dump.c:22` and `:30` read into `instr[2]`; `instr[1]` is
  never written.  Every instruction of more than one word is shown, decoded (32
  bits) and printed with an uninitialised second word.
* `dump_fetched48`: `vc4_dump.c:25` lets 0xe000 end after two words; the decoder
  makes it a 48-bit branch.
* `dump_mem_op48`: the 48-bit memory operations that `vc4_instructions.c:830`
  describes have an entry and a printer but no rule.
* `optables_clone`: `src/README.md:41-44` builds by clone, cd and make; `Makefile:17-18` writes to
  `build/`, which nothing makes, so make stops at its first object.

Met while modelling, modelled as the code has it, and without a run of their own:

* `i48_data_vop` prints its last operand from `b`, which is declared at `vc4_instructions.c:970`,
  never set, and used at `:994`; the comment at `:966-967` gives the bits it should come from.
  It extracts `rs` (`:977`) and does not print it.
* `:1052` joins an immediate from two fields that overlap: the upper one is shifted by less
  than the lower one is wide.
* `:1040` lets a vector operation of 48 have a name, of which there are 48; `vmemops` has ten
  names for a five-bit field (`:878`), the scalar operations 57 for the six bits of
  `i32_alu_cond` (`:640`).  `NamelessWords` are the first words that get there.
* `:634` extends a six-bit immediate as one of sixteen bits; `:585` compares a register number with
  `current_pc`; the float printers ignore which form the rule matched, so the conversions print a register
  and a number alike.
* `make clean` (`Makefile:27-28`) removes objects from the wrong directory; objects do not depend on headers, so a new list
  of operations leaves old numbers in `vc4_instructions.o` (what `OnlyNumbersAreStale` delimits).

## Plan

Done: the main loop, decoder, line reader, symbol table, load, printers, generator and build,
with their proofs: every safety property of the runs is a theorem.

## Not modelled

* A compiler or linker killed in the middle of its output: the build's steps are whole.
* What a caller does with a pointer that a lookup returned, after the array was freed: the one
  caller, `print_abs_addr`, keeps none over an addition.
* Wording: mnemonics, number formats, spaces and the log macros, including how a float is written.
* What no rule leads to: `i48_mem_op` and the printers `instruction_52` to `instruction_58`; the
  print functions of `vc4_scalar_op.c`, which nothing calls.
* The NULL check of `filereader_iterate_lines` and the code after its last `abort`, never reached.
* Lines with blanks, signs, capitals or a 0x prefix, and numbers of several digits other than
  addresses, which `strtoul` and `atoi` also read: they are left out of `SymbolLine`'s inputs.
* The entries outside `Lossless` are modelled, but their texts are not compared: those that show
  a size by `vc4_operand_size` (loads and stores with displacement, pre- and
  post-indexed ones, `i16_ldw_stw`, `i48_add_ld_st`) write both halfword kinds as 2; `i48_b` and
  `i48_add_pc_rel` leave out low bits of the first word that their masks leave open, too; the vector and memory operations,
  `i32_alu_cond` and the float operations are in the list above.
