----------------------------- MODULE SymbolLoad ----------------------------
(***************************************************************************)
(* symbol_table_init: the line reader and the symbol table together.  The  *)
(* reader calls filereader_iter_symbol_lines for each line, which parses   *)
(* it and adds the symbol; the table that results is then looked up by     *)
(* print_abs_addr.                                                         *)
(*                                                                         *)
(* A step of the load is a step of the reader with the table left alone,   *)
(* or the reader's callback together with what it does to the table.  The  *)
(* context that both share is ctx_err.                                     *)
(***************************************************************************)
EXTENDS SymbolLine

CONSTANTS
    Char, NL, Files, BufSize, ChunkSize, LineCap, UnsetReads,
    InitSize, MaxSymbols, Block, NULL, Junk,
    Addr,          \* the addresses looked up
    Written,       \* symbols that the files may have been written from
    ReadFaults,    \* TRUE when open or read may fail
    MallocFaults   \* TRUE when malloc may

ASSUME LinesAssumption ==
    /\ NL \in Char /\ Files \subseteq Seq(Char)
    /\ BufSize \in Nat \ {0} /\ ChunkSize \in Nat \ {0} /\ LineCap \in Nat \ {0}
    /\ UnsetReads \subseteq {"continue", "stop"} /\ UnsetReads # {}
    /\ ReadFaults \in BOOLEAN

\* SYMBOL_TABLE_INIT_SIZE is 8; no malloc returns NULL for a block.
ASSUME ArrayAssumption == InitSize \in Nat /\ InitSize >= 3 /\ NULL \notin Block

ASSUME WrittenAssumption == Written \subseteq Describable

VARIABLES
    file, fpos, cached, eof, chunk, next, line, fill_ret, at, delivered,
    heap, data, num_elements, max_elements, found, state,
    ctx_err,   \* ctx.err
    exit       \* "none", or how symbol_table_init ended before the reader did

reader == <<file, fpos, cached, eof, chunk, next, line, fill_ret, at, delivered>>
table == <<heap, data, num_elements, max_elements, found, state>>
vars == <<reader, table, ctx_err, exit>>

Reader == INSTANCE FileReader WITH Faults <- ReadFaults
Table == INSTANCE SymbolTable WITH
    Name <- Seq(Char), LongName <- {}, Faults <- MallocFaults

-----------------------------------------------------------------------------
Init ==
    /\ Reader!Init
    /\ Table!Init
    /\ ctx_err = 0
    /\ exit = "none"

CreateTable ==
    /\ exit = "none"
    /\ Table!Create
    /\ UNCHANGED <<reader, ctx_err, exit>>

\* malloc finds no memory for the table: -1.
CreateFails ==
    /\ MallocFaults
    /\ exit = "none"
    /\ state = "zeroed"
    /\ exit' = "no memory"
    /\ UNCHANGED <<reader, table, ctx_err>>

\* Without a path the lines are read from a filereader nobody opened.
NoPath ==
    /\ exit = "none"
    /\ state = "ready"
    /\ at = "open"
    /\ exit' = "undefined"
    /\ UNCHANGED <<reader, table, ctx_err>>

Loading == exit = "none" /\ state = "ready"

\* filereader_open and filereader_iterate_lines, between the lines.
ReadOn ==
    /\ Loading
    /\ \/ Reader!Open \/ Reader!OpenFails
       \/ Reader!Refill \/ Reader!ReadFails \/ Reader!Copy \/ Reader!ReadReturns
       \/ Reader!StoreChar \/ Reader!Overrun \/ Reader!FillReturns
    /\ UNCHANGED <<table, ctx_err, exit>>

-----------------------------------------------------------------------------
\* filereader_iter_symbol_lines, called with the line that is complete.
Parsed == symbol_table_parse_line(line)

AddLine ==
    /\ Loading
    /\ Reader!CallBack
    /\ Parsed.verdict = "ok"
    /\ Table!Add(Parsed.sym) \/ Table!AddGrowing(Parsed.sym)
    /\ fill_ret' = Reader!CONTINUE
    /\ UNCHANGED <<ctx_err, exit>>

\* A bug to check the properties against: the error does not stop the reader.
AddLineFailsBug ==
    /\ Loading
    /\ Reader!CallBack
    /\ Parsed.verdict = "ok"
    /\ Table!GrowthFails
    /\ fill_ret' = Reader!CONTINUE
    /\ ctx_err' = -1
    /\ UNCHANGED exit

\* symbol_table_add fails.
AddLineFails ==
    /\ Loading
    /\ Reader!CallBack
    /\ Parsed.verdict = "ok"
    /\ Table!GrowthFails
    /\ fill_ret' = Reader!STOP
    /\ ctx_err' = -1
    /\ UNCHANGED exit

\* A bug to check the properties against: a bad line is passed over.
BadLineBug ==
    /\ Loading
    /\ Reader!CallBack
    /\ Parsed.verdict = "error"
    /\ fill_ret' = Reader!CONTINUE
    /\ UNCHANGED <<table, ctx_err, exit>>

\* symbol_table_parse_line fails.
BadLine ==
    /\ Loading
    /\ Reader!CallBack
    /\ Parsed.verdict = "error"
    /\ fill_ret' = Reader!STOP
    /\ ctx_err' = -1
    /\ UNCHANGED <<table, exit>>

\* symbol_table_parse_line does not return: it aborts, or looks for a closing
\* bracket past the end of the line.
LineEndsProgram ==
    /\ Loading
    /\ Reader!Filling /\ Reader!Char_c = NL /\ Len(line) < LineCap
    /\ Parsed.verdict \in {"abort", "runaway"}
    /\ exit' = IF Parsed.verdict = "abort" THEN "abort" ELSE "undefined"
    /\ UNCHANGED <<reader, table, ctx_err>>

-----------------------------------------------------------------------------
\* symbol_table_init has returned what the reader did; ctx_err is not looked
\* at.  print_abs_addr looks for addresses.
LookUp ==
    /\ exit = "none"
    /\ at \in {"success", "error"}
    /\ Table!FindSymbol \/ Table!WalkFaults
    /\ UNCHANGED <<reader, ctx_err, exit>>

Stopped ==
    /\ exit # "none" \/ at = "overrun" \/ state = "fault"
    /\ UNCHANGED vars

Next ==
    \/ CreateTable \/ CreateFails \/ NoPath
    \/ ReadOn
    \/ AddLine \/ AddLineFails \/ BadLine \/ LineEndsProgram
    \/ LookUp
    \/ Stopped

Spec == Init /\ [][Next]_vars

-----------------------------------------------------------------------------
\* Every line of the file that was given to the callback is in the table, in
\* its place and with the symbol it was written from, except a line that was
\* refused: it is the last one, and unless memory was refused no symbol is
\* written like that (symbol_table.c:96-218).
HoldsWhatWasWritten ==
    /\ num_elements = Len(delivered) + ctx_err
    /\ ctx_err # 0 /\ data # NULL =>
          \A sym \in Written : Last(delivered) \notin Texts(sym)
    /\ data # NULL =>
          \A k \in 1..num_elements : \A sym \in Written :
              delivered[k] \in Texts(sym) => heap[data][k - 1] = sym

\* A load that is reported as a success, and has not noted an error, has
\* added all lines of the file that a newline ends.  The two exceptions are the
\* reader's: a read came short, or after a full chunk without a newline an
\* answer that was never assigned looked like STOP (symbol_table.c:244-249,
\* filereader.c:41, 69).
CompleteUnlessErr ==
    at = "success" /\ ctx_err = 0 =>
        \/ num_elements = Cardinality({n \in 1..Len(file) : file[n] = NL})
        \/ ReadFaults /\ eof /\ fpos < Len(file)
        \/ /\ Reader!STOP \in UnsetReads /\ fill_ret = Reader!Unset
           /\ Len(chunk) = ChunkSize /\ NL \notin ToSet(chunk)

\* After an error nothing more is added and no line is given, to the end of
\* the load, over the rest of the chunk and of the file
\* (symbol_table.c:215-217, filereader.c:80, 136).
StopsAtError ==
    [][ctx_err # 0 =>
        UNCHANGED <<delivered, data, num_elements, max_elements, ctx_err>>]_vars

\* A lookup in a loaded table goes wrong only where the load noted an error
\* and was reported as a success all the same: a growth was refused
\* (symbol_table.c:72-74, 216, 245).
FaultMeansSwallowedError ==
    state = "fault" => at = "success" /\ ctx_err = -1 /\ data = NULL
=============================================================================
