-------------------------- MODULE SymbolLoadProofs --------------------------
(***************************************************************************)
(* SymbolLoad for every file, every size of the buffers and every initial  *)
(* size of the table.                                                      *)
(***************************************************************************)
EXTENDS SymbolLoad, SymbolLineProofs, FiniteSetTheorems

\* What is proved of the line reader.
R == INSTANCE FileReaderProofs WITH Faults <- ReadFaults

\* The symbol that the line k stands for.
SymbolOf(k) == symbol_table_parse_line(delivered[k])

\* Before the table is there, nothing was read.
NothingYet == state = "zeroed" =>
    data = NULL /\ num_elements = 0 /\ ctx_err = 0 /\ at = "open" /\ delivered = << >>

\* The context notes an error when, and only when, the reader was told to
\* stop; it had been given a line, then.
ErrorsStop ==
    /\ ctx_err \in {0, -1}
    /\ ctx_err = -1 <=> fill_ret = R!STOP
    /\ ctx_err = -1 => at \in {"fill", "success"} /\ delivered # << >>

\* Only a refused growth leaves the table without its array.
ArrayIsThere ==
    state # "zeroed" =>
        IF data = NULL THEN ctx_err = -1
        ELSE /\ data \in DOMAIN heap
             /\ max_elements \in Nat /\ max_elements >= InitSize
             /\ num_elements <= max_elements
             /\ DOMAIN heap[data] = 0..(max_elements - 1)

\* One symbol for each line, but for the one that was refused.
SymbolPerLine ==
    /\ num_elements = Len(delivered) + ctx_err
    /\ ctx_err = -1 /\ data # NULL => SymbolOf(Len(delivered)).verdict = "error"
    /\ data # NULL => \A k \in 1..num_elements :
          SymbolOf(k).verdict = "ok" /\ heap[data][k - 1] = SymbolOf(k).sym

FaultsLate ==
    /\ state \in {"zeroed", "ready", "fault"}
    /\ FaultMeansSwallowedError

LoadInv ==
    /\ R!IInv
    /\ NothingYet /\ ErrorsStop /\ ArrayIsThere /\ SymbolPerLine /\ FaultsLate

\* A line was given for each newline that went by.
LinePerNewline ==
    Len(delivered) = Cardinality({n \in 1..R!LineStart : file[n] = NL})

-----------------------------------------------------------------------------
(***************************************************************************)
(* A step of the load is a step of the reader, or leaves it where it is.   *)
(***************************************************************************)
ReaderActions ==
    Reader!Open \/ Reader!OpenFails \/ Reader!Refill \/ Reader!ReadFails \/ Reader!Copy
    \/ Reader!ReadReturns \/ Reader!StoreChar \/ Reader!Overrun \/ Reader!FillReturns

LEMMA SameActions ==
    /\ Reader!Init => R!Init
    /\ Reader!CallBack => R!CallBack
    /\ Reader!Open => R!Open
    /\ Reader!OpenFails => R!OpenFails
    /\ Reader!Refill => R!Refill
    /\ Reader!ReadFails => R!ReadFails
    /\ Reader!Copy => R!Copy
    /\ Reader!ReadReturns => R!ReadReturns
    /\ Reader!StoreChar => R!StoreChar
    /\ Reader!Overrun => R!Overrun
    /\ Reader!FillReturns => R!FillReturns
<1>1. Reader!Init => R!Init
    BY DEF Reader!Init, R!Init, Reader!Unset, R!Unset
<1>2. Reader!CallBack => R!CallBack
    BY DEF Reader!CallBack, R!CallBack, Reader!Filling, R!Filling, Reader!Char_c, R!Char_c,
           Reader!source, R!source, Reader!STOP, R!STOP, Reader!CONTINUE, R!CONTINUE
<1>3. Reader!Open => R!Open
    BY DEF Reader!Open, R!Open, Reader!source, R!source
<1>4. Reader!OpenFails => R!OpenFails
    BY DEF Reader!OpenFails, R!OpenFails, Reader!source, R!source
<1>5. Reader!Refill => R!Refill
    BY Zenon DEF Reader!Refill, R!Refill, Reader!Smaller, R!Smaller
<1>6. Reader!ReadFails => R!ReadFails
    BY DEF Reader!ReadFails, R!ReadFails, Reader!source, R!source
<1>7. Reader!Copy => R!Copy
    BY Zenon DEF Reader!Copy, R!Copy, Reader!Smaller, R!Smaller
<1>8. Reader!ReadReturns => R!ReadReturns
    BY DEF Reader!ReadReturns, R!ReadReturns, Reader!source, R!source
<1>9. Reader!StoreChar => R!StoreChar
    BY DEF Reader!StoreChar, R!StoreChar, Reader!Filling, R!Filling, Reader!Char_c, R!Char_c,
           Reader!source, R!source, Reader!STOP, R!STOP
<1>10. Reader!Overrun => R!Overrun
    BY DEF Reader!Overrun, R!Overrun, Reader!Filling, R!Filling,
           Reader!source, R!source, Reader!STOP, R!STOP
<1>11. Reader!FillReturns => R!FillReturns
    BY Zenon DEF Reader!FillReturns, R!FillReturns, Reader!source, R!source,
           Reader!STOP, R!STOP, Reader!Unset, R!Unset
<1> QED
    BY <1>1, <1>2, <1>3, <1>4, <1>5, <1>6, <1>7, <1>8, <1>9, <1>10, <1>11

LEMMA ReaderSteps ==
    ASSUME [Next]_vars
    PROVE  [R!Next]_(R!vars)
<1>1. CASE ReadOn
    BY <1>1, SameActions DEF ReadOn, R!Next
<1>2. CASE AddLine \/ AddLineFails \/ BadLine
    BY <1>2, SameActions DEF AddLine, AddLineFails, BadLine, R!Next
<1>3. CASE CreateTable \/ CreateFails \/ NoPath \/ LineEndsProgram \/ LookUp \/ Stopped
           \/ UNCHANGED vars
    <2>1. UNCHANGED reader
        BY <1>3 DEF CreateTable, CreateFails, NoPath, LineEndsProgram, LookUp, Stopped, vars
    <2> QED
        BY <2>1 DEF reader, R!vars
<1> QED
    BY <1>1, <1>2, <1>3 DEF Next

LEMMA ReaderInv ==
    ASSUME R!IInv, [Next]_vars
    PROVE  R!IInv'
BY ReaderSteps, LinesAssumption, R!NextInv DEF R!CONTINUE, R!STOP

\* What the reader does between the lines.
LEMMA BetweenLines ==
    ASSUME ReaderActions
    PROVE  /\ delivered' = delivered
           /\ fill_ret' = R!STOP <=> fill_ret = R!STOP
           /\ fill_ret = R!STOP => at' = at \/ at' = "success" \/ at \notin {"fill", "success"}
<1>1. CASE R!Open \/ R!OpenFails \/ R!Refill \/ R!ReadFails \/ R!Copy \/ R!ReadReturns
    BY <1>1 DEF R!Open, R!OpenFails, R!Refill, R!ReadFails, R!Copy, R!ReadReturns
<1>2. CASE R!StoreChar \/ R!Overrun
    BY <1>2 DEF R!StoreChar, R!Overrun, R!Filling
<1>3. CASE R!FillReturns
    BY <1>3 DEF R!FillReturns, R!STOP, R!Unset
<1> QED
    BY <1>1, <1>2, <1>3, SameActions DEF ReaderActions

-----------------------------------------------------------------------------
(***************************************************************************)
(* The load.                                                               *)
(***************************************************************************)
LEMMA LoadInit == Init => LoadInv
<1> SUFFICES ASSUME Init PROVE LoadInv
    OBVIOUS
<1>1. R!IInv
    <2>1. R!Init
        BY SameActions DEF Init
    <2> QED
        BY <2>1, LinesAssumption, R!InitInv DEF R!CONTINUE, R!STOP
<1>2. /\ data = NULL /\ num_elements = 0 /\ state = "zeroed" /\ ctx_err = 0
      /\ at = "open" /\ delivered = << >> /\ fill_ret = R!Unset
    BY DEF Init, Reader!Init, Table!Init, Reader!Unset, R!Unset
<1>3. NothingYet /\ ErrorsStop /\ ArrayIsThere /\ FaultsLate
    BY <1>2 DEF NothingYet, ErrorsStop, ArrayIsThere, FaultsLate, FaultMeansSwallowedError,
                R!Unset, R!STOP
<1>4. SymbolPerLine
    BY <1>2, EmptySeq DEF SymbolPerLine
<1> QED
    BY <1>1, <1>3, <1>4 DEF LoadInv

\* Steps that neither give a line nor touch the table.
LEMMA QuietInv ==
    ASSUME LoadInv, R!IInv', UNCHANGED <<delivered, heap, data, num_elements, max_elements,
                                         state, ctx_err>>,
           fill_ret' = R!STOP <=> fill_ret = R!STOP,
           at' = at \/ (state = "ready" /\ (fill_ret = R!STOP => at' = "success"))
    PROVE  LoadInv'
<1>1. NothingYet' /\ ErrorsStop' /\ ArrayIsThere'
    BY DEF LoadInv, NothingYet, ErrorsStop, ArrayIsThere
<1>2. SymbolPerLine'
    BY DEF LoadInv, SymbolPerLine, SymbolOf
<1>3. FaultsLate'
    BY DEF LoadInv, FaultsLate, FaultMeansSwallowedError
<1> QED
    BY <1>1, <1>2, <1>3 DEF LoadInv

\* When a line is given.
LEMMA LineGiven ==
    ASSUME LoadInv, Loading, Reader!CallBack
    PROVE  /\ state = "ready" /\ at = "fill" /\ at' = "fill" /\ fill_ret # R!STOP /\ ctx_err = 0
           /\ data # NULL
           /\ delivered' = Append(delivered, line)
           /\ delivered \in Seq(Seq(Char)) /\ line \in Seq(Char)
           /\ Len(delivered) \in Nat /\ Len(delivered') = Len(delivered) + 1
           /\ num_elements = Len(delivered)
           /\ delivered' # << >> /\ delivered'[Len(delivered) + 1] = line
           /\ \A k \in 1..Len(delivered) : delivered'[k] = delivered[k]
<1>1. R!CallBack
    BY SameActions
<1>2. /\ at = "fill" /\ at' = "fill" /\ fill_ret # R!STOP
      /\ delivered' = Append(delivered, line)
    BY <1>1 DEF R!CallBack, R!Filling
<1>3. delivered \in Seq(Seq(Char)) /\ line \in Seq(Char)
    <2>1. delivered \in Seq(Seq(Char \ {NL})) /\ line \in Seq(Char \ {NL})
        BY DEF LoadInv, R!IInv, R!TypeOK
    <2>2. \A q \in Seq(Char \ {NL}) : q \in Seq(Char)
        BY SeqMonotonic
    <2> QED
        BY <2>1, <2>2, SeqMonotonic
<1>4. state = "ready" /\ ctx_err = 0 /\ data # NULL
    BY <1>2 DEF Loading, LoadInv, ErrorsStop, ArrayIsThere
<1>5. Len(delivered) \in Nat /\ num_elements = Len(delivered)
    <2>1. Len(delivered) \in Nat
        BY <1>3, LenProperties
    <2> QED
        BY <1>4, <2>1 DEF LoadInv, SymbolPerLine
<1>6. /\ Len(delivered') = Len(delivered) + 1
      /\ delivered'[Len(delivered) + 1] = line
      /\ \A k \in 1..Len(delivered) : delivered'[k] = delivered[k]
    BY <1>2, <1>3, AppendProperties
<1>7. delivered' # << >>
    BY <1>5, <1>6, EmptySeq
<1> QED
    BY <1>2, <1>3, <1>4, <1>5, <1>6, <1>7

\* The array grows by more than one, and the cells that are looked at are in
\* it.
LEMMA GrownIsMore ==
    ASSUME NEW n \in Nat, n >= 3
    PROVE  Table!Grown(n) \in Nat /\ Table!Grown(n) > n
<1>1. (8 * n) \div 5 \in Nat /\ (8 * n) \div 5 > n
    OBVIOUS
<1> QED
    BY <1>1 DEF Table!Grown

\* The table after a line was added: sym is behind what was there.
Added(sym) ==
    /\ state' = "ready" /\ num_elements' = num_elements + 1
    /\ data' # NULL /\ data' \in DOMAIN heap'
    /\ max_elements' \in Nat /\ max_elements' >= InitSize
    /\ num_elements' <= max_elements'
    /\ DOMAIN (heap'[data']) = 0..(max_elements' - 1)
    /\ heap'[data'][num_elements] = sym
    /\ \A i \in 0..(num_elements - 1) : heap'[data'][i] = heap[data][i]

\* The table that a line is added to.
HasArray ==
    /\ state = "ready" /\ data # NULL /\ data \in DOMAIN heap /\ num_elements \in Nat
    /\ max_elements \in Nat /\ max_elements >= InitSize /\ num_elements <= max_elements
    /\ DOMAIN heap[data] = 0..(max_elements - 1)

LEMMA AddAdds ==
    ASSUME HasArray, NEW sym, Table!Add(sym)
    PROVE  Added(sym)
<1>1. num_elements < max_elements /\ max_elements >= 3
    BY ArrayAssumption DEF Table!Add, HasArray
<1>2. num_elements \in 0..(max_elements - 1) /\ 2 \in 0..(max_elements - 1)
    BY <1>1 DEF HasArray
<1>3. /\ heap' = [heap EXCEPT ![data][num_elements] = sym]
      /\ num_elements' = num_elements + 1
      /\ state' = state /\ data' = data /\ max_elements' = max_elements
    BY <1>2, Zenon DEF Table!Add, Table!Writable, HasArray
<1>4. /\ data \in DOMAIN heap'
      /\ heap'[data] = [heap[data] EXCEPT ![num_elements] = sym]
    BY <1>3 DEF HasArray
<1>5. /\ DOMAIN (heap'[data]) = 0..(max_elements - 1)
      /\ heap'[data][num_elements] = sym
    BY <1>2, <1>4 DEF HasArray
<1>6. \A i \in 0..(num_elements - 1) : heap'[data][i] = heap[data][i]
    <2> SUFFICES ASSUME NEW i \in 0..(num_elements - 1) PROVE heap'[data][i] = heap[data][i]
        OBVIOUS
    <2>1. i \in 0..(max_elements - 1) /\ i # num_elements
        BY <1>1 DEF HasArray
    <2> QED
        BY <1>4, <2>1 DEF HasArray
<1>7. num_elements' <= max_elements'
    BY <1>1, <1>3 DEF HasArray
<1> QED
    BY <1>3, <1>4, <1>5, <1>6, <1>7 DEF Added, HasArray

LEMMA AddGrowingAdds ==
    ASSUME HasArray, NEW sym, Table!AddGrowing(sym)
    PROVE  Added(sym)
<1>1. num_elements = max_elements /\ max_elements' = Table!Grown(max_elements)
    BY DEF Table!AddGrowing
<1>2. max_elements >= 3 /\ max_elements' \in Nat /\ max_elements' > max_elements
    BY <1>1, ArrayAssumption, GrownIsMore DEF HasArray
<1> DEFINE copied == [i \in 0..(max_elements' - 1) |->
                         IF i < num_elements THEN heap[data][i] ELSE Junk]
           cells == [copied EXCEPT ![num_elements] = sym]
<1>3. num_elements \in 0..(max_elements' - 1) /\ 2 \in 0..(max_elements' - 1)
    BY <1>1, <1>2 DEF HasArray
<1>4. PICK b \in Table!Fresh :
          /\ data' = b /\ heap' = Table!Replaced(data, b, cells)
          /\ num_elements' = num_elements + 1 /\ state' = state
    <2>1. DOMAIN copied = 0..(max_elements' - 1)
        OBVIOUS
    <2> QED
        BY <1>3, <2>1, Zenon DEF Table!AddGrowing, Table!Writable
<1>5. b # NULL
    BY ArrayAssumption DEF Table!Fresh
<1>6. b \in DOMAIN heap' /\ heap'[b] = cells
    <2> HIDE DEF cells
    <2> QED
        BY <1>4 DEF Table!Replaced
<1>7. /\ DOMAIN cells = 0..(max_elements' - 1) /\ cells[num_elements] = sym
      /\ \A i \in 0..(num_elements - 1) : cells[i] = heap[data][i]
    <2>1. DOMAIN copied = 0..(max_elements' - 1)
        OBVIOUS
    <2>2. \A i \in 0..(num_elements - 1) :
              i \in 0..(max_elements' - 1) /\ i # num_elements /\ copied[i] = heap[data][i]
        BY <1>1, <1>2 DEF HasArray
    <2> HIDE DEF copied
    <2> QED
        BY <1>3, <2>1, <2>2
<1>8. max_elements' >= InitSize /\ num_elements' <= max_elements'
    <2>1. max_elements \in Nat /\ max_elements >= InitSize /\ InitSize \in Nat
        BY ArrayAssumption DEF HasArray
    <2> QED
        BY <1>1, <1>2, <1>4, <2>1
<1> HIDE DEF cells
<1> QED
    BY <1>2, <1>4, <1>5, <1>6, <1>7, <1>8 DEF Added, HasArray

LEMMA AddLineInv ==
    ASSUME LoadInv, R!IInv', AddLine
    PROVE  LoadInv'
<1> DEFINE n == Len(delivered)
<1>1. Loading /\ Reader!CallBack /\ Parsed.verdict = "ok"
      /\ (Table!Add(Parsed.sym) \/ Table!AddGrowing(Parsed.sym))
      /\ fill_ret' = R!CONTINUE /\ ctx_err' = ctx_err
    BY DEF AddLine, Reader!CONTINUE, R!CONTINUE
<1>2. /\ state = "ready" /\ at = "fill" /\ at' = "fill" /\ fill_ret # R!STOP /\ ctx_err = 0
      /\ data # NULL /\ n \in Nat /\ Len(delivered') = n + 1
      /\ num_elements = n /\ delivered' # << >> /\ delivered'[n + 1] = line
      /\ \A k \in 1..n : delivered'[k] = delivered[k]
    BY <1>1, LineGiven
<1>3. HasArray
    BY <1>2 DEF HasArray, LoadInv, ArrayIsThere
<1>4. Added(Parsed.sym)
    BY <1>1, <1>3, AddAdds, AddGrowingAdds
<1> HIDE DEF n
<1>5. NothingYet' /\ ErrorsStop' /\ FaultsLate'
    BY <1>1, <1>2, <1>4 DEF Added, NothingYet, ErrorsStop, FaultsLate, FaultMeansSwallowedError,
                            R!CONTINUE, R!STOP
<1>6. ArrayIsThere'
    BY <1>4 DEF Added, ArrayIsThere
<1>7. SymbolPerLine'
    <2>1. num_elements' = n + 1 /\ ctx_err' = 0
        BY <1>1, <1>2, <1>4 DEF Added
    <2>2. num_elements' = Len(delivered') + ctx_err'
        BY <1>2, <2>1
    <2>3. ASSUME NEW k \in 1..num_elements'
          PROVE  /\ symbol_table_parse_line(delivered'[k]).verdict = "ok"
                 /\ heap'[data'][k - 1] = symbol_table_parse_line(delivered'[k]).sym
        <3>1. CASE k = n + 1
            <4>1. delivered'[k] = line /\ k - 1 = num_elements
                BY <1>2, <3>1
            <4> QED
                BY <1>1, <1>4, <4>1 DEF Added, Parsed
        <3>2. CASE k # n + 1
            <4>1. k \in 1..num_elements /\ k \in 1..n /\ k - 1 \in 0..(num_elements - 1)
                BY <1>2, <2>1, <3>2
            <4>2. /\ symbol_table_parse_line(delivered[k]).verdict = "ok"
                  /\ heap[data][k - 1] = symbol_table_parse_line(delivered[k]).sym
                BY <1>2, <4>1 DEF LoadInv, SymbolPerLine, SymbolOf
            <4>3. delivered'[k] = delivered[k] /\ heap'[data'][k - 1] = heap[data][k - 1]
                BY <1>2, <1>4, <4>1 DEF Added
            <4> QED
                BY <4>2, <4>3
        <3> QED
            BY <3>1, <3>2
    <2> QED
        BY <2>1, <2>2, <2>3 DEF SymbolPerLine, SymbolOf
<1> QED
    BY <1>5, <1>6, <1>7 DEF LoadInv

\* A growth is refused: the array is lost, and the reader told to stop.
LEMMA AddLineFailsInv ==
    ASSUME LoadInv, R!IInv', AddLineFails
    PROVE  LoadInv'
<1>1. /\ Loading /\ Reader!CallBack
      /\ data' = NULL /\ num_elements' = num_elements /\ state' = state
      /\ fill_ret' = R!STOP /\ ctx_err' = -1
    BY DEF AddLineFails, Table!GrowthFails, Reader!STOP, R!STOP
<1>2. /\ state = "ready" /\ at' = "fill" /\ Len(delivered) \in Nat
      /\ Len(delivered') = Len(delivered) + 1
      /\ num_elements = Len(delivered) /\ delivered' # << >>
    BY <1>1, LineGiven
<1>3. NothingYet' /\ ErrorsStop' /\ ArrayIsThere' /\ FaultsLate'
    BY <1>1, <1>2 DEF NothingYet, ErrorsStop, ArrayIsThere, FaultsLate, FaultMeansSwallowedError
<1>4. SymbolPerLine'
    BY <1>1, <1>2 DEF SymbolPerLine
<1> QED
    BY <1>3, <1>4 DEF LoadInv

\* A line is refused, and the reader told to stop.
LEMMA BadLineInv ==
    ASSUME LoadInv, R!IInv', BadLine
    PROVE  LoadInv'
<1>1. /\ Loading /\ Reader!CallBack /\ symbol_table_parse_line(line).verdict = "error"
      /\ UNCHANGED <<heap, data, num_elements, max_elements, state>>
      /\ fill_ret' = R!STOP /\ ctx_err' = -1
    BY DEF BadLine, table, Parsed, Reader!STOP, R!STOP
<1>2. /\ state = "ready" /\ at' = "fill" /\ Len(delivered) \in Nat /\ data # NULL
      /\ Len(delivered') = Len(delivered) + 1
      /\ num_elements = Len(delivered) /\ delivered' # << >>
      /\ delivered'[Len(delivered) + 1] = line
      /\ \A k \in 1..Len(delivered) : delivered'[k] = delivered[k]
    BY <1>1, LineGiven
<1>3. NothingYet' /\ ErrorsStop' /\ FaultsLate'
    BY <1>1, <1>2 DEF NothingYet, ErrorsStop, FaultsLate, FaultMeansSwallowedError
<1>4. ArrayIsThere'
    BY <1>1 DEF ArrayIsThere, LoadInv
<1>5. SymbolPerLine'
    <2>1. num_elements' = Len(delivered') + ctx_err'
        BY <1>1, <1>2
    <2>2. symbol_table_parse_line(delivered'[Len(delivered')]).verdict = "error"
        BY <1>1, <1>2
    <2>3. ASSUME NEW k \in 1..num_elements'
          PROVE  /\ symbol_table_parse_line(delivered'[k]).verdict = "ok"
                 /\ heap'[data'][k - 1] = symbol_table_parse_line(delivered'[k]).sym
        <3>1. k \in 1..num_elements /\ delivered'[k] = delivered[k] /\ heap' = heap /\ data' = data
            BY <1>1, <1>2
        <3>2. /\ symbol_table_parse_line(delivered[k]).verdict = "ok"
              /\ heap[data][k - 1] = symbol_table_parse_line(delivered[k]).sym
            BY <1>2, <3>1 DEF LoadInv, SymbolPerLine, SymbolOf
        <3> QED
            BY <3>1, <3>2
    <2> QED
        BY <2>1, <2>2, <2>3 DEF SymbolPerLine, SymbolOf
<1> QED
    BY <1>3, <1>4, <1>5 DEF LoadInv

LEMMA CreateTableInv ==
    ASSUME LoadInv, R!IInv', CreateTable
    PROVE  LoadInv'
<1>1. /\ state = "zeroed" /\ UNCHANGED <<delivered, fill_ret, at, ctx_err>>
      /\ num_elements' = 0 /\ max_elements' = InitSize /\ state' = "ready"
    BY DEF CreateTable, Table!Create, reader
<1>2. PICK b \in Table!Fresh :
          /\ data' = b
          /\ heap' = Table!Replaced(NULL, b, [i \in 0..(InitSize - 1) |-> Junk])
    BY DEF CreateTable, Table!Create
<1>3. b # NULL /\ b \in DOMAIN heap' /\ DOMAIN (heap'[b]) = 0..(InitSize - 1)
    <2>1. b # NULL
        BY ArrayAssumption DEF Table!Fresh
    <2> DEFINE cells == [i \in 0..(InitSize - 1) |-> Junk]
    <2>2. DOMAIN cells = 0..(InitSize - 1) /\ heap' = Table!Replaced(NULL, b, cells)
        BY <1>2
    <2> HIDE DEF cells
    <2>3. b \in DOMAIN heap' /\ heap'[b] = cells
        BY <2>2 DEF Table!Replaced
    <2> QED
        BY <2>1, <2>2, <2>3
<1>4. delivered = << >> /\ ctx_err = 0 /\ at = "open" /\ fill_ret # R!STOP
    BY <1>1 DEF LoadInv, NothingYet, ErrorsStop
<1>5. NothingYet' /\ ErrorsStop' /\ FaultsLate'
    BY <1>1, <1>4 DEF NothingYet, ErrorsStop, FaultsLate, FaultMeansSwallowedError
<1>6. ArrayIsThere'
    BY <1>1, <1>2, <1>3, ArrayAssumption DEF ArrayIsThere
<1>7. SymbolPerLine'
    <2>1. Len(delivered') = 0 /\ ctx_err' = 0
        BY <1>1, <1>4, EmptySeq
    <2> QED
        BY <1>1, <2>1 DEF SymbolPerLine
<1> QED
    BY <1>5, <1>6, <1>7 DEF LoadInv

LEMMA LookUpInv ==
    ASSUME LoadInv, R!IInv', LookUp
    PROVE  LoadInv'
<1>1. UNCHANGED <<delivered, fill_ret, at, ctx_err>> /\ at \in {"success", "error"}
    BY DEF LookUp, reader
<1>2. CASE Table!FindSymbol
    <2>1. UNCHANGED <<heap, data, num_elements, max_elements, state>>
        BY <1>2 DEF Table!FindSymbol, Table!LookUp
    <2> QED
        BY <1>1, <2>1, QuietInv
<1>3. CASE Table!WalkFaults
    <2>1. /\ state \in {"zeroed", "ready"} /\ data = NULL /\ state' = "fault"
          /\ UNCHANGED <<heap, data, num_elements, max_elements>>
        BY <1>3 DEF Table!WalkFaults, Table!Running, Table!Walkable
    <2>2. state = "ready"
        BY <1>1, <2>1 DEF LoadInv, NothingYet
    <2>3. ctx_err = -1 /\ at = "success"
        BY <1>1, <2>1, <2>2 DEF LoadInv, ArrayIsThere, ErrorsStop
    <2>4. NothingYet' /\ ErrorsStop' /\ ArrayIsThere' /\ FaultsLate'
        BY <1>1, <2>1, <2>2, <2>3 DEF LoadInv, NothingYet, ErrorsStop, ArrayIsThere, FaultsLate,
                                      FaultMeansSwallowedError
    <2>5. SymbolPerLine'
        BY <1>1, <2>1 DEF LoadInv, SymbolPerLine, SymbolOf
    <2> QED
        BY <2>4, <2>5 DEF LoadInv
<1> QED
    BY <1>2, <1>3 DEF LookUp

LEMMA LoadNext == LoadInv /\ [Next]_vars => LoadInv'
<1> SUFFICES ASSUME LoadInv, [Next]_vars PROVE LoadInv'
    OBVIOUS
<1>1. R!IInv'
    BY ReaderInv DEF LoadInv
<1>2. CASE ReadOn
    <2>1. ReaderActions /\ state = "ready"
        BY <1>2 DEF ReadOn, ReaderActions, Loading
    <2>2. UNCHANGED <<heap, data, num_elements, max_elements, state, ctx_err>>
        BY <1>2 DEF ReadOn, table
    <2>3. fill_ret = R!STOP => at \in {"fill", "success"}
        BY DEF LoadInv, ErrorsStop
    <2>4. /\ delivered' = delivered /\ (fill_ret' = R!STOP <=> fill_ret = R!STOP)
          /\ at' = at \/ (state = "ready" /\ (fill_ret = R!STOP => at' = "success"))
        BY <2>1, <2>3, BetweenLines
    <2> QED
        BY <1>1, <2>2, <2>4, QuietInv
<1>3. CASE AddLine \/ AddLineFails \/ BadLine
    BY <1>1, <1>3, AddLineInv, AddLineFailsInv, BadLineInv
<1>4. CASE CreateTable \/ LookUp
    BY <1>1, <1>4, CreateTableInv, LookUpInv
<1>5. CASE CreateFails \/ NoPath \/ LineEndsProgram \/ Stopped \/ UNCHANGED vars
    <2>1. UNCHANGED <<reader, table, ctx_err>>
        BY <1>5 DEF CreateFails, NoPath, LineEndsProgram, Stopped, vars
    <2> QED
        BY <1>1, <2>1, QuietInv DEF reader, table
<1> QED
    BY <1>2, <1>3, <1>4, <1>5 DEF Next

\* The invariant of the load, from which the rest follows.
THEOREM LoadInvariant == Spec => []LoadInv
BY LoadInit, LoadNext, PTL DEF Spec

-----------------------------------------------------------------------------
\* What the table holds is what the lines of the file were written from, each
\* in its place, for all symbols that the format can say.
THEOREM LoadedIsWritten == Spec => []HoldsWhatWasWritten
<1>1. LoadInv => HoldsWhatWasWritten
    <2> SUFFICES ASSUME LoadInv PROVE HoldsWhatWasWritten
        OBVIOUS
    <2>1. num_elements = Len(delivered) + ctx_err
        BY DEF LoadInv, SymbolPerLine
    <2>2. ASSUME ctx_err # 0, data # NULL, NEW sym \in Written, Last(delivered) \in Texts(sym)
          PROVE  FALSE
        <3>1. symbol_table_parse_line(delivered[Len(delivered)]).verdict = "error"
            BY <2>2 DEF LoadInv, ErrorsStop, SymbolPerLine, SymbolOf
        <3>2. symbol_table_parse_line(Last(delivered)).verdict = "ok"
            BY <2>2, WrittenAssumption, ReadsBack
        <3> QED
            BY <3>1, <3>2 DEF Last
    <2>3. ASSUME data # NULL, NEW k \in 1..num_elements, NEW sym \in Written,
                 delivered[k] \in Texts(sym)
          PROVE  heap[data][k - 1] = sym
        <3>1. heap[data][k - 1] = symbol_table_parse_line(delivered[k]).sym
            BY <2>3 DEF LoadInv, SymbolPerLine, SymbolOf
        <3>2. symbol_table_parse_line(delivered[k]).sym = sym
            BY <2>3, WrittenAssumption, ReadsBack
        <3> QED
            BY <3>1, <3>2
    <2> QED
        BY <2>1, <2>2, <2>3 DEF HoldsWhatWasWritten
<1> QED
    BY <1>1, LoadInvariant, PTL

\* A lookup goes wrong only in a table that a growth was refused to, after a
\* load that was reported as a success.
THEOREM FaultsAreSwallowedErrors == Spec => []FaultMeansSwallowedError
<1>1. LoadInv => FaultMeansSwallowedError
    BY DEF LoadInv, FaultsLate
<1> QED
    BY <1>1, LoadInvariant, PTL

\* After an error the load gives no line and adds nothing.
THEOREM LoadStopsAtError == Spec => StopsAtError
<1>1. LoadInv /\ [Next]_vars =>
          [ctx_err # 0 => UNCHANGED <<delivered, data, num_elements, max_elements, ctx_err>>]_vars
    <2> SUFFICES ASSUME LoadInv, [Next]_vars, ctx_err # 0
                 PROVE  UNCHANGED <<delivered, data, num_elements, max_elements, ctx_err>>
        OBVIOUS
    <2>1. fill_ret = R!STOP /\ state # "zeroed"
        BY DEF LoadInv, ErrorsStop, NothingYet
    <2>2. ~Reader!CallBack
        BY <2>1, SameActions DEF R!CallBack, R!Filling
    <2>3. CASE ReadOn
        <3>1. ReaderActions /\ UNCHANGED <<data, num_elements, max_elements, ctx_err>>
            BY <2>3 DEF ReadOn, ReaderActions, table
        <3> QED
            BY <3>1, BetweenLines
    <2>4. CASE AddLine \/ AddLineFails \/ BadLine
        BY <2>2, <2>4 DEF AddLine, AddLineFails, BadLine
    <2>5. CASE CreateTable
        BY <2>1, <2>5 DEF CreateTable, Table!Create
    <2>6. CASE LookUp
        BY <2>6 DEF LookUp, reader, Table!FindSymbol, Table!LookUp, Table!WalkFaults
    <2>7. CASE CreateFails \/ NoPath \/ LineEndsProgram \/ Stopped \/ UNCHANGED vars
        BY <2>7 DEF CreateFails, NoPath, LineEndsProgram, Stopped, vars, reader, table
    <2> QED
        BY <2>3, <2>4, <2>5, <2>6, <2>7 DEF Next
<1> QED
    BY <1>1, LoadInvariant, PTL DEF Spec, StopsAtError

-----------------------------------------------------------------------------
(***************************************************************************)
(* A line for each newline.                                                *)
(***************************************************************************)
NewlinesTo(n) == {m \in 1..n : file[m] = NL}

LEMMA SameStart ==
    ASSUME R!IInv, ReaderActions \/ UNCHANGED reader
    PROVE  R!LineStart' = R!LineStart /\ delivered' = delivered /\ file' = file
<1>1. CASE R!Open \/ R!OpenFails \/ R!ReadFails \/ R!ReadReturns \/ R!Overrun
    <2>1. UNCHANGED R!Held /\ delivered' = delivered /\ file' = file
        BY <1>1 DEF R!Open, R!OpenFails, R!ReadFails, R!ReadReturns, R!Overrun, R!source, R!Held
    <2> QED
        BY <2>1, LinesAssumption, R!HeldSame DEF R!CONTINUE, R!STOP
<1>2. CASE R!Refill
    BY <1>2, LinesAssumption, R!RefillInv DEF R!CONTINUE, R!STOP, R!Refill
<1>3. CASE R!Copy
    BY <1>3, LinesAssumption, R!CopyInv DEF R!CONTINUE, R!STOP, R!Copy
<1>4. CASE R!StoreChar
    <2>1. delivered' = delivered /\ file' = file
        BY <1>4 DEF R!StoreChar, R!source
    <2> QED
        BY <1>4, <2>1, LinesAssumption, R!StoreCharInv DEF R!CONTINUE, R!STOP
<1>5. CASE R!FillReturns
    <2>1. delivered' = delivered /\ file' = file
        BY <1>5 DEF R!FillReturns, R!source
    <2> QED
        BY <1>5, <2>1, LinesAssumption, R!FillReturnsInv DEF R!CONTINUE, R!STOP
<1>6. CASE UNCHANGED reader
    BY <1>6 DEF reader, R!LineStart, R!Ahead, R!Pending
<1> QED
    BY <1>1, <1>2, <1>3, <1>4, <1>5, <1>6, SameActions DEF ReaderActions

LEMMA LineCounted ==
    ASSUME LoadInv, LinePerNewline, Loading, Reader!CallBack
    PROVE  LinePerNewline'
<1> DEFINE start == R!LineStart
           n == Len(line)
           S == NewlinesTo(start)
<1>1. R!CallBack /\ R!IInv /\ fill_ret # R!STOP /\ file' = file
    BY SameActions DEF LoadInv, R!CallBack, R!Filling, R!source
<1>2. /\ R!LineStart' = start + n + 1 /\ file[start + n + 1] = NL
      /\ start + n + 1 <= Len(file)
    BY <1>1, LinesAssumption, R!CallBackInv DEF R!CONTINUE, R!STOP
<1>3. /\ start \in Nat /\ n \in Nat
      /\ \A k \in 1..n : file[start + k] # NL
    <2>1. /\ start \in Nat /\ n \in Nat
          /\ \A k \in 1..n : file[start + k] = line[k] /\ line[k] # NL
        BY <1>1, LinesAssumption, R!LineIsWindow DEF R!CONTINUE, R!STOP
    <2> QED
        BY <2>1
<1>4. Len(delivered') = Len(delivered) + 1
    BY LineGiven
<1> HIDE DEF start, n
<1>5. NewlinesTo(start + n + 1) = S \cup {start + n + 1}
    <2>1. ASSUME NEW m \in 1..(start + n + 1), file[m] = NL, m # start + n + 1
          PROVE  m \in 1..start
        <3>1. CASE m \in 1..start
            BY <3>1
        <3>2. CASE m \notin 1..start
            <4>1. m - start \in 1..n /\ start + (m - start) = m
                BY <1>3, <2>1, <3>2
            <4> QED
                BY <1>3, <2>1, <4>1
        <3> QED
            BY <3>1, <3>2
    <2>2. start + n + 1 \in 1..(start + n + 1) /\ 1..start \subseteq 1..(start + n + 1)
        BY <1>3
    <2> QED
        BY <1>2, <2>1, <2>2 DEF NewlinesTo
<1>6. IsFiniteSet(S) /\ start + n + 1 \notin S
    <2>1. S \in SUBSET (1..start) /\ IsFiniteSet(1..start)
        BY <1>3, FS_Interval DEF NewlinesTo
    <2>2. start + n + 1 \notin 1..start
        BY <1>3
    <2> QED
        BY <2>1, <2>2, FS_Subset
<1>7. Cardinality(S \cup {start + n + 1}) = Cardinality(S) + 1
    <2> HIDE DEF S
    <2> QED
        BY <1>6, FS_AddElement
<1>8. NewlinesTo(start)' = NewlinesTo(start + n + 1)
    BY <1>1, <1>2 DEF NewlinesTo, start
<1>9. Len(delivered) = Cardinality(S)
    BY DEF LinePerNewline, NewlinesTo, start
<1> QED
    BY <1>4, <1>5, <1>7, <1>8, <1>9 DEF LinePerNewline, NewlinesTo, start

LEMMA CountInit == Init => LinePerNewline
<1> SUFFICES ASSUME Init PROVE LinePerNewline
    OBVIOUS
<1>1. R!Lines!Init
    <2>1. R!Init
        BY SameActions DEF Init
    <2> QED
        BY <2>1, LinesAssumption, R!GivesInit DEF R!CONTINUE, R!STOP
<1>2. R!LineStart = 0 /\ delivered = << >>
    BY <1>1 DEF R!Lines!Init
<1>3. {n \in 1..R!LineStart : file[n] = NL} = {}
    BY <1>2
<1> QED
    BY <1>2, <1>3, FS_EmptySet, EmptySeq DEF LinePerNewline

LEMMA CountNext == LoadInv /\ LinePerNewline /\ [Next]_vars => LinePerNewline'
<1> SUFFICES ASSUME LoadInv, LinePerNewline, [Next]_vars PROVE LinePerNewline'
    OBVIOUS
<1>1. CASE AddLine \/ AddLineFails \/ BadLine
    BY <1>1, LineCounted DEF AddLine, AddLineFails, BadLine
<1>2. CASE ~(AddLine \/ AddLineFails \/ BadLine)
    <2>1. ReaderActions \/ UNCHANGED reader
        BY <1>2 DEF Next, ReadOn, ReaderActions, CreateTable, CreateFails, NoPath,
                    LineEndsProgram, LookUp, Stopped, vars
    <2>2. R!LineStart' = R!LineStart /\ delivered' = delivered /\ file' = file
        BY <2>1, SameStart DEF LoadInv
    <2> QED
        BY <2>2 DEF LinePerNewline
<1> QED
    BY <1>1, <1>2

\* A load without an error has added every line of the file that a newline
\* ends, but after a read that came short, and where a full chunk had no newline
\* and what was never assigned was taken for STOP.
THEOREM LoadIsComplete == Spec => []CompleteUnlessErr
<1>1. Init => R!SeesTheEnd
    <2> SUFFICES ASSUME Init PROVE R!SeesTheEnd
        OBVIOUS
    <2>1. R!Init
        BY SameActions DEF Init
    <2> QED
        BY <2>1, LinesAssumption, R!SeesInit DEF R!CONTINUE, R!STOP
<1>2. LoadInv /\ R!SeesTheEnd /\ [Next]_vars => R!SeesTheEnd'
    <2> SUFFICES ASSUME LoadInv, R!SeesTheEnd, [Next]_vars PROVE R!SeesTheEnd'
        OBVIOUS
    <2>1. R!IInv /\ [R!Next]_(R!vars)
        BY ReaderSteps DEF LoadInv
    <2> QED
        BY <2>1, LinesAssumption, R!SeesNext DEF R!CONTINUE, R!STOP
<1>3. LoadInv /\ LinePerNewline /\ R!SeesTheEnd => CompleteUnlessErr
    <2> SUFFICES ASSUME LoadInv, LinePerNewline, R!SeesTheEnd, at = "success", ctx_err = 0,
                        R!Lines!NewlinesLeft = {}
                 PROVE  num_elements = Cardinality({n \in 1..Len(file) : file[n] = NL})
        <3> SUFFICES ASSUME LoadInv, R!SeesTheEnd, at = "success", ctx_err = 0
                     PROVE  \/ R!Lines!NewlinesLeft = {}
                            \/ ReadFaults /\ eof /\ fpos < Len(file)
                            \/ R!STOP \in UnsetReads /\ fill_ret = R!Unset
                               /\ Len(chunk) = ChunkSize /\ NL \notin ToSet(chunk)
            BY DEF CompleteUnlessErr, R!STOP, Reader!STOP, R!Unset, Reader!Unset
        <3>1. fill_ret # R!STOP /\ R!IInv
            BY DEF LoadInv, ErrorsStop
        <3>2. R!SuccessIsComplete
            BY <3>1, LinesAssumption, R!SeesAll DEF R!CONTINUE, R!STOP
        <3> QED
            BY <3>1, <3>2 DEF R!SuccessIsComplete, R!ToSet, ToSet
    <2>1. fill_ret # R!STOP /\ R!IInv /\ num_elements = Len(delivered) + 0
        BY DEF LoadInv, ErrorsStop, SymbolPerLine
    <2>2. fpos \in 0..Len(file) /\ Len(file) \in Nat
        BY <2>1 DEF R!IInv, R!TypeOK
    <2>3. R!LineStart \in Nat /\ R!LineStart <= Len(file) /\ Len(file) \in Nat
        <3>1. /\ R!LineStart = fpos - Len(R!Ahead) - Len(R!Pending)
              /\ Len(R!Pending) \in Nat /\ Len(R!Ahead) \in Nat /\ fpos \in Nat
            BY <2>1, LinesAssumption, R!Shape DEF R!CONTINUE, R!STOP, R!IInv
        <3>2. R!LineStart \in Nat
            BY <2>1 DEF R!IInv
        <3> QED
            BY <2>2, <3>1, <3>2
    <2> DEFINE start == R!LineStart
    <2>4. {n \in (start + 1)..Len(file) : file[n] = NL} = {}
        BY DEF R!Lines!NewlinesLeft
    <2>5. start \in Nat /\ start <= Len(file) /\ Len(file) \in Nat
        BY <2>3
    <2>6. Len(delivered) = Cardinality({n \in 1..start : file[n] = NL})
        BY DEF LinePerNewline
    <2> HIDE DEF start
    <2>7. {n \in 1..Len(file) : file[n] = NL} = {n \in 1..start : file[n] = NL}
        BY <2>4, <2>5
    <2>8. Len(delivered) + 0 = Len(delivered)
        <3>1. Len(delivered) \in Nat
            <4>1. delivered \in Seq(Seq(Char \ {NL}))
                BY <2>1 DEF R!IInv, R!TypeOK
            <4> QED
                BY <4>1, LenProperties
        <3> QED
            BY <3>1
    <2> QED
        BY <2>1, <2>6, <2>7, <2>8
<1> QED
    BY <1>1, <1>2, <1>3, CountInit, CountNext, LoadInvariant, PTL DEF Spec

\* What is proved of the line reader holds of it within the load, where the
\* callback's answers are those of filereader_iter_symbol_lines: the lines of
\* the file are parsed one by one, in order and unchanged.
THEOREM LoadGivesLines == Spec => R!GivesLines
<1>1. Init => R!Lines!Init
    <2>1. Init => R!Init
        BY SameActions DEF Init
    <2> QED
        BY <2>1, LinesAssumption, R!GivesInit DEF R!CONTINUE, R!STOP
<1>2. LoadInv /\ [Next]_vars => [R!Lines!Next]_(R!Lines!vars)
    <2> SUFFICES ASSUME LoadInv, [Next]_vars PROVE [R!Lines!Next]_(R!Lines!vars)
        OBVIOUS
    <2>1. R!IInv /\ [R!Next]_(R!vars)
        BY ReaderSteps DEF LoadInv
    <2> QED
        BY <2>1, LinesAssumption, R!GivesNext DEF R!CONTINUE, R!STOP
<1> QED
    BY <1>1, <1>2, LoadInvariant, PTL DEF Spec, R!GivesLines, R!Lines!Spec
=============================================================================
