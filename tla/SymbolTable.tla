---------------------------- MODULE SymbolTable ----------------------------
(***************************************************************************)
(* symbol_table.c: an array of symbols on the heap that grows by 1.6 when  *)
(* it is full, and the calls that add to it and walk through it.           *)
(*                                                                         *)
(* The heap is a function from the blocks in use to their cells, so that   *)
(* what the code relies on can be said: an index within its block, a block *)
(* not given back, a pointer kept across a growth.  Of a symbol the model  *)
(* keeps the two fields that lookups compare.  A call that reads or writes *)
(* where there is no cell has no defined result; it ends the model in      *)
(* state = "fault", and in "overrun" when it is the name that goes past    *)
(* its field.                                                              *)
(***************************************************************************)
EXTENDS Integers, Sequences

CONSTANTS
    Name, Addr,   \* names and addresses of symbols
    LongName,     \* the names of MAX_SYMBOL_NAME_SIZE characters or more
    InitSize,     \* SYMBOL_TABLE_INIT_SIZE, 8
    MaxSymbols,   \* a bound of the model, not of the code: symbols added
    Block,        \* where malloc may find memory
    NULL,         \* what it returns when it finds none
    Junk,         \* a cell of a block nothing was written to
    Faults        \* TRUE when malloc may find none

ASSUME NameAssumption == LongName \subseteq Name
ASSUME SizeAssumption == InitSize \in Nat /\ InitSize >= 3 /\ MaxSymbols \in Nat
ASSUME NullAssumption == NULL \notin Block
ASSUME FaultsAssumption == Faults \in BOOLEAN

Symbol == [name : Name \ LongName, addr : Addr]
ASSUME JunkAssumption == Junk \notin Symbol

VARIABLES
    heap,          \* the blocks in use, and what is in them
    data,          \* st->data
    num_elements,  \* st->num_elements
    max_elements,  \* st->max_elements
    found,         \* what the last lookup returned
    state          \* "zeroed", "ready"; "fault" and "overrun" end the model

vars == <<heap, data, num_elements, max_elements, found, state>>

\* NULL, or a pointer into an array; sym is what it pointed to.
NoPointer == [block |-> NULL, index |-> 0, sym |-> Junk]
Pointer(i) == [block |-> data, index |-> i, sym |-> heap[data][i]]

\* st->max_elements *= 1.6, in double and truncated.
GrownBug(n) == n + (n \div 8)
Grown(n) == (8 * n) \div 5

Fresh == Block \ DOMAIN heap

\* The heap after free(old) and malloc, with cells, of the block new.
Replaced(old, new, cells) ==
    [b \in (DOMAIN heap \ {old}) \cup {new} |-> IF b = new THEN cells ELSE heap[b]]

\* s = &st->data[num_elements] is a cell, and so is data[2], which the trace
\* of symbol_table_add prints.
Writable(array, n) == n \in DOMAIN array /\ 2 \in DOMAIN array

-----------------------------------------------------------------------------
Init ==
    /\ heap = [b \in {} |-> << >>]
    /\ data = NULL
    /\ num_elements = 0
    /\ max_elements = 0
    /\ found = NoPointer
    /\ state = "zeroed"

\* A bug to check the properties against: max_elements is one too many.
CreateBug ==
    /\ state = "zeroed"
    /\ \E b \in Fresh :
          /\ heap' = Replaced(NULL, b, [i \in 0..(InitSize - 1) |-> Junk])
          /\ data' = b
    /\ num_elements' = 0
    /\ max_elements' = InitSize + 1
    /\ state' = "ready"
    /\ UNCHANGED found

\* symbol_table_init, up to the reading of the file.  (When malloc fails the
\* table stays as it is, data being NULL.)
Create ==
    /\ state = "zeroed"
    /\ \E b \in Fresh :
          /\ heap' = Replaced(NULL, b, [i \in 0..(InitSize - 1) |-> Junk])
          /\ data' = b
    /\ num_elements' = 0
    /\ max_elements' = InitSize
    /\ state' = "ready"
    /\ UNCHANGED found

\* symbol_table_add where there is room.
Add(sym) ==
    /\ state = "ready"
    /\ num_elements < MaxSymbols
    /\ num_elements # max_elements
    /\ IF data # NULL /\ Writable(heap[data], num_elements)
       THEN /\ heap' = [heap EXCEPT ![data][num_elements] = sym]
            /\ num_elements' = num_elements + 1
            /\ UNCHANGED state
       ELSE /\ state' = "fault"
            /\ UNCHANGED <<heap, num_elements>>
    /\ UNCHANGED <<data, max_elements, found>>

\* A bug to check the properties against: the new array is freed.
AddGrowingBug(sym) ==
    /\ state = "ready"
    /\ num_elements < MaxSymbols
    /\ num_elements = max_elements
    /\ max_elements' = Grown(max_elements)
    /\ \E b \in Fresh :
          /\ data' = b
          /\ num_elements' = num_elements + 1
    /\ UNCHANGED heap
    /\ UNCHANGED <<found, state>>

\* A bug to check the properties against: the copy is backwards.
AddGrowingCopyBug(sym) ==
    /\ state = "ready"
    /\ num_elements < MaxSymbols
    /\ num_elements = max_elements
    /\ max_elements' = Grown(max_elements)
    /\ \E b \in Fresh :
          LET copied == [i \in 0..(max_elements' - 1) |->
                            IF i < num_elements THEN heap[data][num_elements - 1 - i]
                            ELSE Junk]
          IN  /\ data' = b
              /\ heap' = Replaced(data, b, [copied EXCEPT ![num_elements] = sym])
              /\ num_elements' = num_elements + 1
    /\ UNCHANGED <<found, state>>

\* symbol_table_add where there is none: malloc, copy, free, and store.
AddGrowing(sym) ==
    /\ state = "ready"
    /\ num_elements < MaxSymbols
    /\ num_elements = max_elements
    /\ max_elements' = Grown(max_elements)
    /\ \E b \in Fresh :
          LET copied == [i \in 0..(max_elements' - 1) |->
                            IF i < num_elements THEN heap[data][i] ELSE Junk]
          IN  /\ data' = b
              /\ IF Writable(copied, num_elements)
                 THEN /\ heap' = Replaced(data, b, [copied EXCEPT ![num_elements] = sym])
                      /\ num_elements' = num_elements + 1
                      /\ UNCHANGED state
                 ELSE /\ state' = "fault"
                      /\ heap' = Replaced(data, b, copied)
                      /\ UNCHANGED num_elements
    /\ UNCHANGED found

\* The malloc of a growth fails: -1, but max_elements has grown, data is NULL
\* and the old array is out of reach.
GrowthFails ==
    /\ Faults
    /\ state = "ready"
    /\ num_elements < MaxSymbols
    /\ num_elements = max_elements
    /\ max_elements' = Grown(max_elements)
    /\ data' = NULL
    /\ UNCHANGED <<heap, num_elements, found, state>>

\* symbol_table_add
AddSymbol == \E sym \in Symbol : Add(sym) \/ AddGrowing(sym)

\* symbol_table_add_simple's strcpy of a name that does not fit.  (With one
\* that fits, it is symbol_table_add.)
AddSimpleOverruns ==
    /\ LongName # {}
    /\ state = "ready"
    /\ state' = "overrun"
    /\ UNCHANGED <<heap, data, num_elements, max_elements, found>>

-----------------------------------------------------------------------------
\* A bug to check the properties against: the last symbol wins.
LookUpBug(hits) ==
    /\ found' = IF hits = {} THEN NoPointer
                ELSE Pointer(CHOOSE i \in hits : \A j \in hits : j <= i)
    /\ UNCHANGED <<heap, data, num_elements, max_elements, state>>

\* The first of the places where the walk meets what it looks for.
LookUp(hits) ==
    /\ found' = IF hits = {} THEN NoPointer
                ELSE Pointer(CHOOSE i \in hits : \A j \in hits : i <= j)
    /\ UNCHANGED <<heap, data, num_elements, max_elements, state>>

Places == 0..(num_elements - 1)

\* A walk over the elements reads each of them.
Walkable == num_elements = 0 \/ data # NULL
Running == state \in {"zeroed", "ready"}

\* symbol_table_find_by_name
FindByName ==
    /\ Running
    /\ Walkable
    /\ \E name \in Name : LookUp({i \in Places : heap[data][i].name = name})

\* symbol_table_find_symbol
FindSymbol ==
    /\ Running
    /\ Walkable
    /\ \E addr \in Addr : LookUp({i \in Places : heap[data][i].addr = addr})

\* Either of them, or symbol_table_printout, where data is NULL and
\* num_elements is not zero.
WalkFaults ==
    /\ Running
    /\ ~Walkable
    /\ state' = "fault"
    /\ UNCHANGED <<heap, data, num_elements, max_elements, found>>

Stopped == ~Running /\ UNCHANGED vars

Next ==
    \/ Create
    \/ AddSymbol \/ GrowthFails \/ AddSimpleOverruns
    \/ FindByName \/ FindSymbol \/ WalkFaults
    \/ Stopped

Spec == Init /\ [][Next]_vars

-----------------------------------------------------------------------------
TypeOK ==
    /\ DOMAIN heap \subseteq Block
    /\ \A b \in DOMAIN heap : \A i \in DOMAIN heap[b] :
          heap[b][i] \in Symbol \cup {Junk}
    /\ data \in DOMAIN heap \cup {NULL}
    /\ num_elements \in Nat
    /\ max_elements \in Nat
    /\ found = NoPointer \/ found \in [block : Block, index : Nat, sym : Symbol]
    /\ state \in {"zeroed", "ready", "fault", "overrun"}

\* The three fields of the table agree with the heap: as long as there is an
\* array it is the only block not given back, it has max_elements cells, and
\* exactly the first num_elements of them were written (symbol_table.c:70-80).
FieldsAgree ==
    data # NULL =>
        /\ DOMAIN heap = {data}
        /\ num_elements <= max_elements
        /\ DOMAIN heap[data] = 0..(max_elements - 1)
        /\ \A i \in 0..(max_elements - 1) :
              heap[data][i] \in Symbol <=> i < num_elements

\* The table never goes out of its array however often it grows: only a
\* table that a refused growth left without an array faults, by a walk or by
\* the next addition (symbol_table.c:71, 79, 81).
FaultOnlyWithoutArray ==
    state = "fault" => data = NULL /\ num_elements >= InitSize

\* A pointer that a lookup returned, and that is into the array the table has
\* now, also one that malloc returned again, still points to the symbol that
\* was found (symbol_table.c:76-77; print_abs_addr reads through it).
FoundStays ==
    found # NoPointer /\ found.block = data =>
        found.index < num_elements /\ heap[data][found.index] = found.sym

\* The symbols the table holds.
Contents ==
    IF data = NULL THEN << >> ELSE [k \in 1..num_elements |-> heap[data][k - 1]]

List == INSTANCE SymbolList WITH
    NoSymbol  <- Junk,
    MayRefuse <- Faults,
    symbols   <- Contents,
    lost      <- data = NULL /\ num_elements > 0,
    answer    <- found.sym

\* The table is the list of what was added: growing keeps every symbol in its
\* place, a refused growth gives up all of them, and lookups answer with the
\* first match (symbol_table.c:11-83).
KeepsSymbols == List!Spec
=============================================================================
