------------------------- MODULE SymbolTableProofs -------------------------
(***************************************************************************)
(* Proofs about SymbolTable, for every initial size from 3 on, every bound *)
(* on the number of symbols and every choice of blocks by malloc.          *)
(***************************************************************************)
EXTENDS SymbolTable, WellFoundedInduction, SequenceTheorems, TLAPS

-----------------------------------------------------------------------------
(***************************************************************************)
(* Growth, and the effect of the calls on the array.                       *)
(***************************************************************************)
\* A growth makes room, from 2 cells on.
LEMMA GrownIsLarger ==
    ASSUME NEW n \in Nat, n >= 2
    PROVE  Grown(n) \in Nat /\ Grown(n) > n
BY DEF Grown

\* Where the places of a smaller array are in a larger one.
LEMMA PlacesWithin ==
    ASSUME NEW m \in Nat, NEW n \in Nat, n < m
    PROVE  /\ n \in 0..(m - 1)
           /\ \A i \in 0..(n - 1) : i \in 0..(m - 1) /\ i # n /\ i < n
OBVIOUS

\* A nonempty set of naturals has a least element.
LEMMA LeastExists ==
    ASSUME NEW S \in SUBSET Nat, S # {}
    PROVE  \E x \in S : \A y \in S : x <= y
<1> DEFINE R == OpToRel(<, Nat)
<1>1. \E x \in S : \A y \in S : ~(<<y, x>> \in R)
    <2>1. IsWellFoundedOn(R, Nat)
        BY NatLessThanWellFounded
    <2> HIDE DEF R
    <2> QED
        BY <2>1, WFMin, Zenon
<1>2. \A x, y \in Nat : y < x => <<y, x>> \in R
    BY SMT DEF OpToRel
<1> HIDE DEF R
<1>3. \A x, y \in Nat : y < x \/ x <= y
    BY SMT
<1> QED
    BY <1>1, <1>2, <1>3

-----------------------------------------------------------------------------
(***************************************************************************)
(* The inductive invariant.                                                *)
(***************************************************************************)
\* What the control state says of the fields: a table that is not created is
\* all zeroes; a created one without an array is the remains of a refused
\* growth, in which max_elements has already grown.
Stages ==
    /\ state = "zeroed" =>
          /\ data = NULL /\ DOMAIN heap = {}
          /\ num_elements = 0 /\ max_elements = 0 /\ found = NoPointer
    /\ state # "zeroed" => max_elements >= InitSize
    /\ state # "zeroed" /\ data = NULL =>
          num_elements >= InitSize /\ num_elements < max_elements

\* What was found is in the table, whatever array it was found in: growing
\* copies every symbol to the same index.
FoundInTable ==
    found # NoPointer /\ data # NULL =>
        found.index < num_elements /\ heap[data][found.index] = found.sym

IInv ==
    TypeOK /\ FieldsAgree /\ FaultOnlyWithoutArray /\ Stages /\ FoundInTable

LEMMA InitIInv == Init => IInv
BY NullAssumption, SizeAssumption
   DEF Init, IInv, TypeOK, FieldsAgree, FaultOnlyWithoutArray, Stages,
       FoundInTable, NoPointer

\* symbol_table_add stores at a cell of its array, and only there.
LEMMA AddStores ==
    ASSUME IInv, NEW sym \in Symbol, Add(sym), data # NULL
    PROVE  /\ num_elements < max_elements /\ num_elements' = num_elements + 1
           /\ heap' = [heap EXCEPT ![data][num_elements] = sym]
           /\ UNCHANGED <<data, max_elements, found, state>>
<1>1. /\ DOMAIN heap[data] = 0..(max_elements - 1)
      /\ num_elements \in Nat /\ max_elements \in Nat /\ num_elements < max_elements
      /\ max_elements >= 3
    BY SizeAssumption DEF IInv, TypeOK, FieldsAgree, Stages, Add
<1>2. Writable(heap[data], num_elements)
    BY <1>1 DEF Writable
<1> QED
    BY <1>1, <1>2 DEF Add

\* A growth replaces the array by a larger one with the same symbols and one
\* more; the old array is given back.
LEMMA GrowingStores ==
    ASSUME IInv, NEW sym \in Symbol, AddGrowing(sym)
    PROVE  /\ data # NULL /\ data \in Block /\ data' \in Block
           /\ num_elements' = num_elements + 1
           /\ num_elements < max_elements'
           /\ max_elements' \in Nat /\ max_elements' > max_elements
           /\ DOMAIN heap' = {data'}
           /\ heap'[data'] = [i \in 0..(max_elements' - 1) |->
                                 IF i = num_elements THEN sym
                                 ELSE IF i < num_elements THEN heap[data][i] ELSE Junk]
           /\ UNCHANGED <<found, state>>
<1>1. /\ num_elements \in Nat /\ max_elements \in Nat /\ max_elements >= 3
      /\ num_elements = max_elements /\ state = "ready" /\ data # NULL
      /\ data \in Block /\ DOMAIN heap = {data}
    BY SizeAssumption DEF IInv, TypeOK, FieldsAgree, Stages, AddGrowing
<1>2. max_elements' = Grown(max_elements) /\ max_elements' \in Nat
      /\ max_elements' > max_elements
    BY <1>1, GrownIsLarger DEF AddGrowing
<1> DEFINE copied == [i \in 0..(max_elements' - 1) |->
                         IF i < num_elements THEN heap[data][i] ELSE Junk]
<1>3. Writable(copied, num_elements)
    BY <1>1, <1>2 DEF Writable
<1>4. PICK b \in Fresh :
          /\ data' = b
          /\ heap' = Replaced(data, b, [copied EXCEPT ![num_elements] = sym])
          /\ num_elements' = num_elements + 1
          /\ UNCHANGED state
    BY <1>3 DEF AddGrowing
<1>5. b \in Block /\ b # data
    BY <1>1 DEF Fresh
<1>6. DOMAIN heap' = {b} /\ heap'[b] = [copied EXCEPT ![num_elements] = sym]
    BY <1>1, <1>4, <1>5, Zenon DEF Replaced
<1>7. [copied EXCEPT ![num_elements] = sym] =
          [i \in 0..(max_elements' - 1) |->
              IF i = num_elements THEN sym
              ELSE IF i < num_elements THEN heap[data][i] ELSE Junk]
    BY <1>1, <1>2
<1> QED
    BY <1>1, <1>2, <1>4, <1>5, <1>6, <1>7 DEF AddGrowing

\* Every call keeps the invariant.
LEMMA NextIInv == IInv /\ [Next]_vars => IInv'
<1> SUFFICES ASSUME IInv, [Next]_vars
             PROVE  IInv'
    OBVIOUS
<1> USE NullAssumption, SizeAssumption
<1>1. CASE Create
    <2>1. /\ data = NULL /\ DOMAIN heap = {} /\ found = NoPointer /\ state = "zeroed"
        BY <1>1 DEF Create, IInv, Stages
    <2>2. PICK b \in Block :
              /\ heap' = Replaced(NULL, b, [i \in 0..(InitSize - 1) |-> Junk])
              /\ data' = b
        BY <1>1 DEF Create, Fresh
    <2>3. DOMAIN heap' = {b} /\ heap'[b] = [i \in 0..(InitSize - 1) |-> Junk]
        BY <2>1, <2>2, Zenon DEF Replaced
    <2>4. num_elements' = 0 /\ max_elements' = InitSize /\ state' = "ready"
          /\ found' = NoPointer
        BY <1>1, <2>1 DEF Create
    <2>5. /\ DOMAIN heap'[b] = 0..(InitSize - 1)
          /\ \A i \in 0..(InitSize - 1) : heap'[b][i] = Junk
        BY <2>3
    <2>6. TypeOK'
        BY <2>2, <2>3, <2>4, <2>5 DEF TypeOK
    <2>7. FieldsAgree'
        BY <2>2, <2>3, <2>4, <2>5, JunkAssumption DEF FieldsAgree
    <2>8. Stages'
        BY <2>2, <2>4 DEF Stages
    <2> QED
        BY <2>4, <2>6, <2>7, <2>8 DEF IInv, FaultOnlyWithoutArray, FoundInTable
<1>2. ASSUME NEW sym \in Symbol, Add(sym), data # NULL
      PROVE  IInv'
    <2>1. /\ num_elements < max_elements /\ num_elements' = num_elements + 1
          /\ heap' = [heap EXCEPT ![data][num_elements] = sym]
          /\ UNCHANGED <<data, max_elements, found, state>>
        BY <1>2, AddStores
    <2>2. /\ num_elements \in Nat /\ max_elements \in Nat
          /\ DOMAIN heap = {data} /\ data \in Block
          /\ DOMAIN heap[data] = 0..(max_elements - 1)
          /\ state = "ready"
        BY <1>2 DEF IInv, TypeOK, FieldsAgree, Add
    <2>3. /\ DOMAIN heap' = {data} /\ DOMAIN heap'[data] = 0..(max_elements - 1)
          /\ \A i \in 0..(max_elements - 1) :
                heap'[data][i] = IF i = num_elements THEN sym ELSE heap[data][i]
        BY <2>1, <2>2
    <2>4. TypeOK'
        BY <2>1, <2>2, <2>3 DEF IInv, TypeOK
    <2>5. FieldsAgree'
        BY <2>1, <2>2, <2>3 DEF IInv, FieldsAgree
    <2>6. FoundInTable'
        BY <1>2, <2>1, <2>2, <2>3 DEF IInv, FoundInTable, TypeOK, NoPointer
    <2> QED
        BY <1>2, <2>1, <2>2, <2>3, <2>4, <2>5, <2>6
           DEF IInv, FaultOnlyWithoutArray, Stages
<1>3. ASSUME NEW sym \in Symbol, Add(sym), data = NULL
      PROVE  IInv'
    <2>1. /\ state' = "fault" /\ state = "ready"
          /\ UNCHANGED <<heap, data, num_elements, max_elements, found>>
        BY <1>3 DEF Add
    <2> QED
        BY <1>3, <2>1
           DEF IInv, TypeOK, FieldsAgree, FaultOnlyWithoutArray, Stages, FoundInTable
<1>4. ASSUME NEW sym \in Symbol, AddGrowing(sym)
      PROVE  IInv'
    <2>1. /\ data # NULL /\ data \in Block /\ data' \in Block
          /\ num_elements' = num_elements + 1
          /\ num_elements < max_elements'
          /\ max_elements' \in Nat /\ max_elements' > max_elements
          /\ DOMAIN heap' = {data'}
          /\ heap'[data'] = [i \in 0..(max_elements' - 1) |->
                                 IF i = num_elements THEN sym
                                 ELSE IF i < num_elements THEN heap[data][i] ELSE Junk]
          /\ UNCHANGED <<found, state>>
        BY <1>4, GrowingStores
    <2>2. /\ num_elements \in Nat /\ max_elements \in Nat /\ state = "ready"
          /\ num_elements = max_elements
          /\ \A i \in 0..(num_elements - 1) : heap[data][i] \in Symbol
        BY <1>4, <2>1 DEF IInv, TypeOK, FieldsAgree, AddGrowing
    <2>3. /\ DOMAIN heap'[data'] = 0..(max_elements' - 1)
          /\ \A i \in 0..(max_elements' - 1) :
                heap'[data'][i] = IF i = num_elements THEN sym
                                  ELSE IF i < num_elements THEN heap[data][i] ELSE Junk
        BY <2>1
    <2>4. TypeOK'
        BY <2>1, <2>2, <2>3 DEF IInv, TypeOK
    <2>5. FieldsAgree'
        BY <2>1, <2>2, <2>3, JunkAssumption DEF FieldsAgree
    <2>6. FoundInTable'
        BY <2>1, <2>2, <2>3 DEF IInv, FoundInTable, TypeOK, NoPointer
    <2> QED
        BY <2>1, <2>2, <2>4, <2>5, <2>6 DEF IInv, FaultOnlyWithoutArray, Stages
<1>5. CASE GrowthFails
    <2>1. /\ max_elements \in Nat /\ max_elements >= InitSize
          /\ num_elements = max_elements /\ state = "ready"
        BY <1>5 DEF GrowthFails, IInv, TypeOK, Stages
    <2>2. max_elements' \in Nat /\ max_elements' > max_elements
        BY <1>5, <2>1, GrownIsLarger DEF GrowthFails
    <2>3. data' = NULL /\ UNCHANGED <<heap, num_elements, found, state>>
        BY <1>5 DEF GrowthFails
    <2> QED
        BY <2>1, <2>2, <2>3
           DEF IInv, TypeOK, FieldsAgree, FaultOnlyWithoutArray, Stages, FoundInTable
<1>6. CASE AddSimpleOverruns
    BY <1>6 DEF AddSimpleOverruns, IInv, TypeOK, FieldsAgree, FaultOnlyWithoutArray,
                Stages, FoundInTable
<1>7. ASSUME NEW hits \in SUBSET Places, LookUp(hits), Walkable
      PROVE  IInv'
    <2>1. UNCHANGED <<heap, data, num_elements, max_elements, state>>
        BY <1>7 DEF LookUp
    <2>2. CASE hits = {}
        BY <1>7, <2>1, <2>2
           DEF LookUp, IInv, TypeOK, FieldsAgree, FaultOnlyWithoutArray, Stages,
               FoundInTable
    <2>3. CASE hits # {}
        <3>1. num_elements \in Nat /\ hits \in SUBSET Nat
            BY DEF IInv, TypeOK, Places
        <3>2. PICK i \in hits : found' = Pointer(i)
            BY <1>7, <2>3, <3>1, LeastExists, Zenon DEF LookUp
        <3>3. i \in 0..(num_elements - 1) /\ num_elements # 0 /\ data # NULL
            BY <1>7, <3>1, <3>2 DEF Places, Walkable
        <3>4. heap[data][i] \in Symbol /\ data \in Block
            BY <3>1, <3>3 DEF IInv, FieldsAgree, TypeOK
        <3>5. found' = [block |-> data, index |-> i, sym |-> heap[data][i]]
            BY <3>2 DEF Pointer
        <3>6. state # "zeroed"
            BY <3>3 DEF IInv, Stages
        <3> QED
            BY <2>1, <3>1, <3>3, <3>4, <3>5, <3>6
               DEF IInv, TypeOK, FieldsAgree, FaultOnlyWithoutArray, Stages,
                   FoundInTable
    <2> QED
        BY <2>2, <2>3
<1>8. CASE WalkFaults
    BY <1>8 DEF WalkFaults, Running, Walkable, IInv, TypeOK, FieldsAgree,
                FaultOnlyWithoutArray, Stages, FoundInTable
<1>9. CASE UNCHANGED vars
    BY <1>9 DEF vars, IInv, TypeOK, FieldsAgree, FaultOnlyWithoutArray, Stages,
                FoundInTable, NoPointer
<1>10. CASE AddSymbol
    BY <1>2, <1>3, <1>4, <1>10 DEF AddSymbol
<1>11. CASE FindByName \/ FindSymbol
    BY <1>7, <1>11 DEF FindByName, FindSymbol
<1> QED
    BY <1>1, <1>5, <1>6, <1>8, <1>9, <1>10, <1>11 DEF Next, Stopped

\* The inductive invariant holds in every reachable state.
THEOREM Invariance == Spec => []IInv
BY InitIInv, NextIInv, PTL DEF Spec

\* The state stays within its types (symbol_table.c, every call).
THEOREM TypeCorrect == Spec => []TypeOK
<1>1. IInv => TypeOK
    BY DEF IInv
<1> QED
    BY <1>1, Invariance, PTL

\* num_elements, max_elements and the array agree after every call, and a
\* growth gives the old array back and nothing else.
THEOREM FieldsCorrect == Spec => []FieldsAgree
<1>1. IInv => FieldsAgree
    BY DEF IInv
<1> QED
    BY <1>1, Invariance, PTL

\* symbol_table_add never stores, and no lookup reads, outside the array of a
\* table that has one: 1.6 times the size is always enough for one more.
THEOREM NoFaultWithArray == Spec => []FaultOnlyWithoutArray
<1>1. IInv => FaultOnlyWithoutArray
    BY DEF IInv
<1> QED
    BY <1>1, Invariance, PTL

\* A pointer that a lookup returned is good as long as it is into the array.
THEOREM FoundIsGood == Spec => []FoundStays
<1>1. IInv => FoundStays
    BY NullAssumption DEF IInv, FoundInTable, FoundStays, TypeOK, NoPointer
<1> QED
    BY <1>1, Invariance, PTL

-----------------------------------------------------------------------------
(***************************************************************************)
(* SymbolTable implements SymbolList.                                      *)
(***************************************************************************)
LostNow == data = NULL /\ num_elements > 0

LEMMA ListInit == Init => List!Init
<1> SUFFICES ASSUME Init PROVE List!Init
    OBVIOUS
<1> QED
    BY DEF Init, List!Init, Contents, NoPointer

\* What the list does not see.
LEMMA ListStutter ==
    ASSUME UNCHANGED <<heap, data, num_elements, found>>
    PROVE  UNCHANGED List!vars
BY DEF List!vars, Contents

\* An addition with an array afterwards appends to the contents.
LEMMA AddAppends ==
    ASSUME IInv, NEW sym \in Symbol, data # NULL, data' # NULL,
           num_elements' = num_elements + 1, UNCHANGED found,
           heap'[data'][num_elements] = sym,
           \A i \in 0..(num_elements - 1) : heap'[data'][i] = heap[data][i]
    PROVE  List!Add
<1>1. num_elements \in Nat
    BY DEF IInv, TypeOK
<1>2. /\ Contents = [k \in 1..num_elements |-> heap[data][k - 1]]
      /\ Contents' = [k \in 1..(num_elements + 1) |-> heap'[data'][k - 1]]
    BY DEF Contents
<1>3. \A k \in 1..num_elements : heap[data][k - 1] \in Symbol
    BY <1>1 DEF IInv, TypeOK, FieldsAgree
<1>4. Contents \in Seq(Symbol) /\ Len(Contents) = num_elements
    BY <1>1, <1>2, <1>3, SMT
<1>5. /\ Append(Contents, sym) \in Seq(Symbol)
      /\ Len(Append(Contents, sym)) = num_elements + 1
      /\ \A k \in 1..(num_elements + 1) :
            Append(Contents, sym)[k] =
                IF k = num_elements + 1 THEN sym ELSE Contents[k]
    BY <1>1, <1>4, AppendProperties
<1>6. Contents' = [k \in 1..(num_elements + 1) |-> Append(Contents, sym)[k]]
    <2>1. \A k \in 1..(num_elements + 1) :
              heap'[data'][k - 1] = Append(Contents, sym)[k]
        <3> SUFFICES ASSUME NEW k \in 1..(num_elements + 1)
                     PROVE  heap'[data'][k - 1] = Append(Contents, sym)[k]
            OBVIOUS
        <3>1. CASE k = num_elements + 1
            BY <1>1, <1>5, <3>1
        <3>2. CASE k # num_elements + 1
            <4>1. k \in 1..num_elements /\ k - 1 \in 0..(num_elements - 1)
                BY <1>1, <3>2
            <4> QED
                BY <1>2, <1>5, <3>2, <4>1
        <3> QED
            BY <3>1, <3>2
    <2> QED
        BY <1>2, <2>1
<1>7. Contents' = Append(Contents, sym)
    <2>1. Append(Contents, sym) \in [1..(num_elements + 1) -> Symbol]
        BY <1>5, LenProperties
    <2> QED
        BY <1>6, <2>1
<1> QED
    BY <1>7 DEF List!Add

\* A lookup answers with the earliest match.
LEMMA LookUpAnswers ==
    ASSUME IInv, Walkable, NEW hits \in SUBSET Places, LookUp(hits),
           NEW places, places = {i + 1 : i \in hits}
    PROVE  /\ List!Answer(places)
           /\ UNCHANGED <<Contents, LostNow>>
<1>1. UNCHANGED <<heap, data, num_elements>>
    BY DEF LookUp
<1>2. UNCHANGED <<Contents, LostNow>>
    BY <1>1 DEF Contents, LostNow
<1>3. CASE hits = {}
    BY <1>3, <1>2 DEF LookUp, List!Answer, NoPointer
<1>4. CASE hits # {}
    <2>1. num_elements \in Nat /\ hits \in SUBSET Nat
        BY DEF IInv, TypeOK, Places
    <2>2. PICK i \in hits : found' = Pointer(i) /\ \A j \in hits : i <= j
        BY <1>4, <2>1, LeastExists, Zenon DEF LookUp
    <2>3. i \in 0..(num_elements - 1) /\ data # NULL
        BY <2>1, <2>2 DEF Places, Walkable
    <2>4. Contents[i + 1] = heap[data][i]
        BY <2>1, <2>3 DEF Contents
    <2>5. found'.sym = Contents[i + 1]
        BY <2>2, <2>4 DEF Pointer
    <2>6. i + 1 \in places /\ \A j \in places : i + 1 <= j
        BY <2>1, <2>2
    <2> QED
        BY <1>2, <2>5, <2>6 DEF List!Answer, List!Earliest
<1> QED
    BY <1>2, <1>3, <1>4

\* The table's places, counted from 0, and the list's, from 1.
LEMMA ContentsByPlace ==
    ASSUME IInv, Walkable
    PROVE  /\ num_elements \in Nat
           /\ DOMAIN Contents = 1..num_elements
           /\ \A k \in 1..num_elements : Contents[k] = heap[data][k - 1]
BY DEF IInv, TypeOK, Walkable, Contents

LEMMA ListNext == IInv /\ [Next]_vars => [List!Next]_(List!vars)
<1> SUFFICES ASSUME IInv, [Next]_vars
             PROVE  [List!Next]_(List!vars)
    OBVIOUS
<1>1. CASE Create
    <2>1. data = NULL /\ num_elements = 0
        BY <1>1 DEF Create, IInv, Stages
    <2>2. num_elements' = 0 /\ UNCHANGED found
        BY <1>1, <2>1 DEF Create
    <2>3. Contents = << >> /\ Contents' = << >>
        BY <2>1, <2>2 DEF Contents
    <2> QED
        BY <2>1, <2>2, <2>3 DEF List!vars
<1>2. ASSUME NEW sym \in Symbol, Add(sym), data # NULL
      PROVE  List!Add
    <2>1. /\ num_elements < max_elements /\ num_elements' = num_elements + 1
          /\ heap' = [heap EXCEPT ![data][num_elements] = sym]
          /\ UNCHANGED <<data, found>>
        BY <1>2, AddStores
    <2>2. /\ num_elements \in Nat /\ max_elements \in Nat /\ data \in DOMAIN heap
          /\ DOMAIN heap[data] = 0..(max_elements - 1)
        BY <1>2 DEF IInv, TypeOK, FieldsAgree
    <2>3. \A i \in 0..(max_elements - 1) :
              heap'[data'][i] = IF i = num_elements THEN sym ELSE heap[data][i]
        BY <2>1, <2>2
    <2> QED
        BY <1>2, <2>1, <2>2, <2>3, AddAppends
<1>3. ASSUME NEW sym \in Symbol, Add(sym), data = NULL
      PROVE  UNCHANGED List!vars
    BY <1>3, ListStutter DEF Add
<1>4. ASSUME NEW sym \in Symbol, AddGrowing(sym)
      PROVE  List!Add
    <2>1. /\ data # NULL /\ data' # NULL
          /\ num_elements' = num_elements + 1 /\ UNCHANGED found
          /\ num_elements < max_elements' /\ max_elements' \in Nat
          /\ heap'[data'] = [i \in 0..(max_elements' - 1) |->
                                 IF i = num_elements THEN sym
                                 ELSE IF i < num_elements THEN heap[data][i] ELSE Junk]
        BY <1>4, GrowingStores, NullAssumption
    <2>2. /\ num_elements \in Nat /\ max_elements' \in Nat
          /\ num_elements < max_elements'
        BY <2>1, Zenon DEF IInv, TypeOK
    <2>3. \A i \in 0..(max_elements' - 1) :
              heap'[data'][i] = IF i = num_elements THEN sym
                                ELSE IF i < num_elements THEN heap[data][i] ELSE Junk
        BY <2>1
    <2>4. /\ heap'[data'][num_elements] = sym
          /\ \A i \in 0..(num_elements - 1) : heap'[data'][i] = heap[data][i]
        <3>1. num_elements \in 0..(max_elements' - 1)
            BY <2>2, PlacesWithin, Zenon
        <3>2. \A i \in 0..(num_elements - 1) :
                  i \in 0..(max_elements' - 1) /\ i # num_elements /\ i < num_elements
            BY <2>2, PlacesWithin, Zenon
        <3> QED
            BY <2>3, <3>1, <3>2, Zenon
    <2> QED
        BY <2>1, <2>4, AddAppends
<1>5. CASE GrowthFails
    <2>1. /\ Faults /\ data' = NULL /\ UNCHANGED <<num_elements, found>>
          /\ state = "ready" /\ num_elements = max_elements
        BY <1>5 DEF GrowthFails
    <2>2. num_elements \in Nat /\ num_elements > 0 /\ data # NULL
        BY <2>1, SizeAssumption DEF IInv, TypeOK, Stages
    <2>3. Contents' = << >>
        BY <2>1 DEF Contents
    <2> QED
        BY <2>1, <2>2, <2>3 DEF List!Next, List!GiveUp
<1>6. CASE AddSimpleOverruns \/ WalkFaults
    BY <1>6, ListStutter DEF AddSimpleOverruns, WalkFaults
<1>7. CASE FindByName
    <2>1. PICK name \in Name : LookUp({i \in Places : heap[data][i].name = name})
        BY <1>7 DEF FindByName
    <2> DEFINE hits == {i \in Places : heap[data][i].name = name}
               places == {k \in DOMAIN Contents : Contents[k].name = name}
    <2>2. Walkable /\ ~LostNow
        BY <1>7 DEF FindByName, Walkable, LostNow
    <2>3. places = {i + 1 : i \in hits}
        BY <2>2, ContentsByPlace DEF Places
    <2>4. List!Answer(places) /\ UNCHANGED <<Contents, LostNow>>
        BY <2>1, <2>2, <2>3, LookUpAnswers
    <2> QED
        BY <2>2, <2>4 DEF LostNow, List!Next, List!LookUp
<1>8. CASE FindSymbol
    <2>1. PICK addr \in Addr : LookUp({i \in Places : heap[data][i].addr = addr})
        BY <1>8 DEF FindSymbol
    <2> DEFINE hits == {i \in Places : heap[data][i].addr = addr}
               places == {k \in DOMAIN Contents : Contents[k].addr = addr}
    <2>2. Walkable /\ ~LostNow
        BY <1>8 DEF FindSymbol, Walkable, LostNow
    <2>3. places = {i + 1 : i \in hits}
        BY <2>2, ContentsByPlace DEF Places
    <2>4. List!Answer(places) /\ UNCHANGED <<Contents, LostNow>>
        BY <2>1, <2>2, <2>3, LookUpAnswers
    <2> QED
        BY <2>2, <2>4 DEF LostNow, List!Next, List!LookUp
<1>9. CASE UNCHANGED vars
    BY <1>9, ListStutter DEF vars
<1>10. CASE AddSymbol
    BY <1>2, <1>3, <1>4, <1>10 DEF AddSymbol, List!Next
<1> QED
    BY <1>1, <1>5, <1>6, <1>7, <1>8, <1>9, <1>10 DEF Next, Stopped

\* However often it grows, the table holds the symbols that were added, in
\* their order, and lookups answer as a walk through that list does.
THEOREM Implements == Spec => KeepsSymbols
<1>1. Spec => List!Spec
    BY ListInit, ListNext, Invariance, PTL DEF Spec, List!Spec
<1> QED
    BY <1>1 DEF KeepsSymbols
=============================================================================
