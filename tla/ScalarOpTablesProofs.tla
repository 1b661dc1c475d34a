------------------------ MODULE ScalarOpTablesProofs ------------------------
(***************************************************************************)
(* ScalarOpTables for every vc4_scalar_op.in and any number of runs of the *)
(* generator and of make, stopped anywhere.                                *)
(***************************************************************************)
EXTENDS ScalarOpTables, TLAPS

\* u holds the numbers of the operations in use in one order.
Numbered(u) == \E o \in Orders : \A op \in Used : NameOf(o, u[op]) = op

\* A header is the beginning of the operations of one order.
HeaderBegins ==
    file["header"] # None =>
        \E o \in Orders : \E n \in 0..Len(o) : file["header"] = SubSeq(o, 1, n)

\* An object counts as up to date only with what its source holds.
ObjectsFollow ==
    /\ "table" \in upToDate => objs["table"] # None /\ file["source"] \in {None, objs["table"]}
    /\ "uses" \in upToDate => Numbered(objs["uses"])

\* Objects are new only where build/ is.
ObjectsInDir == upToDate # {} => dir

\* What make relies on when it comes to its later steps.
MakeOrder ==
    /\ make \in {"uses", "link"} =>
          objs["table"] # None /\ (file["source"] = None \/ "table" \in upToDate)
    /\ make = "link" => "uses" \in upToDate

\* The generator and make exclude each other.
OneAtATime ==
    /\ gen # << >> => make = "idle" /\ status = "none"
    /\ complete => gen = << >>

\* What a make that succeeded leaves.
Built ==
    /\ linked => bin = objs
    /\ status = "ok" => /\ linked /\ make = "idle"
                        /\ file["source"] = None \/ "table" \in upToDate

\* The source is written when the header is.
SourceFollows == gen \in {"source"} \X {"remove", "open", "write"} => file["header"] = input

IInv == /\ TypeOK /\ RerunRepairs /\ NothingHalfBuilt /\ BuildRecovers
        /\ HeaderBegins /\ ObjectsFollow /\ ObjectsInDir /\ MakeOrder /\ OneAtATime /\ Built
        /\ SourceFollows

-----------------------------------------------------------------------------
\* The generator's steps differ from each other and from not running.
LEMMA StepsDiffer ==
    /\ \A f, s : <<f, s>> # << >>
    /\ \A f, s, g, t : <<f, s>> = <<g, t>> => f = g /\ s = t
OBVIOUS

LEMMA InitInv == Init => IInv
<1> SUFFICES ASSUME Init PROVE IInv
    OBVIOUS
<1>1. TypeOK
    BY OrdersAssumption DEF Init, TypeOK, Files, Objects
<1>2. HeaderBegins
    <2>1. input \in Orders /\ file["header"] = input
        BY DEF Init, Files
    <2>2. input \in Seq(STRING)
        BY <2>1, OrdersAssumption
    <2>3. input = SubSeq(input, 1, Len(input)) /\ Len(input) \in 0..Len(input)
        BY <2>2
    <2> QED
        BY <2>1, <2>3 DEF HeaderBegins
<1> QED
    BY <1>1, <1>2 DEF Init, IInv, RerunRepairs, NothingHalfBuilt, BuildRecovers, ObjectsInDir,
       ObjectsFollow, MakeOrder, OneAtATime, Built, SourceFollows, Files, Objects

-----------------------------------------------------------------------------
\* The generator's steps.

LEMMA RunGeneratorInv == ASSUME IInv, RunGenerator PROVE IInv'
<1> USE DEF IInv, RunGenerator, Idle
<1>1. TypeOK'
    BY DEF TypeOK, Files, Objects
<1>2. RerunRepairs' /\ BuildRecovers' /\ ObjectsInDir' /\ HeaderBegins' /\ MakeOrder' /\ OneAtATime'
    BY DEF RerunRepairs, BuildRecovers, ObjectsInDir, HeaderBegins, MakeOrder, OneAtATime
<1>3. NothingHalfBuilt'
    BY DEF NothingHalfBuilt, NameOf
<1>4. ObjectsFollow' /\ Built'
    BY DEF ObjectsFollow, Built, Numbered, NameOf
<1>5. SourceFollows'
    BY StepsDiffer DEF SourceFollows
<1> QED
    BY <1>1, <1>2, <1>3, <1>4, <1>5

\* While the generator runs, make does not, and the run is not complete.
LEMMA Running == ASSUME IInv, gen # << >> PROVE make = "idle" /\ status = "none" /\ ~complete
BY DEF IInv, OneAtATime

LEMMA RemoveFileInv == ASSUME NEW f \in Files, IInv, RemoveFile(f) PROVE IInv'
<1> USE DEF IInv, RemoveFile, makeVars
<1>1. make = "idle" /\ status = "none" /\ ~complete
    BY Running, StepsDiffer
<1>2. TypeOK'
    BY DEF TypeOK, Files, Objects
<1>3. RerunRepairs' /\ BuildRecovers' /\ ObjectsInDir' /\ MakeOrder' /\ OneAtATime' /\ Built'
    BY <1>1 DEF RerunRepairs, BuildRecovers, ObjectsInDir, MakeOrder, OneAtATime, Built
<1>4. HeaderBegins'
    BY DEF HeaderBegins, TypeOK, Files
<1>5. ObjectsFollow'
    BY DEF ObjectsFollow, TypeOK, Files, Numbered, NameOf
<1>6. NothingHalfBuilt'
    BY DEF NothingHalfBuilt, NameOf
<1>7. SourceFollows'
    BY StepsDiffer DEF SourceFollows, TypeOK, Files
<1> QED
    BY <1>2, <1>3, <1>4, <1>5, <1>6, <1>7

LEMMA OpenFileInv == ASSUME NEW f \in Files, IInv, OpenFile(f) PROVE IInv'
<1> USE DEF IInv, OpenFile, Touch
<1>1. make = "idle" /\ status = "none" /\ ~complete
    BY Running, StepsDiffer
<1>2. TypeOK'
    <2>1. gen' \in {<< >>} \cup Files \X {"remove", "open", "write"}
        OBVIOUS
    <2>2. file' = [file EXCEPT ![f] = << >>] /\ f \in {"header", "source"}
        BY DEF Files
    <2>3. << >> \in Seq(STRING)
        OBVIOUS
    <2>4. upToDate' \subseteq Objects
        BY DEF TypeOK
    <2> QED
        BY <2>1, <2>2, <2>3, <2>4 DEF TypeOK, Files
<1>3. RerunRepairs' /\ BuildRecovers' /\ ObjectsInDir' /\ MakeOrder' /\ OneAtATime' /\ Built'
    BY <1>1 DEF RerunRepairs, BuildRecovers, ObjectsInDir, MakeOrder, OneAtATime, Built
<1>4. HeaderBegins'
    <2>1. CASE f = "source"
        BY <2>1 DEF HeaderBegins, TypeOK, Files
    <2>2. CASE f = "header"
        <3>1. input \in Orders /\ input \in Seq(STRING)
            BY OrdersAssumption DEF TypeOK
        <3>2. SubSeq(input, 1, 0) = << >> /\ 0 \in 0..Len(input)
            BY <3>1
        <3>3. file'["header"] = << >>
            BY <2>2 DEF TypeOK, Files
        <3> QED
            BY <3>1, <3>2, <3>3 DEF HeaderBegins
    <2> QED
        BY <2>1, <2>2 DEF Files
<1>5. ObjectsFollow'
    BY DEF ObjectsFollow, TypeOK, Files, Numbered, NameOf
<1>6. NothingHalfBuilt'
    BY DEF NothingHalfBuilt, NameOf
<1>7. SourceFollows'
    BY StepsDiffer DEF SourceFollows, TypeOK, Files
<1> QED
    BY <1>2, <1>3, <1>4, <1>5, <1>6, <1>7

LEMMA WriteFileInv == ASSUME NEW f \in Files, IInv, WriteFile(f) PROVE IInv'
<1> USE DEF IInv, WriteFile, Touch
<1>1. make = "idle" /\ status = "none" /\ ~complete
    BY Running, StepsDiffer
<1>2. input \in Orders /\ input \in Seq(STRING)
    BY OrdersAssumption DEF TypeOK
<1>3. TypeOK'
    <2>1. gen' \in {<< >>} \cup Files \X {"remove", "open", "write"}
        BY DEF Files
    <2>2. file' = [file EXCEPT ![f] = input] /\ f \in {"header", "source"}
        BY DEF Files
    <2>3. upToDate' \subseteq Objects
        BY DEF TypeOK
    <2> QED
        BY <1>2, <2>1, <2>2, <2>3 DEF TypeOK, Files
<1>4. RerunRepairs'
    <2>1. CASE f = "header"
        BY <1>1, <2>1 DEF RerunRepairs
    <2>2. CASE f = "source"
        <3>1. gen # << >> /\ gen = <<"source", "write">>
            BY <2>2, StepsDiffer
        <3>2. file["header"] = input
            BY <3>1 DEF SourceFollows
        <3> QED
            BY <2>2, <3>2 DEF RerunRepairs, TypeOK, Files
    <2> QED
        BY <2>1, <2>2 DEF Files
<1>5. BuildRecovers' /\ ObjectsInDir' /\ MakeOrder' /\ OneAtATime' /\ Built'
    BY <1>1 DEF BuildRecovers, ObjectsInDir, MakeOrder, OneAtATime, Built, Files
<1>6. HeaderBegins'
    <2>1. CASE f = "source"
        BY <2>1 DEF HeaderBegins, TypeOK, Files
    <2>2. CASE f = "header"
        <3>1. input = SubSeq(input, 1, Len(input)) /\ Len(input) \in 0..Len(input)
            BY <1>2
        <3>2. file'["header"] = input
            BY <2>2 DEF TypeOK, Files
        <3> QED
            BY <1>2, <3>1, <3>2 DEF HeaderBegins
    <2> QED
        BY <2>1, <2>2 DEF Files
<1>7. ObjectsFollow'
    BY DEF ObjectsFollow, TypeOK, Files, Numbered, NameOf
<1>8. NothingHalfBuilt'
    BY DEF NothingHalfBuilt, NameOf
<1>9. SourceFollows'
    <2>1. CASE f = "header"
        BY <2>1 DEF SourceFollows, TypeOK, Files
    <2>2. CASE f = "source"
        BY <2>2, StepsDiffer DEF SourceFollows, Files
    <2> QED
        BY <2>1, <2>2 DEF Files
<1> QED
    BY <1>3, <1>4, <1>5, <1>6, <1>7, <1>8, <1>9

LEMMA StopGeneratorInv == ASSUME IInv, StopGenerator PROVE IInv'
<1> USE DEF IInv, StopGenerator
<1>1. make = "idle" /\ status = "none" /\ ~complete
    BY Running
<1>2. /\ RerunRepairs' /\ BuildRecovers' /\ ObjectsInDir' /\ MakeOrder' /\ OneAtATime'
      /\ Built' /\ SourceFollows'
    BY <1>1, StepsDiffer DEF RerunRepairs, BuildRecovers, ObjectsInDir, MakeOrder, OneAtATime,
       Built, SourceFollows, Touch
<1>3. NothingHalfBuilt'
    BY DEF NothingHalfBuilt, NameOf
<1>4. CASE UNCHANGED <<file, upToDate>>
    <2>1. TypeOK' /\ HeaderBegins'
        BY <1>4 DEF TypeOK, HeaderBegins, Files, Objects
    <2>2. ObjectsFollow'
        BY <1>4 DEF ObjectsFollow, Numbered, NameOf
    <2> QED
        BY <1>2, <1>3, <2>1, <2>2
<1>5. CASE /\ \E n \in 0..Len(input) : file' = [file EXCEPT !["header"] = SubSeq(input, 1, n)]
           /\ UNCHANGED upToDate
    <2>1. PICK n \in 0..Len(input) : file' = [file EXCEPT !["header"] = SubSeq(input, 1, n)]
        BY <1>5
    <2>2. input \in Orders /\ input \in Seq(STRING)
        BY OrdersAssumption DEF TypeOK
    <2>3. SubSeq(input, 1, n) \in Seq(STRING)
        BY <2>1, <2>2
    <2>4. TypeOK'
        BY <1>5, <2>1, <2>3 DEF TypeOK, Files
    <2>5. HeaderBegins'
        BY <2>1, <2>2 DEF HeaderBegins, TypeOK, Files
    <2>6. ObjectsFollow'
        BY <1>5, <2>1 DEF ObjectsFollow, TypeOK, Files, Numbered, NameOf
    <2> QED
        BY <1>2, <1>3, <2>4, <2>5, <2>6
<1>6. CASE file' = [file EXCEPT !["source"] = Broken] /\ Touch("source")
    <2> USE DEF Touch
    <2>1. TypeOK'
        BY <1>6 DEF TypeOK, Files, Objects
    <2>2. HeaderBegins'
        BY <1>6 DEF HeaderBegins, TypeOK, Files
    <2>3. ObjectsFollow'
        BY <1>6 DEF ObjectsFollow, TypeOK, Files, Numbered, NameOf
    <2> QED
        BY <1>2, <1>3, <2>1, <2>2, <2>3
<1> QED
    BY <1>4, <1>5, <1>6

-----------------------------------------------------------------------------
\* The steps around make.

LEMMA OutsideInv == ASSUME IInv, MakeDirectory \/ Clean \/ StartMake \/ StopMake PROVE IInv'
<1> USE DEF IInv, MakeDirectory, Clean, StartMake, StopMake, Idle, genVars
<1>1. TypeOK'
    BY DEF TypeOK, Objects
<1>2. RerunRepairs' /\ HeaderBegins' /\ MakeOrder' /\ OneAtATime' /\ SourceFollows'
    BY DEF RerunRepairs, HeaderBegins, MakeOrder, OneAtATime, SourceFollows
<1>3. Built' /\ BuildRecovers' /\ ObjectsInDir'
    BY DEF Built, BuildRecovers, ObjectsInDir
<1>4. ObjectsFollow'
    BY DEF ObjectsFollow, Numbered, NameOf
<1>5. NothingHalfBuilt'
    BY DEF NothingHalfBuilt, NameOf
<1> QED
    BY <1>1, <1>2, <1>3, <1>4, <1>5

-----------------------------------------------------------------------------
\* The steps of make.

\* A header that holds the operations in use numbers them as one order does.
LEMMA CompiledNumbered ==
    ASSUME IInv, file["header"] # None, Used \subseteq ToSet(file["header"])
    PROVE  Numbered(Compiled("uses"))
<1>1. PICK o \in Orders : \E n \in 0..Len(o) : file["header"] = SubSeq(o, 1, n)
    BY DEF IInv, HeaderBegins
<1>2. PICK n \in 0..Len(o) : file["header"] = SubSeq(o, 1, n)
    BY <1>1
<1>3. o \in Seq(STRING)
    BY OrdersAssumption
<1>4. /\ Len(file["header"]) = n
      /\ \A k \in 1..n : file["header"][k] = o[k]
    BY <1>2, <1>3
<1>5. ASSUME NEW op \in Used PROVE NameOf(o, Compiled("uses")[op]) = op
    <2>1. \E k \in 1..n : file["header"][k] = op
        BY <1>2, <1>3, <1>4 DEF ToSet
    <2> DEFINE k == CHOOSE k \in 1..Len(file["header"]) : file["header"][k] = op
    <2>2. k \in 1..n /\ file["header"][k] = op
        BY <1>4, <2>1
    <2>3. k \in DOMAIN o /\ o[k] = op
        <3> HIDE DEF k
        <3>1. o[k] = op
            BY <1>4, <2>2
        <3>2. k \in 1..Len(o)
            BY <1>2, <1>3, <2>2
        <3> QED
            BY <1>3, <3>1, <3>2
    <2>4. Compiled("uses")[op] = k
        BY DEF Compiled
    <2> QED
        BY <2>3, <2>4 DEF NameOf
<1> QED
    BY <1>5 DEF Numbered

LEMMA CompileInv == ASSUME NEW o \in Objects, IInv, Compile(o) PROVE IInv'
<1> USE DEF IInv, Compile, genVars
<1>1. gen = << >>
    BY StepsDiffer DEF OneAtATime, Objects
<1>2. status # "ok" /\ make' = Following[o] /\ make' \in {"uses", "link"}
    BY DEF Built, Objects, Following
<1>3. TypeOK'
    <2>1. CASE Needed(o)
        <3>1. o = "table" => Compiled(o) \in Orders \cup {None, Broken, << >>}
            BY DEF Compiled, TypeOK
        <3> QED
            BY <1>2, <2>1, <3>1 DEF TypeOK, Objects
    <2>2. CASE ~Needed(o)
        BY <1>2, <2>2 DEF TypeOK, Objects
    <2> QED
        BY <2>1, <2>2
<1>4. /\ RerunRepairs' /\ BuildRecovers' /\ ObjectsInDir' /\ HeaderBegins' /\ OneAtATime'
      /\ SourceFollows'
    BY <1>1, <1>2 DEF RerunRepairs, BuildRecovers, ObjectsInDir, HeaderBegins, OneAtATime,
       SourceFollows, Compilable
<1>5. NothingHalfBuilt'
    BY DEF NothingHalfBuilt, NameOf
<1>6. Built'
    BY <1>2 DEF Built
<1>7. ObjectsFollow'
    <2>1. CASE ~Needed(o)
        BY <2>1 DEF ObjectsFollow, Numbered, NameOf
    <2>2. CASE Needed(o) /\ o = "table"
        BY <2>2 DEF ObjectsFollow, TypeOK, Objects, Compilable, Compiled, Numbered, NameOf
    <2>3. CASE Needed(o) /\ o = "uses"
        <3>1. Numbered(objs'["uses"])
            BY <2>3, CompiledNumbered DEF Compilable, TypeOK, Objects
        <3>2. objs'["table"] = objs["table"] /\ ("table" \in upToDate' => "table" \in upToDate)
            BY <2>3 DEF TypeOK, Objects
        <3> QED
            BY <3>1, <3>2 DEF ObjectsFollow, Numbered, NameOf
    <2> QED
        BY <2>1, <2>2, <2>3 DEF Objects
<1>8. MakeOrder'
    <2>1. CASE o = "table"
        <3>1. make' = "uses"
            BY <2>1 DEF Following
        <3>2. CASE ~Needed(o)
            BY <2>1, <3>1, <3>2 DEF Needed, MakeOrder, ObjectsFollow
        <3>3. CASE Needed(o)
            BY <2>1, <3>1, <3>3 DEF MakeOrder, Compilable, Compiled, TypeOK, Objects
        <3> QED
            BY <3>2, <3>3
    <2>2. CASE o = "uses"
        <3>1. make' = "link" /\ "uses" \in upToDate'
            BY <2>2 DEF Following, Needed
        <3>2. objs'["table"] = objs["table"] /\ ("table" \in upToDate => "table" \in upToDate')
            BY <2>2 DEF TypeOK, Objects
        <3> QED
            BY <2>2, <3>1, <3>2 DEF MakeOrder
    <2> QED
        BY <2>1, <2>2 DEF Objects
<1> QED
    BY <1>3, <1>4, <1>5, <1>6, <1>7, <1>8

LEMMA LinkInv == ASSUME IInv, Link PROVE IInv'
<1> USE DEF IInv, Link, genVars
<1>1. gen = << >>
    BY DEF OneAtATime
<1>2. TypeOK'
    BY DEF TypeOK
<1>3. /\ RerunRepairs' /\ BuildRecovers' /\ ObjectsInDir' /\ HeaderBegins' /\ OneAtATime'
      /\ SourceFollows' /\ MakeOrder'
    BY <1>1 DEF RerunRepairs, BuildRecovers, ObjectsInDir, HeaderBegins, OneAtATime,
       SourceFollows, MakeOrder
<1>4. ObjectsFollow'
    BY DEF ObjectsFollow, Numbered, NameOf
<1>5. Built'
    <2>1. bin' = objs
        BY DEF Built
    <2>2. file["source"] = None \/ "table" \in upToDate
        BY DEF MakeOrder
    <2> QED
        BY <2>1, <2>2 DEF Built
<1>6. NothingHalfBuilt'
    <2>1. CASE linked
        BY <2>1 DEF NothingHalfBuilt, NameOf
    <2>2. CASE ~linked
        <3>1. objs["table"] \in Orders
            BY <2>2 DEF Linkable, TypeOK, MakeOrder
        <3>2. Numbered(objs["uses"])
            BY DEF MakeOrder, ObjectsFollow
        <3> QED
            BY <2>2, <3>1, <3>2 DEF NothingHalfBuilt, Numbered, NameOf
    <2> QED
        BY <2>1, <2>2
<1> QED
    BY <1>2, <1>3, <1>4, <1>5, <1>6

LEMMA MakeFailsInv == ASSUME IInv, MakeFails PROVE IInv'
<1> USE DEF IInv, MakeFails, genVars
<1>1. gen = << >>
    BY StepsDiffer DEF OneAtATime, Objects
<1>2. TypeOK'
    BY DEF TypeOK
<1>3. /\ RerunRepairs' /\ HeaderBegins' /\ OneAtATime' /\ SourceFollows' /\ MakeOrder'
      /\ Built' /\ ObjectsInDir'
    BY <1>1 DEF RerunRepairs, HeaderBegins, OneAtATime, SourceFollows, MakeOrder, Built,
       ObjectsInDir
<1>4. ObjectsFollow'
    BY DEF ObjectsFollow, Numbered, NameOf
<1>5. NothingHalfBuilt'
    BY DEF NothingHalfBuilt, NameOf
<1>6. BuildRecovers'
    <2> SUFFICES ASSUME dir, complete PROVE FALSE
        BY DEF BuildRecovers
    <2>1. /\ input \in Orders /\ input # None /\ input # Broken
          /\ Used \subseteq ToSet(input) /\ input # << >>
        <3>1. ToSet(<< >>) = {}
            BY DEF ToSet
        <3> QED
            BY <3>1, OrdersAssumption, UsedAssumption, NoOrderAssumption DEF TypeOK
    <2>2. file["header"] = input /\ file["source"] = input
        BY DEF RerunRepairs
    <2>3. \A o \in Objects : Compilable(o)
        BY <2>1, <2>2 DEF Compilable
    <2>4. make = "link" => Linkable
        BY <2>1, <2>2 DEF MakeOrder, ObjectsFollow, Linkable
    <2> QED
        BY <2>1, <2>2, <2>3, <2>4
<1> QED
    BY <1>2, <1>3, <1>4, <1>5, <1>6

-----------------------------------------------------------------------------
LEMMA NextInv == IInv /\ [Next]_vars => IInv'
<1> SUFFICES ASSUME IInv, [Next]_vars PROVE IInv'
    OBVIOUS
<1>1. CASE UNCHANGED vars
    BY <1>1 DEF vars, genVars, makeVars, IInv, TypeOK, RerunRepairs, NothingHalfBuilt,
       BuildRecovers, ObjectsInDir, HeaderBegins, ObjectsFollow, MakeOrder, OneAtATime, Built,
       SourceFollows, Numbered, NameOf
<1>2. CASE RunGenerator \/ StopGenerator
    BY <1>2, RunGeneratorInv, StopGeneratorInv
<1>3. CASE \E f \in Files : RemoveFile(f) \/ OpenFile(f) \/ WriteFile(f)
    BY <1>3, RemoveFileInv, OpenFileInv, WriteFileInv
<1>4. CASE MakeDirectory \/ Clean \/ StartMake \/ StopMake
    BY <1>4, OutsideInv
<1>5. CASE Link \/ MakeFails
    BY <1>5, LinkInv, MakeFailsInv
<1>6. CASE \E o \in Objects : Compile(o)
    BY <1>6, CompileInv
<1> QED
    BY <1>1, <1>2, <1>3, <1>4, <1>5, <1>6 DEF Next

\* IInv holds in every reachable state.
THEOREM Invariant == Spec => []IInv
BY InitInv, NextInv, PTL DEF Spec

\* Every variable keeps its type (the generator and the Makefile).
THEOREM TypeCorrect == Spec => []TypeOK
<1>1. IInv => TypeOK
    BY DEF IInv
<1> QED
    BY <1>1, Invariant, PTL

\* A run of the generator that comes to its end leaves two files that agree,
\* whatever earlier runs left (vc4_scalar_op_gen.py:12-57).
THEOREM RunsRepair == Spec => []RerunRepairs
<1>1. IInv => RerunRepairs
    BY DEF IInv
<1> QED
    BY <1>1, Invariant, PTL

\* No part of a table and no number of a part of a header is ever linked.
THEOREM NeverHalfBuilt == Spec => []NothingHalfBuilt
<1>1. IInv => NothingHalfBuilt
    BY DEF IInv
<1> QED
    BY <1>1, Invariant, PTL

\* With build/ there, a complete run of the generator lets make build again;
\* without it make never builds.
THEOREM MakeRecovers == Spec => []BuildRecovers
<1>1. IInv => BuildRecovers
    BY DEF IInv
<1> QED
    BY <1>1, Invariant, PTL

\* What make built agrees with the files but for numbers of an older header.
THEOREM NumbersOnly == Spec => []OnlyNumbersAreStale
<1>1. IInv => OnlyNumbersAreStale
    <2> SUFFICES ASSUME IInv, status = "ok", complete
                 PROVE  /\ bin["table"] = file["source"]
                        /\ bin["uses"] = Compiled("uses") => Agrees
        BY DEF OnlyNumbersAreStale
    <2>1. input \in Orders /\ input # None /\ file["header"] = input /\ file["source"] = input
        BY NoOrderAssumption DEF IInv, RerunRepairs, TypeOK
    <2>2. bin = objs /\ objs["table"] = file["source"]
        BY <2>1 DEF IInv, Built, ObjectsFollow
    <2>3. ASSUME bin["uses"] = Compiled("uses"), NEW op \in Used
          PROVE  NameOf(bin["table"], bin["uses"][op]) = op
        <3>1. input \in Seq(STRING) /\ op \in ToSet(input)
            BY <2>1, OrdersAssumption
        <3>2. \E k \in 1..Len(input) : input[k] = op
            BY <3>1 DEF ToSet
        <3>3. Compiled("uses")[op] = CHOOSE k \in 1..Len(input) : input[k] = op
            BY <2>1 DEF Compiled
        <3> DEFINE k == CHOOSE k \in 1..Len(input) : input[k] = op
        <3>4. k \in 1..Len(input) /\ input[k] = op
            BY <3>2
        <3> QED
            BY <2>1, <2>2, <2>3, <3>1, <3>3, <3>4 DEF NameOf
    <2> QED
        BY <2>2, <2>3 DEF Agrees
<1> QED
    BY <1>1, Invariant, PTL
=============================================================================
