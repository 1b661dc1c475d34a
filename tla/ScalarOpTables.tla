--------------------------- MODULE ScalarOpTables ---------------------------
(***************************************************************************)
(* How the scalar operations get into the program: vc4_scalar_op_gen.py    *)
(* writes a header with the operations' numbers and a source with the      *)
(* table of their names from vc4_scalar_op.in, and make builds vc4dump.    *)
(* The generator and make may be stopped between any two steps.            *)
(*                                                                         *)
(* Of the objects, "table" is vc4_scalar_op_table.o and "uses"             *)
(* vc4_instructions.o, which has compiled in the numbers of two operations.*)
(***************************************************************************)
EXTENDS SequencesExt

CONSTANTS
    Orders,    \* what vc4_scalar_op.in may hold
    Used,      \* the operations that vc4_instructions.c uses by number
    None,      \* a file that is not there
    Broken     \* text that is no C: a table that ends in the middle

ASSUME OrdersAssumption ==
    \A o \in Orders : o \in Seq(STRING) /\ IsInjective(o) /\ Used \subseteq ToSet(o)

ASSUME UsedAssumption == Used # {}

ASSUME NoOrderAssumption == None \notin Orders /\ Broken \notin Orders /\ None # << >>

VARIABLES
    input,     \* vc4_scalar_op.in
    file,      \* the generated "header" and "source": names in order, Broken, None
    gen,       \* the generator's next step: <<file, step>>, or << >>
    complete,  \* whether its last run came to its end
    dir,       \* whether build/ is there
    objs,      \* build/: what was compiled into "table" and "uses"
    upToDate,  \* the objects newer than their .c
    bin,       \* vc4dump: the objects linked
    linked,    \* whether vc4dump is newer than the objects
    make,      \* make's next step, or "idle"
    status     \* how make ended, "none" since something else was run

genVars  == <<input, file, gen, complete>>
makeVars == <<dir, objs, upToDate, bin, linked, make, status>>
vars == <<genVars, makeVars>>

Files == {"header", "source"}
Objects == {"table", "uses"}

Idle == gen = << >> /\ make = "idle"

\* The repository as it is cloned: both files are there, build/ is not.
Init ==
    /\ input \in Orders
    /\ file = [f \in Files |-> input]
    /\ gen = << >> /\ complete = TRUE
    /\ dir = FALSE
    /\ objs = [o \in Objects |-> None]
    /\ upToDate = {}
    /\ bin = None /\ linked = FALSE
    /\ make = "idle" /\ status = "none"

-----------------------------------------------------------------------------
\* main: get_table_from_input, then the header.
RunGenerator ==
    /\ Idle
    /\ \E o \in Orders : input' = o
    /\ gen' = <<"header", "remove">>
    /\ complete' = FALSE
    /\ status' = "none"
    /\ UNCHANGED <<file, dir, objs, upToDate, bin, linked, make>>

\* A bug to check the properties against: a source that is written again keeps
\* its old date.
TouchBug(f) == upToDate' = upToDate

\* Writing the source makes the table's object out of date.
Touch(f) == upToDate' = IF f = "source" THEN upToDate \ {"table"} ELSE upToDate

\* init_file: os.remove, then open(fname, 'x').
RemoveFile(f) ==
    /\ gen = <<f, "remove">>
    /\ file' = [file EXCEPT ![f] = None]
    /\ gen' = <<f, "open">>
    /\ UNCHANGED <<input, complete, makeVars>>

OpenFile(f) ==
    /\ gen = <<f, "open">>
    /\ file' = [file EXCEPT ![f] = << >>]
    /\ gen' = <<f, "write">>
    /\ Touch(f)
    /\ UNCHANGED <<input, complete, dir, objs, bin, linked, make, status>>

\* A bug to check the properties against: the file is not begun again.
WriteFileBug(f) ==
    /\ gen = <<f, "write">>
    /\ file' = [file EXCEPT ![f] = SubSeq(input, 1, 1)]
    /\ Touch(f)
    /\ gen' = IF f = "header" THEN <<"source", "remove">> ELSE << >>
    /\ complete' = (f = "source")
    /\ UNCHANGED <<input, dir, objs, bin, linked, make, status>>

\* gen_table_header, gen_table_source: the text is buffered, and written when
\* the file is closed after them.
WriteFile(f) ==
    /\ gen = <<f, "write">>
    /\ file' = [file EXCEPT ![f] = input]
    /\ Touch(f)
    /\ gen' = IF f = "header" THEN <<"source", "remove">> ELSE << >>
    /\ complete' = (f = "source")
    /\ UNCHANGED <<input, dir, objs, bin, linked, make, status>>

\* The generator is interrupted; what it has buffered may still be written.
StopGenerator ==
    /\ gen # << >>
    /\ gen' = << >>
    /\ \/ UNCHANGED <<file, upToDate>>
       \/ /\ gen = <<"header", "write">>
          /\ \E n \in 0..Len(input) : file' = [file EXCEPT !["header"] = SubSeq(input, 1, n)]
          /\ UNCHANGED upToDate
       \/ /\ gen = <<"source", "write">>
          /\ file' = [file EXCEPT !["source"] = Broken]
          /\ Touch("source")
    /\ UNCHANGED <<input, complete, dir, objs, bin, linked, make, status>>

-----------------------------------------------------------------------------
\* mkdir build, which nothing in the repository does.
MakeDirectory ==
    /\ Idle /\ ~dir
    /\ dir' = TRUE
    /\ status' = "none"
    /\ UNCHANGED <<genVars, objs, upToDate, bin, linked, make>>

\* make clean: rm *.o vc4dump; the objects are in build/ and stay.
Clean ==
    /\ Idle
    /\ bin' = None /\ linked' = FALSE
    /\ status' = "none"
    /\ UNCHANGED <<genVars, dir, objs, upToDate, make>>

StartMake ==
    /\ Idle
    /\ make' = "table" /\ status' = "none"
    /\ UNCHANGED <<genVars, dir, objs, upToDate, bin, linked>>

\* The order in which make builds what vc4dump is linked from.
Following == [table |-> "uses", uses |-> "link"]

\* A bug to check the properties against: the rule has no prerequisite.
NeededBug(o) == objs[o] = None

\* build/%.o: %.c.  An object without its .c is taken as it is.
Needed(o) == o \notin upToDate /\ ~(o = "table" /\ file["source"] = None /\ objs[o] # None)

\* What gcc makes of a .c, if it can: vc4_instructions.c needs the numbers of
\* the operations it uses, and every .c that includes the header needs it.
Compiled(o) ==
    IF o = "table" THEN file["source"]
    ELSE [op \in Used |-> CHOOSE n \in 1..Len(file["header"]) : file["header"][n] = op]

Compilable(o) ==
    /\ dir
    /\ file["header"] # None
    /\ IF o = "table" THEN file["source"] # None ELSE Used \subseteq ToSet(file["header"])

Compile(o) ==
    /\ make = o
    /\ make' = Following[o]
    /\ IF Needed(o)
       THEN /\ Compilable(o)
            /\ objs' = [objs EXCEPT ![o] = Compiled(o)]
            /\ upToDate' = upToDate \cup {o}
            /\ linked' = FALSE
       ELSE UNCHANGED <<objs, upToDate, linked>>
    /\ UNCHANGED <<genVars, dir, bin, status>>

\* The function that returns the table is written after the table.
Linkable == objs["table"] \notin {Broken, << >>}

Link ==
    /\ make = "link"
    /\ linked \/ Linkable
    /\ bin' = IF linked THEN bin ELSE objs
    /\ linked' = TRUE
    /\ make' = "idle" /\ status' = "ok"
    /\ UNCHANGED <<genVars, dir, objs, upToDate>>

\* A command fails (gcc may reject a broken source, or the link does).
MakeFails ==
    /\ \/ \E o \in Objects : make = o /\ Needed(o) /\ ~Compilable(o)
       \/ make = "table" /\ Needed("table") /\ file["source"] = Broken
       \/ make = "link" /\ ~linked /\ ~Linkable
    /\ make' = "idle" /\ status' = "failed"
    /\ UNCHANGED <<genVars, dir, objs, upToDate, bin, linked>>

StopMake ==
    /\ make # "idle"
    /\ make' = "idle"
    /\ UNCHANGED <<genVars, dir, objs, upToDate, bin, linked, status>>

Next ==
    \/ RunGenerator \/ StopGenerator
    \/ \E f \in Files : RemoveFile(f) \/ OpenFile(f) \/ WriteFile(f)
    \/ MakeDirectory \/ Clean \/ StartMake \/ Link \/ MakeFails \/ StopMake
    \/ \E o \in Objects : Compile(o)

Spec == Init /\ [][Next]_vars

-----------------------------------------------------------------------------
\* vc4_get_scalar_op(n)->name; past the table there is no name.
NameOf(table, n) == IF n \in DOMAIN table THEN table[n] ELSE None

\* In the program the number of an operation finds its name.
Agrees == \A op \in Used : NameOf(bin["table"], bin["uses"][op]) = op

\* Each variable has its type, and a source is whole, broken, begun or missing.
TypeOK ==
    /\ input \in Orders
    /\ DOMAIN file = Files
    /\ file["header"] = None \/ file["header"] \in Seq(STRING)
    /\ file["source"] \in Orders \cup {None, Broken, << >>}
    /\ gen \in {<< >>} \cup Files \X {"remove", "open", "write"}
    /\ {complete, dir, linked} \subseteq BOOLEAN
    /\ DOMAIN objs = Objects
    /\ objs["table"] \in Orders \cup {None, Broken, << >>}
    /\ upToDate \subseteq Objects
    /\ make \in Objects \cup {"idle", "link"}
    /\ status \in {"none", "ok", "failed"}

\* A run of the generator that comes to its end leaves two files that agree,
\* whatever earlier runs left behind (vc4_scalar_op_gen.py:12-57).
RerunRepairs ==
    complete => file["header"] = input /\ file["source"] = input

\* vc4dump never holds a part of a table or numbers from a part of a header,
\* wherever the generator and make were stopped (Makefile:17-21).
NothingHalfBuilt ==
    bin # None =>
        /\ bin["table"] \in Orders
        /\ \E o \in Orders : \A op \in Used : NameOf(o, bin["uses"][op]) = op

\* After a make that succeeds the names are those on disk, and only numbers
\* compiled from an older header can miss them (Makefile:17).
OnlyNumbersAreStale ==
    status = "ok" /\ complete =>
        /\ bin["table"] = file["source"]
        /\ bin["uses"] = Compiled("uses") => Agrees

\* Whatever was stopped before, make builds again once the generator has run to
\* its end and build/ is there, and it never builds where nobody made build/
\* (Makefile:17-21).
BuildRecovers ==
    /\ status = "failed" => ~dir \/ ~complete
    /\ status = "ok" => dir

\* As README.md:41-44 has it, make builds what was cloned: it does not fail with
\* the generated files as the repository has them.  It does (Makefile:17-18).
CloneBuilds == status = "failed" => \E f \in Files : file[f] # input
=============================================================================
