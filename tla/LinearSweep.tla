---------------------------- MODULE LinearSweep ----------------------------
(***************************************************************************)
(* What a linear-sweep disassembler promises, whatever its instruction     *)
(* set: the rows it lists tile the code image from its first halfword,     *)
(* without a gap or an overlap, each as long as its first halfword says,   *)
(* and, unless the environment refuses a call, it goes on until what is    *)
(* left cannot hold a whole instruction.  Offsets and lengths are counted  *)
(* in halfwords.                                                           *)
(***************************************************************************)
EXTENDS Naturals, Sequences

CONSTANTS
    Length(_),   \* the number of halfwords of the instruction a word starts
    EarlyStop    \* TRUE when the environment may end the sweep at any time

VARIABLES
    image,       \* the halfwords of the code image, never changed
    cursor,      \* where the next row starts
    rows,        \* the rows listed so far
    closed       \* whether the sweep has ended

vars == <<image, cursor, rows, closed>>

\* A whole instruction is left at the cursor.
MoreRows ==
    /\ cursor < Len(image)
    /\ cursor + Length(image[cursor + 1]) <= Len(image)

Init ==
    /\ cursor = 0
    /\ rows = << >>
    /\ closed = FALSE

ListRow ==
    /\ ~closed
    /\ MoreRows
    /\ LET n == Length(image[cursor + 1])
       IN  /\ rows' = Append(rows, [start |-> cursor, length |-> n])
           /\ cursor' = cursor + n
    /\ UNCHANGED <<image, closed>>

Close ==
    /\ ~closed
    /\ EarlyStop \/ ~MoreRows
    /\ closed' = TRUE
    /\ UNCHANGED <<image, cursor, rows>>

Next == ListRow \/ Close

Spec == Init /\ [][Next]_vars
=============================================================================
