---------------------------- MODULE LineSource -----------------------------
(***************************************************************************)
(* What iterating over the lines of a text promises: the lines that a      *)
(* newline ends are given one by one, in order, each exactly once and      *)
(* unchanged; the iteration ends complete, when no such line is left, or   *)
(* short.                                                                  *)
(***************************************************************************)
EXTENDS Naturals, Sequences

CONSTANT NL       \* the character that ends a line

VARIABLES
    text,         \* the characters of the text, never changed
    start,        \* where the next line starts
    given,        \* the lines given so far
    outcome       \* "open", then "complete" or "short"

vars == <<text, start, given, outcome>>

\* The places of the newlines that are left.
NewlinesLeft == {n \in (start + 1)..Len(text) : text[n] = NL}

Init ==
    /\ start = 0
    /\ given = << >>
    /\ outcome = "open"

GiveLine ==
    /\ outcome = "open"
    /\ \E n \in NewlinesLeft :
          /\ \A m \in NewlinesLeft : n <= m
          /\ given' = Append(given, SubSeq(text, start + 1, n - 1))
          /\ start' = n
    /\ UNCHANGED <<text, outcome>>

Complete ==
    /\ outcome = "open"
    /\ NewlinesLeft = {}
    /\ outcome' = "complete"
    /\ UNCHANGED <<text, start, given>>

StopShort ==
    /\ outcome = "open"
    /\ outcome' = "short"
    /\ UNCHANGED <<text, start, given>>

Next == GiveLine \/ Complete \/ StopShort

Spec == Init /\ [][Next]_vars
=============================================================================
