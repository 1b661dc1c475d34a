----------------------------- MODULE SymbolList ----------------------------
(***************************************************************************)
(* What a symbol table promises: symbols are kept in the order in which    *)
(* they were added, whatever their number, until an addition is refused    *)
(* and the list is given up; a lookup is answered with the first symbol    *)
(* that has the name or the address.                                       *)
(***************************************************************************)
EXTENDS Naturals, Sequences

CONSTANTS
    Name, Addr,
    Symbol,    \* records with a name and an addr
    NoSymbol,  \* the answer when there is none
    MayRefuse  \* TRUE when memory may be refused

VARIABLES
    symbols,   \* the symbols added
    lost,      \* TRUE when the list was given up
    answer     \* the last lookup's

vars == <<symbols, lost, answer>>

Init ==
    /\ symbols = << >>
    /\ lost = FALSE
    /\ answer = NoSymbol

Add ==
    /\ ~lost
    /\ \E sym \in Symbol : symbols' = Append(symbols, sym)
    /\ UNCHANGED <<lost, answer>>

GiveUp ==
    /\ MayRefuse
    /\ ~lost
    /\ lost' = TRUE
    /\ symbols' = << >>
    /\ UNCHANGED answer

\* k is the first of the places in hits.
Earliest(k, hits) == k \in hits /\ \A j \in hits : k <= j

Answer(hits) ==
    \/ hits = {} /\ answer' = NoSymbol
    \/ \E k \in hits : Earliest(k, hits) /\ answer' = symbols[k]

LookUp ==
    /\ ~lost
    /\ \/ \E name \in Name :
             Answer({k \in DOMAIN symbols : symbols[k].name = name})
       \/ \E addr \in Addr :
             Answer({k \in DOMAIN symbols : symbols[k].addr = addr})
    /\ UNCHANGED <<symbols, lost>>

Next == Add \/ GiveUp \/ LookUp

Spec == Init /\ [][Next]_vars
=============================================================================
