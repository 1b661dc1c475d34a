--------------------------- MODULE MCSymbolLoad ----------------------------
(***************************************************************************)
(* SymbolLoad on files of a few lines, written from symbols of several     *)
(* layouts, and on lines that the parser refuses.                          *)
(***************************************************************************)
EXTENDS SymbolLoad

MCChar == DigitsOf(16) \cup {"p", "S", "w", ":", "@", "[", "]", "{", "}", "nl"}

Plain == [Untyped(7) EXCEPT !.name = <<"a", "b">>]
Pointers ==
    [Untyped(1) EXCEPT !.type = "ptr", !.size = 4, !.size_known = TRUE,
                       !.num_array_elements = 3, !.name = <<"w">>]
Words == [Untyped(15) EXCEPT !.type = "word", !.num_array_elements = 2]
Struct ==
    [Untyped(7) EXCEPT !.type = "struct_spec", !.struct_spec = <<"a", ":">>,
                       !.size = 9, !.size_known = TRUE, !.name = <<"b">>]
MCWritten == {Plain, Pointers, Words, Struct}

GoodLines == UNION {Texts(sym) : sym \in MCWritten}

\* Lines with an address that is missing, too large or without a colon; with
\* a name or a spec that is too long; with fields the parser aborts at; with
\* brackets that are not closed; and one that is longer than the buffer.
OddLines ==
    {<<":", "a">>, <<"1", "0", ":", "a">>, <<"a">>, << >>,
     <<"7", ":", "a", "b", "c">>, <<"7", ":", "S", "{", "a", "a", "a", "}", ":", "a">>,
     <<"7", ":", ":", "a">>, <<"7", ":", "S", ":", "a">>,
     <<"7", ":", "a", "b", ":", "a">>,
     <<"7", ":", "S", "{", ":", "a">>, <<"7", ":", "p", "[", "2", ":", "a">>,
     <<"1", ":", "a", "a", "a", "a", "a", "a", "a", "a", "a", "a", "a", "a", "a", "a", "a", "a">>}

FileOf(texts) == FlattenSeq([k \in DOMAIN texts |-> Append(texts[k], "nl")])

\* Two lines of any kind, several good ones, and a last line without newline.
\* Of the lines of the second set the first chunk of a long one has no newline;
\* <<"a">> is refused.
MCFiles ==
    {FileOf(texts) : texts \in BoundedSeq(GoodLines \cup OddLines, 2)} \cup
    {FileOf(texts) : texts \in BoundedSeq({TextOf(Pointers), TextOf(Struct)}, 5)} \cup
    {FileOf(texts) : texts \in BoundedSeq({TextOf(Struct), <<"a">>}, 5)} \cup
    {FileOf(texts) \o <<"1", ":", "a">> : texts \in BoundedSeq(GoodLines, 2)}
=============================================================================
