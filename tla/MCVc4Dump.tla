----------------------------- MODULE MCVc4Dump -----------------------------
(***************************************************************************)
(* Vc4Dump on every short file over words of each length.                  *)
(***************************************************************************)
EXTENDS Vc4Dump

\* One word of each kind: 16, 32, 48 and 80 bits, and the limits of the
\* tests of fetch_next_instr: 0xe000, 0xf7ff and 0xf800.  0xa000 is the word
\* whose decoding depends on the second one.
Kinds == {\h0001, \hA000, \hE000, \hE800, \hF800}

\* Words on either side of every limit between two lengths.
Limits == {\h7FFF, \h8000, \hDFFF, \hE001, \hF000, \hF7FF, \hFFFF}

\* All short files over both sets, and longer ones over three lengths.
MCImages ==
    BoundedSeq(Kinds, 5) \cup BoundedSeq(Limits, 4) \cup
    BoundedSeq({\h0001, \hE800, \hFC00}, 7)

\* Fewer files, for the run that lets every call fail.
MCFewImages ==
    BoundedSeq(Kinds \cup {\hF000}, 4) \cup BoundedSeq({\h0001, \hF800}, 6)

\* 0xffff sets the bits of the second word that the 32-bit rules test.
MCStale == {0, \hFFFF}
=============================================================================
