--------------------------- MODULE MCFileReader ----------------------------
(***************************************************************************)
(* FileReader on every short file of two letters and newlines.             *)
(***************************************************************************)
EXTENDS FileReader

MCFiles == BoundedSeq(Char, 6)
MCLongFiles == BoundedSeq({"a", NL}, 9)
=============================================================================
