---------------------------- MODULE FileReader -----------------------------
(***************************************************************************)
(* filereader.c: filereader_open, then filereader_iterate_lines, which     *)
(* reads the file through a cache (filereader_read) into chunks and hands  *)
(* each line that a newline ends to a callback (linefiller_fill).          *)
(*                                                                         *)
(* buf[off..off2) is the sequence cached, the bytes that filereader_read   *)
(* has copied are the sequence chunk, and what is between line and line_w  *)
(* is the sequence line.  Two things in the code have undefined results:   *)
(* linefiller_fill returns an uninitialised variable when it sees no       *)
(* newline (UnsetReads: what the caller may take it for), and a line of    *)
(* LineCap characters or more is written past the end of its buffer, where *)
(* nothing can be said of what follows (at = "overrun").                   *)
(***************************************************************************)
EXTENDS Integers, SequencesExt

CONSTANTS
    Char, NL,    \* the characters, and '\n'
    Files,       \* the contents a file may have
    BufSize,     \* sizeof(f->buf), 16
    ChunkSize,   \* sizeof(chunk), 8
    LineCap,     \* sizeof(l->line), 128
    UnsetReads,  \* what an uninitialised answer may be taken for
    Faults       \* TRUE when open or read may fail, and read be interrupted

ASSUME CharAssumption == NL \in Char
ASSUME FilesAssumption == Files \subseteq Seq(Char)
ASSUME SizeAssumption ==
    BufSize \in Nat \ {0} /\ ChunkSize \in Nat \ {0} /\ LineCap \in Nat \ {0}
ASSUME FaultsAssumption == Faults \in BOOLEAN

CONTINUE == "continue"   \* FILEREADER_ITER_CONTINUE
STOP     == "stop"       \* FILEREADER_ITER_STOP
Unset    == "unset"      \* a local variable before its first assignment

ASSUME UnsetAssumption == UnsetReads \subseteq {CONTINUE, STOP} /\ UnsetReads # {}

VARIABLES
    file,       \* what the file holds
    fpos,       \* the file offset
    cached,     \* f->buf[f->off .. f->off2)
    eof,        \* f->eof
    chunk,      \* the bytes filereader_read has copied
    next,       \* how many of them linefiller_fill has taken: chunk_p - chunk
    line,       \* l.line up to l.line_w
    fill_ret,   \* linefiller_fill's ret
    at,         \* where control is; "success" and "error" are the returns
    delivered   \* the lines the callback was given

vars == <<file, fpos, cached, eof, chunk, next, line, fill_ret, at, delivered>>
source == <<file, fpos, cached, eof>>

Smaller(a, b) == IF a < b THEN a ELSE b

-----------------------------------------------------------------------------
Init ==
    /\ file \in Files
    /\ fpos = 0
    /\ cached = << >>
    /\ eof = FALSE
    /\ chunk = << >>
    /\ next = 0
    /\ line = << >>
    /\ fill_ret = Unset
    /\ at = "open"
    /\ delivered = << >>

\* filereader_open: off = off2, an empty cache; then filereader_iterate_lines.
Open ==
    /\ at = "open"
    /\ at' = "read"
    /\ UNCHANGED <<source, chunk, next, line, fill_ret, delivered>>

OpenFails ==
    /\ Faults
    /\ at = "open"
    /\ at' = "error"
    /\ UNCHANGED <<source, chunk, next, line, fill_ret, delivered>>

-----------------------------------------------------------------------------
\* A bug to check the properties against: a short read is not the end.
RefillBug ==
    /\ at = "read"
    /\ Len(chunk) < ChunkSize
    /\ cached = << >>
    /\ ~eof
    /\ LET n == Smaller(BufSize, Len(file) - fpos)
       IN  cached' = SubSeq(file, fpos + 1, fpos + n) /\ fpos' = fpos + n
    /\ UNCHANGED <<file, eof, chunk, next, line, fill_ret, at, delivered>>

\* A bug to check the properties against: a full read, less the terminating
\* zero, is taken for the end of the file.
RefillEofBug ==
    /\ at = "read"
    /\ Len(chunk) < ChunkSize
    /\ cached = << >>
    /\ ~eof
    /\ LET n == Smaller(BufSize, Len(file) - fpos)
       IN  /\ cached' = SubSeq(file, fpos + 1, fpos + n)
           /\ fpos' = fpos + n
           /\ eof' = (n # BufSize - 1)
    /\ UNCHANGED <<file, chunk, next, line, fill_ret, at, delivered>>

\* filereader_read needs bytes and has none: read() fills the cache.  A read
\* of fewer bytes than the buffer holds is taken for the end of the file,
\* also when the rest could still be read.
Refill ==
    /\ at = "read"
    /\ Len(chunk) < ChunkSize
    /\ cached = << >>
    /\ ~eof
    /\ LET most == Smaller(BufSize, Len(file) - fpos)
       IN  \E n \in IF Faults THEN 0..most ELSE {most} :
              /\ cached' = SubSeq(file, fpos + 1, fpos + n)
              /\ fpos' = fpos + n
              /\ eof' = (n # BufSize)
    /\ UNCHANGED <<file, chunk, next, line, fill_ret, at, delivered>>

\* read() fails: what this call had copied is given up.
ReadFails ==
    /\ Faults
    /\ at = "read"
    /\ Len(chunk) < ChunkSize
    /\ cached = << >>
    /\ ~eof
    /\ at' = "error"
    /\ UNCHANGED <<source, chunk, next, line, fill_ret, delivered>>

\* A bug to check the properties against: memcpy takes all there is.
CopyBug ==
    /\ at = "read"
    /\ Len(chunk) < ChunkSize
    /\ cached # << >>
    /\ chunk' = chunk \o cached
    /\ cached' = << >>
    /\ UNCHANGED <<file, fpos, eof, next, line, fill_ret, at, delivered>>

\* memcpy out of the cache, as much as is there and as is asked for.
Copy ==
    /\ at = "read"
    /\ Len(chunk) < ChunkSize
    /\ cached # << >>
    /\ LET n == Smaller(Len(cached), ChunkSize - Len(chunk))
       IN  /\ chunk' = chunk \o SubSeq(cached, 1, n)
           /\ cached' = SubSeq(cached, n + 1, Len(cached))
    /\ UNCHANGED <<file, fpos, eof, next, line, fill_ret, at, delivered>>

\* filereader_read returns a chunk, a shorter one only at the end of the file
\* (so "Unexpected error while iterating" is never reached).
ReadReturns ==
    /\ at = "read"
    /\ Len(chunk) = ChunkSize \/ (cached = << >> /\ eof)
    /\ at' = "fill"
    /\ UNCHANGED <<source, chunk, next, line, fill_ret, delivered>>

-----------------------------------------------------------------------------
\* A bug to check the properties against: STOP does not break the loop.
FillingBug == at = "fill" /\ next < Len(chunk)

\* linefiller_fill looks at the next byte of the chunk.
Filling == at = "fill" /\ fill_ret # STOP /\ next < Len(chunk)
Char_c == chunk[next + 1]

\* A character of a line.
StoreChar ==
    /\ Filling
    /\ Char_c # NL
    /\ Len(line) < LineCap
    /\ line' = Append(line, Char_c)
    /\ next' = next + 1
    /\ UNCHANGED <<source, chunk, fill_ret, at, delivered>>

\* A bug to check the properties against: the line is not begun again.
CallBackBug ==
    /\ Filling
    /\ Char_c = NL
    /\ Len(line) < LineCap
    /\ delivered' = Append(delivered, line)
    /\ next' = next + 1
    /\ \E answer \in {CONTINUE, STOP} : fill_ret' = answer
    /\ UNCHANGED <<source, chunk, line, at>>

\* A bug to check the properties against: empty lines are passed over.
CallBackEmptyBug ==
    /\ Filling
    /\ Char_c = NL
    /\ Len(line) < LineCap
    /\ next' = next + 1
    /\ IF line = << >>
       THEN UNCHANGED <<delivered, line, fill_ret>>
       ELSE /\ delivered' = Append(delivered, line)
            /\ \/ fill_ret' = CONTINUE /\ line' = << >>
               \/ fill_ret' = STOP     /\ UNCHANGED line
    /\ UNCHANGED <<source, chunk, at>>

\* The end of a line: the callback gets it, and says whether to go on.
CallBack ==
    /\ Filling
    /\ Char_c = NL
    /\ Len(line) < LineCap
    /\ delivered' = Append(delivered, line)
    /\ next' = next + 1
    /\ \/ fill_ret' = CONTINUE /\ line' = << >>
       \/ fill_ret' = STOP     /\ UNCHANGED line
    /\ UNCHANGED <<source, chunk, at>>

\* The byte, or the terminating zero, goes past l->line.
Overrun ==
    /\ Filling
    /\ Len(line) >= LineCap
    /\ at' = "overrun"
    /\ UNCHANGED <<source, chunk, next, line, fill_ret, delivered>>

\* A bug to check the properties against: a chunk cut short is not the last.
FillReturnsBug ==
    /\ at = "fill"
    /\ fill_ret = STOP \/ next = Len(chunk)
    /\ \E ret \in IF fill_ret = Unset THEN UnsetReads ELSE {fill_ret} :
          IF ret = STOP
          THEN /\ at' = "success"
               /\ UNCHANGED <<chunk, next, fill_ret>>
          ELSE /\ at' = "read"
               /\ chunk' = << >>
               /\ next' = 0
               /\ fill_ret' = Unset
    /\ UNCHANGED <<source, line, delivered>>

\* A bug to check the properties against: once eof is set the chunk is taken
\* for the last, whatever the cache still holds.
FillReturnsEofBug ==
    /\ at = "fill"
    /\ fill_ret = STOP \/ next = Len(chunk)
    /\ \E ret \in IF fill_ret = Unset THEN UnsetReads ELSE {fill_ret} :
          IF ret = STOP \/ eof
          THEN /\ at' = "success"
               /\ UNCHANGED <<chunk, next, fill_ret>>
          ELSE /\ at' = "read"
               /\ chunk' = << >>
               /\ next' = 0
               /\ fill_ret' = Unset
    /\ UNCHANGED <<source, line, delivered>>

\* linefiller_fill returns to filereader_iterate_lines.  ret may be unset;
\* after a chunk that was cut by the end of the file it is not looked at.
FillReturns ==
    /\ at = "fill"
    /\ fill_ret = STOP \/ next = Len(chunk)
    /\ \E ret \in IF fill_ret = Unset THEN UnsetReads ELSE {fill_ret} :
          IF ret = STOP \/ Len(chunk) < ChunkSize
          THEN /\ at' = "success"
               /\ UNCHANGED <<chunk, next, fill_ret>>
          ELSE /\ at' = "read"
               /\ chunk' = << >>
               /\ next' = 0
               /\ fill_ret' = Unset
    /\ UNCHANGED <<source, line, delivered>>

\* The call has returned, or nothing is known of the program any more.
Returned == at \in {"success", "error", "overrun"} /\ UNCHANGED vars

Next ==
    \/ Open \/ OpenFails
    \/ Refill \/ ReadFails \/ Copy \/ ReadReturns
    \/ StoreChar \/ CallBack \/ Overrun \/ FillReturns
    \/ Returned

\* One thread; the callback returns.
Spec == Init /\ [][Next]_vars /\ WF_vars(Next)

-----------------------------------------------------------------------------
TypeOK ==
    /\ file \in Seq(Char) /\ fpos \in 0..Len(file)
    /\ cached \in Seq(Char) /\ Len(cached) <= BufSize
    /\ eof \in BOOLEAN
    /\ chunk \in Seq(Char) /\ Len(chunk) <= ChunkSize
    /\ next \in 0..Len(chunk)
    /\ line \in Seq(Char \ {NL}) /\ Len(line) <= LineCap
    /\ fill_ret \in {CONTINUE, STOP, Unset}
    /\ at \in {"open", "read", "fill", "success", "error", "overrun"}
    /\ delivered \in Seq(Seq(Char \ {NL}))

\* The characters of the line being put together that went by before the
\* chunk; a line the callback stopped at is still in the buffer.
Pending == IF fill_ret = STOP THEN << >> ELSE line

\* What linefiller_fill has not taken yet.
Ahead == SubSeq(chunk, next + 1, Len(chunk)) \o cached

\* Where the line being put together starts in the file.
LineStart == fpos - Len(Ahead) - Len(Pending)

\* The place behind the k-th of some newlines, the start of the file for none.
Behind(newlines, k) == IF k = 0 THEN 0 ELSE newlines[k]

\* The newlines cut the file into the lines that were delivered.
CutsIntoLines(newlines) ==
    \A k \in 1..Len(delivered) :
        /\ Behind(newlines, k - 1) < newlines[k]
        /\ delivered[k] = SubSeq(file, Behind(newlines, k - 1) + 1, newlines[k] - 1)

\* No byte is lost, doubled or moved between read() and the callback: there
\* are newlines that cut what was read of the file into the lines that were
\* delivered, all of them and in their order, and a rest, which is the
\* unfinished line, what is left of the chunk and the cache, in this order
\* (filereader.c:48-52 and 73-87).
Conserved ==
    \E newlines \in [1..Len(delivered) -> {n \in 1..fpos : file[n] = NL}] :
        /\ CutsIntoLines(newlines)
        /\ Pending \o Ahead = SubSeq(file, Behind(newlines, Len(delivered)) + 1, fpos)

\* The iteration is complete when the last chunk was used up and the cache
\* had seen the whole file.
Outcome ==
    CASE at \in {"open", "read", "fill"} -> "open"
      [] at = "success" /\ fill_ret # STOP /\ Ahead = << >> /\ eof
             /\ Len(chunk) < ChunkSize /\ fpos = Len(file) -> "complete"
      [] OTHER -> "short"

Lines == INSTANCE LineSource WITH
    text    <- file,
    start   <- LineStart,
    given   <- delivered,
    outcome <- Outcome

\* The callback gets the lines that a newline ends, in order and unchanged,
\* and when the reader comes to the end of the file it has given all of them;
\* a last line without a newline is not given (filereader.c:91-146).
GivesLines == Lines!Spec

\* A line buffer overrun is always the file's doing: LineCap characters
\* follow each other without a newline (filereader.c:76, 78).
OverrunOnlyByLongLine ==
    at = "overrun" =>
        \A k \in 1..LineCap : file[LineStart + k] # NL

\* A callback that answered STOP is not called again (filereader.c:80, 136).
StopIsFinal ==
    [][fill_ret = STOP => UNCHANGED <<delivered, fill_ret>>]_vars

\* Every iteration ends: an empty read sets eof, a chunk is used up.
Terminates == <>(at \in {"success", "error", "overrun"})

\* An iteration that reports success without STOP has gone through every line
\* of the file: neither the end of the cache nor that of a chunk is taken for
\* the end of the file (filereader.c:41, 113, 135).  It leaves lines behind in
\* two cases only: a read came short, and where an uninitialised answer may
\* look like STOP, a full chunk had no newline (filereader.c:69, 88).
SuccessIsComplete ==
    at = "success" /\ fill_ret # STOP =>
        \/ Lines!NewlinesLeft = {}
        \/ Faults /\ eof /\ fpos < Len(file)
        \/ /\ STOP \in UnsetReads /\ fill_ret = Unset
           /\ Len(chunk) = ChunkSize /\ NL \notin ToSet(chunk)
=============================================================================
