-------------------------- MODULE FileReaderProofs --------------------------
(***************************************************************************)
(* FileReader for every file, buffer, chunk and line size.                 *)
(***************************************************************************)
EXTENDS FileReader, SequenceTheorems, TLAPS

\* What is between the end of the last line and the file offset.
Window == Pending \o Ahead

WindowIsFile == SubSeq(file, LineStart + 1, fpos) = Window

\* Only a line that fills the buffer overruns it.
OverrunFull == at = "overrun" => Len(line) = LineCap /\ fill_ret # STOP

IInv == TypeOK /\ LineStart \in Nat /\ WindowIsFile /\ OverrunFull

-----------------------------------------------------------------------------
\* Sequences.

LEMMA SplitSubSeq ==
    ASSUME NEW S, NEW s \in Seq(S), NEW a \in Nat, NEW b \in Nat, NEW c \in Nat,
           a <= b, b <= c, c <= Len(s)
    PROVE  SubSeq(s, a + 1, b) \o SubSeq(s, b + 1, c) = SubSeq(s, a + 1, c)
<1>1. a + 1 \in 1..Len(s) + 1 /\ b \in (a + 1) - 1..Len(s) /\ c \in b..Len(s)
    BY LenProperties
<1> QED
    BY <1>1, ConcatAdjacentSubSeq

LEMMA PartOfSeq ==
    ASSUME NEW S, NEW s \in Seq(S), NEW a \in Nat, NEW b \in Nat,
           1 <= a, a <= b + 1, b <= Len(s)
    PROVE  /\ SubSeq(s, a, b) \in Seq(S) /\ Len(SubSeq(s, a, b)) = b - a + 1
           /\ \A k \in 1..(b - a + 1) : SubSeq(s, a, b)[k] = s[a + k - 1]
<1>1. \A k \in a..b : s[k] \in S
    <2>1. \A k \in 1..Len(s) : s[k] \in S
        BY ElementOfSeq
    <2>2. Len(s) \in Nat
        BY LenProperties
    <2> QED
        BY <2>1, <2>2
<1>2. a \in Int /\ b \in Int
    OBVIOUS
<1>3. (IF a <= b THEN b - a + 1 ELSE 0) = b - a + 1
    OBVIOUS
<1> QED
    BY <1>1, <1>2, <1>3, SubSeqProperties

\* s[i..j] is u, up to l, and then v, from m.
SplitAt(s, i, j, l, m, u, v) ==
    /\ s \in Seq(Char) /\ u \in Seq(Char) /\ v \in Seq(Char)
    /\ i \in Nat /\ j \in Nat /\ l \in Nat /\ m \in Nat
    /\ 1 <= i /\ i <= j + 1 /\ j <= Len(s)
    /\ l = i + Len(u) - 1 /\ m = i + Len(u)
    /\ SubSeq(s, i, j) = u \o v

LEMMA WindowParts ==
    ASSUME NEW s, NEW i, NEW j, NEW l, NEW m, NEW u, NEW v, SplitAt(s, i, j, l, m, u, v)
    PROVE  l + Len(v) = j /\ SubSeq(s, i, l) = u /\ SubSeq(s, m, j) = v
<1> USE DEF SplitAt
<1>1. Len(SubSeq(s, i, j)) = j - i + 1 /\ Len(u \o v) = Len(u) + Len(v)
    OBVIOUS
<1>2. l + Len(v) = j /\ m + Len(v) = j + 1 /\ Len(u) \in Nat /\ Len(v) \in Nat
    BY <1>1
<1>3. ASSUME NEW k \in 1..Len(u) PROVE s[i + k - 1] = u[k]
    <2>1. k \in 1..(j - i + 1) /\ (u \o v)[k] = u[k]
        BY <1>2
    <2>2. SubSeq(s, i, j)[k] = s[i + k - 1]
        BY <2>1
    <2> QED
        BY <2>1, <2>2
<1>4. ASSUME NEW k \in 1..Len(v) PROVE s[m + k - 1] = v[k]
    <2>1. Len(u) + k \in 1..(j - i + 1) /\ i + (Len(u) + k) - 1 = m + k - 1
        BY <1>2
    <2>2. SubSeq(s, i, j)[Len(u) + k] = s[i + (Len(u) + k) - 1]
        BY <2>1
    <2>3. (u \o v)[Len(u) + k] = v[k]
        BY <1>2
    <2> QED
        BY <2>1, <2>2, <2>3
<1> DEFINE x == SubSeq(s, i, l)
           y == SubSeq(s, m, j)
<1>5. x \in Seq(Char) /\ Len(x) = Len(u) /\ \A k \in 1..Len(u) : x[k] = s[i + k - 1]
    <2>1. l <= Len(s) /\ i <= l + 1 /\ l - i + 1 = Len(u)
        BY <1>2
    <2>2. x \in Seq(Char) /\ Len(x) = l - i + 1 /\ \A k \in 1..(l - i + 1) : x[k] = s[i + k - 1]
        BY <2>1, PartOfSeq
    <2> QED
        BY <2>1, <2>2
<1>6. y \in Seq(Char) /\ Len(y) = Len(v) /\ \A k \in 1..Len(v) : y[k] = s[m + k - 1]
    <2>1. m \in Nat /\ 1 <= m /\ m <= j + 1 /\ j - m + 1 = Len(v)
        BY <1>2
    <2>2. y \in Seq(Char) /\ Len(y) = j - m + 1 /\ \A k \in 1..(j - m + 1) : y[k] = s[m + k - 1]
        BY <2>1, PartOfSeq
    <2> QED
        BY <2>1, <2>2
<1> HIDE DEF x, y
<1>7. x = u /\ y = v
    BY <1>3, <1>4, <1>5, <1>6, SeqEqual
<1> QED
    BY <1>2, <1>7 DEF x, y

LEMMA TailOfConcat ==
    ASSUME NEW S, NEW u \in Seq(S), NEW v \in Seq(S), NEW n \in 0..Len(u)
    PROVE  SubSeq(u \o v, n + 1, Len(u \o v)) = SubSeq(u, n + 1, Len(u)) \o v
<1> DEFINE w == u \o v
           left  == SubSeq(w, n + 1, Len(w))
           front == SubSeq(u, n + 1, Len(u))
           right == front \o v
<1>1. /\ w \in Seq(S) /\ Len(w) = Len(u) + Len(v) /\ Len(u) \in Nat /\ Len(v) \in Nat
      /\ \A k \in 1..Len(u) + Len(v) : w[k] = IF k <= Len(u) THEN u[k] ELSE v[k - Len(u)]
    BY ConcatProperties, LenProperties
<1>2. front \in Seq(S) /\ Len(front) = Len(u) - n /\ \A k \in 1..Len(u) - n : front[k] = u[n + k]
    OBVIOUS
<1> HIDE DEF w, front
<1>3. left \in Seq(S) /\ Len(left) = Len(w) - n /\ \A k \in 1..Len(w) - n : left[k] = w[n + k]
    BY <1>1
<1> HIDE DEF left
<1>4. /\ right \in Seq(S) /\ Len(right) = Len(front) + Len(v)
      /\ \A k \in 1..Len(front) + Len(v) :
            right[k] = IF k <= Len(front) THEN front[k] ELSE v[k - Len(front)]
    BY <1>2, ConcatProperties
<1> HIDE DEF right
<1>5. Len(left) = Len(right) /\ Len(left) = Len(u) + Len(v) - n
    BY <1>1, <1>2, <1>3, <1>4
<1>6. ASSUME NEW k \in 1..Len(left) PROVE left[k] = right[k]
    <2>1. /\ left[k] = w[n + k] /\ n + k \in 1..Len(u) + Len(v)
          /\ k \in 1..Len(front) + Len(v)
        BY <1>1, <1>2, <1>3, <1>5
    <2>2. CASE k <= Len(u) - n
        <3>1. left[k] = u[n + k]
            BY <1>1, <2>1, <2>2
        <3>2. right[k] = u[n + k]
            BY <1>1, <1>2, <1>4, <2>1, <2>2
        <3> QED
            BY <3>1, <3>2
    <2>3. CASE ~(k <= Len(u) - n)
        <3>1. left[k] = v[(n + k) - Len(u)]
            BY <1>1, <2>1, <2>3
        <3>2. right[k] = v[k - (Len(u) - n)]
            BY <1>1, <1>2, <1>4, <2>1, <2>3
        <3>3. (n + k) - Len(u) = k - (Len(u) - n)
            BY <1>1
        <3> QED
            BY <3>1, <3>2, <3>3
    <2> QED
        BY <2>2, <2>3
<1>7. left = right
    BY <1>3, <1>4, <1>5, <1>6, SeqEqual
<1> QED
    BY <1>7 DEF left, right, front, w

-----------------------------------------------------------------------------
\* Pending, Ahead and LineStart are what their names say.

LEMMA Shape ==
    ASSUME TypeOK
    PROVE  /\ Pending \in Seq(Char \ {NL}) /\ Pending \in Seq(Char)
           /\ SubSeq(chunk, next + 1, Len(chunk)) \in Seq(Char)
           /\ Len(SubSeq(chunk, next + 1, Len(chunk))) = Len(chunk) - next
           /\ Ahead \in Seq(Char)
           /\ Len(Ahead) = Len(chunk) - next + Len(cached)
           /\ LineStart = fpos - Len(Ahead) - Len(Pending)
           /\ Len(Pending) \in Nat /\ Len(Ahead) \in Nat /\ fpos \in Nat /\ LineStart \in Int
           /\ file \in Seq(Char) /\ fpos <= Len(file) /\ Len(file) \in Nat
<1> DEFINE rest == SubSeq(chunk, next + 1, Len(chunk))
<1>1. chunk \in Seq(Char) /\ next \in 0..Len(chunk) /\ Len(chunk) \in Nat
    BY DEF TypeOK
<1>2. rest \in Seq(Char) /\ Len(rest) = Len(chunk) - next
    BY <1>1
<1>3. Pending \in Seq(Char \ {NL})
    BY DEF Pending, TypeOK
<1>4. Pending \in Seq(Char)
    BY <1>3, SeqMonotonic
<1>5. cached \in Seq(Char) /\ Len(cached) \in Nat
    BY DEF TypeOK
<1> HIDE DEF rest
<1>6. rest \o cached \in Seq(Char) /\ Len(rest \o cached) = Len(rest) + Len(cached)
    BY <1>2, <1>5, ConcatProperties
<1>7. Ahead = rest \o cached
    BY DEF Ahead, rest
<1>8. file \in Seq(Char) /\ fpos \in 0..Len(file) /\ Len(file) \in Nat
    BY DEF TypeOK
<1>9. LineStart = fpos - Len(Ahead) - Len(Pending)
    BY DEF LineStart
<1>10. Len(Pending) \in Nat
    BY <1>4
<1>11. Len(Ahead) = Len(chunk) - next + Len(cached) /\ Len(Ahead) \in Nat
    BY <1>1, <1>2, <1>5, <1>6, <1>7
<1> QED
    BY <1>1, <1>2, <1>3, <1>4, <1>6, <1>7, <1>8, <1>9, <1>10, <1>11 DEF rest

LEMMA InitInv == Init => IInv
<1> SUFFICES ASSUME Init PROVE IInv
    OBVIOUS
<1>1. TypeOK
    <2>1. file \in Seq(Char) /\ fpos \in 0..Len(file)
        BY FilesAssumption DEF Init
    <2>2. /\ cached \in Seq(Char) /\ Len(cached) <= BufSize
          /\ chunk \in Seq(Char) /\ Len(chunk) <= ChunkSize /\ next \in 0..Len(chunk)
        BY SizeAssumption DEF Init
    <2>3. line \in Seq(Char \ {NL}) /\ Len(line) <= LineCap
        BY SizeAssumption DEF Init
    <2>4. delivered \in Seq(Seq(Char \ {NL}))
        BY DEF Init
    <2> QED
        BY <2>1, <2>2, <2>3, <2>4 DEF Init, TypeOK
<1>2. Pending = << >> /\ Ahead = << >> /\ fpos = 0
    BY DEF Init, Pending, Ahead, Unset
<1>3. LineStart = 0
    BY <1>1, <1>2, Shape
<1>4. WindowIsFile
    BY <1>2, <1>3, <1>1, Shape DEF WindowIsFile, Window
<1> QED
    BY <1>1, <1>3, <1>4 DEF IInv, OverrunFull, Init

-----------------------------------------------------------------------------
\* One lemma for each step, or kind of step: the types, the line start and the
\* window after it.

\* What none of these moves.
Held == <<file, fpos, cached, chunk, next, line, fill_ret>>

LEMMA HeldSame ==
    ASSUME UNCHANGED Held
    PROVE  Pending' = Pending /\ Ahead' = Ahead /\ LineStart' = LineStart
BY DEF Held, Pending, Ahead, LineStart

LEMMA ControlInv ==
    ASSUME IInv, Open \/ OpenFails \/ ReadFails \/ ReadReturns \/ Overrun \/ UNCHANGED vars
    PROVE  IInv' /\ UNCHANGED Held
<1>1. UNCHANGED Held /\ UNCHANGED delivered /\ eof' = eof
    BY DEF Open, OpenFails, ReadFails, ReadReturns, Overrun, source, vars, Held
<1>2. at' \in {"open", "read", "fill", "success", "error", "overrun"}
    BY DEF Open, OpenFails, ReadFails, ReadReturns, Overrun, vars, IInv, TypeOK
<1>3. TypeOK'
    BY <1>1, <1>2 DEF IInv, TypeOK, Held
<1>4. LineStart' \in Nat /\ WindowIsFile'
    BY <1>1, HeldSame DEF IInv, WindowIsFile, Window, Held
<1>5. OverrunFull'
    <2>1. CASE Overrun
        BY <2>1, SizeAssumption DEF Overrun, Filling, OverrunFull, IInv, TypeOK
    <2>2. CASE Open \/ OpenFails \/ ReadFails \/ ReadReturns
        BY <2>2 DEF Open, OpenFails, ReadFails, ReadReturns, OverrunFull
    <2>3. CASE UNCHANGED vars
        BY <2>3 DEF vars, OverrunFull, IInv
    <2> QED
        BY <2>1, <2>2, <2>3
<1> QED
    BY <1>1, <1>3, <1>4, <1>5 DEF IInv

LEMMA RefillInv ==
    ASSUME IInv, Refill
    PROVE  IInv' /\ LineStart' = LineStart /\ fpos <= fpos'
<1> DEFINE rest == SubSeq(chunk, next + 1, Len(chunk))
           new  == SubSeq(file, fpos + 1, fpos')
<1>0. TypeOK
    BY DEF IInv
<1>1. PICK n \in Nat : /\ n <= BufSize /\ n <= Len(file) - fpos
                       /\ cached' = SubSeq(file, fpos + 1, fpos + n)
                       /\ fpos' = fpos + n
                       /\ eof' = (n # BufSize)
    <2> DEFINE most == Smaller(BufSize, Len(file) - fpos)
    <2>1. most \in Nat /\ most <= BufSize /\ most <= Len(file) - fpos
        BY <1>0, SizeAssumption DEF Smaller, TypeOK
    <2> HIDE DEF most
    <2>2. PICK n \in IF Faults THEN 0..most ELSE {most} :
              /\ cached' = SubSeq(file, fpos + 1, fpos + n)
              /\ fpos' = fpos + n
              /\ eof' = (n # BufSize)
        BY DEF Refill, most
    <2>3. n \in 0..most
        BY <2>1, <2>2
    <2>4. BufSize \in Nat /\ Len(file) \in Nat /\ fpos \in Nat
        BY <1>0, SizeAssumption DEF TypeOK
    <2>5. n \in Nat /\ n <= BufSize /\ n <= Len(file) - fpos
        BY <2>1, <2>3, <2>4
    <2> QED
        BY <2>2, <2>5
<1>2. UNCHANGED <<file, chunk, next, line, fill_ret, at, delivered>> /\ cached = << >>
    BY DEF Refill
<1>3. fpos + n \in 0..Len(file) /\ fpos \in Nat /\ Len(file) \in Nat /\ file \in Seq(Char)
    BY <1>0, <1>1 DEF TypeOK
<1>4. new \in Seq(Char) /\ Len(new) = n /\ cached' = new /\ fpos' = fpos + n
    BY <1>1, <1>3
<1>5. TypeOK'
    BY <1>0, <1>1, <1>2, <1>3, <1>4 DEF TypeOK
<1>6. rest \in Seq(Char) /\ Pending \in Seq(Char) /\ Pending' = Pending
    BY <1>0, <1>2, Shape DEF Pending
<1> HIDE DEF rest, new
<1>7. Ahead = rest /\ Ahead' = rest \o new
    <2>1. Ahead = rest \o << >> /\ Ahead' = rest \o new
        BY <1>2, <1>4 DEF Ahead, rest
    <2> QED
        BY <2>1, <1>6, ConcatEmptySeq
<1>8. Len(Ahead') = Len(Ahead) + n
    BY <1>4, <1>6, <1>7, ConcatProperties
<1>9. LineStart' = LineStart
    BY <1>0, <1>4, <1>6, <1>8, Shape DEF LineStart
<1>10. WindowIsFile'
    <2>1. SubSeq(file, LineStart + 1, fpos) \o new = SubSeq(file, LineStart + 1, fpos')
        <3>1. LineStart \in Nat /\ LineStart <= fpos
            BY <1>0, Shape DEF IInv
        <3> QED
            BY <1>1, <1>3, <1>4, <3>1, SplitSubSeq DEF new
    <2>2. SubSeq(file, LineStart + 1, fpos) = Pending \o rest
        BY <1>7 DEF IInv, WindowIsFile, Window
    <2>3. (Pending \o rest) \o new = Pending \o (rest \o new)
        BY <1>4, <1>6, ConcatAssociative
    <2> QED
        BY <1>2, <1>6, <1>7, <1>9, <2>1, <2>2, <2>3 DEF WindowIsFile, Window
<1>11. OverrunFull'
    BY <1>2 DEF OverrunFull, IInv
<1> QED
    BY <1>1, <1>3, <1>5, <1>9, <1>10, <1>11 DEF IInv

LEMMA CopyInv ==
    ASSUME IInv, Copy
    PROVE  IInv' /\ LineStart' = LineStart
<1> DEFINE rest == SubSeq(chunk, next + 1, Len(chunk))
           n == Smaller(Len(cached), ChunkSize - Len(chunk))
           taken == SubSeq(cached, 1, n)
           left  == SubSeq(cached, n + 1, Len(cached))
<1>0. TypeOK
    BY DEF IInv
<1>1. /\ UNCHANGED <<file, fpos, eof, next, line, fill_ret, at, delivered>>
      /\ chunk' = chunk \o taken /\ cached' = left
    BY DEF Copy
<1>2. /\ cached \in Seq(Char) /\ chunk \in Seq(Char) /\ next \in 0..Len(chunk)
      /\ Len(cached) \in Nat /\ Len(chunk) \in Nat /\ ChunkSize \in Nat
      /\ Len(chunk) < ChunkSize /\ Len(cached) <= BufSize /\ BufSize \in Nat
    BY <1>0, SizeAssumption DEF TypeOK, Copy
<1>3. n \in Nat /\ n <= Len(cached) /\ n <= ChunkSize - Len(chunk)
    BY <1>2 DEF Smaller
<1> HIDE DEF n
<1>4. taken \in Seq(Char) /\ Len(taken) = n /\ left \in Seq(Char) /\ Len(left) = Len(cached) - n
    BY <1>2, <1>3
<1>5. taken \o left = cached
    <2>1. taken \o left = SubSeq(cached, 1, Len(cached))
        <3>1. 1 \in 1..Len(cached) + 1 /\ n \in 1 - 1..Len(cached) /\ Len(cached) \in n..Len(cached)
            BY <1>2, <1>3
        <3> QED
            BY <1>2, <3>1, ConcatAdjacentSubSeq
    <2> QED
        BY <1>2, <2>1, SubSeqFull
<1> HIDE DEF taken, left
<1>6. chunk' \in Seq(Char) /\ Len(chunk') = Len(chunk) + n
    BY <1>1, <1>2, <1>4, ConcatProperties
<1>7. TypeOK'
    <2>1. Len(chunk') <= ChunkSize /\ next' \in 0..Len(chunk')
        BY <1>1, <1>2, <1>3, <1>6
    <2>2. Len(cached') <= BufSize
        BY <1>1, <1>2, <1>3, <1>4
    <2> QED
        BY <1>0, <1>1, <1>4, <1>6, <2>1, <2>2 DEF TypeOK
<1>8. Ahead' = Ahead
    <2>1. rest \in Seq(Char) /\ Ahead = rest \o cached
        BY <1>2 DEF Ahead
    <2>2. Ahead' = (rest \o taken) \o left
        BY <1>1, <1>2, <1>4, TailOfConcat DEF Ahead
    <2> HIDE DEF rest
    <2>3. (rest \o taken) \o left = rest \o (taken \o left)
        BY <1>4, <2>1, ConcatAssociative
    <2> QED
        BY <1>5, <2>1, <2>2, <2>3
<1>9. Pending' = Pending /\ LineStart' = LineStart
    BY <1>1, <1>8 DEF Pending, LineStart
<1>10. WindowIsFile' /\ OverrunFull'
    BY <1>1, <1>8, <1>9 DEF IInv, WindowIsFile, Window, OverrunFull
<1> QED
    BY <1>7, <1>9, <1>10 DEF IInv

\* The next byte is the first of what is ahead.
LEMMA TakeByte ==
    ASSUME TypeOK, Filling, UNCHANGED <<chunk, cached>>, next' = next + 1
    PROVE  Char_c \in Char /\ Ahead' \in Seq(Char) /\ Ahead = <<Char_c>> \o Ahead'
<1> DEFINE rest  == SubSeq(chunk, next + 1, Len(chunk))
           rest1 == SubSeq(chunk, (next + 1) + 1, Len(chunk))
<1>1. /\ chunk \in Seq(Char) /\ cached \in Seq(Char)
      /\ next + 1 \in 1..Len(chunk) /\ Len(chunk) \in (next + 1)..Len(chunk)
    BY DEF TypeOK, Filling
<1>2. rest = <<Char_c>> \o rest1
    BY <1>1, SubSeqRecursiveFirst DEF Char_c
<1>3. Char_c \in Char /\ <<Char_c>> \in Seq(Char) /\ rest1 \in Seq(Char)
    BY <1>1 DEF Char_c
<1>4. Ahead = rest \o cached /\ Ahead' = rest1 \o cached
    BY DEF Ahead
<1> HIDE DEF rest, rest1
<1>5. (<<Char_c>> \o rest1) \o cached = <<Char_c>> \o (rest1 \o cached)
    BY <1>1, <1>3, ConcatAssociative
<1>6. rest1 \o cached \in Seq(Char)
    BY <1>1, <1>3, ConcatProperties
<1> QED
    BY <1>2, <1>3, <1>4, <1>5, <1>6

LEMMA StoreCharInv ==
    ASSUME IInv, StoreChar
    PROVE  IInv' /\ LineStart' = LineStart
<1>0. TypeOK /\ Filling
    BY DEF IInv, StoreChar
<1>1. /\ UNCHANGED <<file, fpos, cached, eof, chunk, fill_ret, at, delivered>>
      /\ line' = Append(line, Char_c) /\ next' = next + 1
      /\ Char_c # NL /\ Len(line) < LineCap /\ fill_ret # STOP /\ next < Len(chunk) /\ at = "fill"
    BY <1>0 DEF StoreChar, source, Filling
<1>2. /\ Char_c \in Char \ {NL} /\ <<Char_c>> \in Seq(Char) /\ Ahead' \in Seq(Char)
      /\ Ahead = <<Char_c>> \o Ahead'
    BY <1>0, <1>1, TakeByte
<1>3. line \in Seq(Char \ {NL}) /\ line \in Seq(Char)
    BY <1>0, SeqMonotonic DEF TypeOK
<1>4. line' \in Seq(Char \ {NL}) /\ Len(line') = Len(line) + 1
    BY <1>1, <1>2, <1>3
<1>5. TypeOK'
    <2>1. Len(line') <= LineCap
        BY <1>1, <1>3, <1>4, SizeAssumption
    <2>2. next' \in 0..Len(chunk')
        BY <1>0, <1>1 DEF TypeOK
    <2> QED
        BY <1>0, <1>1, <1>4, <2>1, <2>2 DEF TypeOK
<1>6. Pending = line /\ Pending' = line \o <<Char_c>>
    <2>1. Pending = line /\ Pending' = Append(line, Char_c)
        BY <1>1 DEF Pending
    <2>2. Append(line, Char_c) = line \o <<Char_c>>
        BY <1>2, <1>3, AppendIsConcat
    <2> QED
        BY <2>1, <2>2
<1>7. LineStart' = LineStart
    <2>1. Len(Ahead) = 1 + Len(Ahead') /\ Len(Pending') = Len(Pending) + 1
        BY <1>2, <1>3, <1>6, ConcatProperties
    <2>2. Len(Ahead') \in Nat /\ Len(Pending) \in Nat /\ fpos \in Nat
        BY <1>0, <1>2, Shape
    <2> QED
        BY <1>1, <2>1, <2>2 DEF LineStart
<1>8. WindowIsFile'
    <2>1. (line \o <<Char_c>>) \o Ahead' = line \o (<<Char_c>> \o Ahead')
        BY <1>2, <1>3, ConcatAssociative
    <2> QED
        BY <1>1, <1>2, <1>6, <1>7, <2>1 DEF IInv, WindowIsFile, Window
<1>9. OverrunFull'
    BY <1>1 DEF OverrunFull
<1> QED
    BY <1>5, <1>7, <1>8, <1>9 DEF IInv

LEMMA CallBackInv ==
    ASSUME IInv, CallBack
    PROVE  /\ IInv'
           /\ Pending = line
           /\ LineStart' = LineStart + Len(line) + 1
           /\ SubSeq(file, LineStart + 1, LineStart + Len(line)) = line
           /\ file[LineStart + Len(line) + 1] = NL
           /\ LineStart + Len(line) + 1 <= fpos /\ LineStart + Len(line) + 1 <= Len(file)
<1>0. TypeOK /\ Filling /\ LineStart \in Nat
    BY DEF IInv, CallBack
<1>1. /\ UNCHANGED <<file, fpos, cached, eof, chunk, at>>
      /\ delivered' = Append(delivered, line) /\ next' = next + 1
      /\ Char_c = NL /\ fill_ret # STOP /\ next < Len(chunk) /\ at = "fill"
      /\ fill_ret' \in {CONTINUE, STOP} /\ line' \in {line, << >>}
      /\ fill_ret' # STOP => line' = << >>
    BY <1>0 DEF CallBack, source, Filling, CONTINUE, STOP
<1>2. /\ NL \in Char /\ <<NL>> \in Seq(Char) /\ Ahead' \in Seq(Char)
      /\ Ahead = <<NL>> \o Ahead'
    BY <1>0, <1>1, TakeByte, CharAssumption
<1>3. line \in Seq(Char \ {NL}) /\ line \in Seq(Char) /\ Len(line) \in Nat
    BY <1>0, SeqMonotonic DEF TypeOK
<1>4. TypeOK'
    <2>1. line' \in Seq(Char \ {NL}) /\ Len(line') <= LineCap
        <3>1. << >> \in Seq(Char \ {NL}) /\ Len(<< >>) <= LineCap
            BY SizeAssumption
        <3> QED
            BY <1>0, <1>1, <3>1 DEF TypeOK
    <2>2. delivered' \in Seq(Seq(Char \ {NL}))
        BY <1>0, <1>1, <1>3 DEF TypeOK
    <2>3. next' \in 0..Len(chunk')
        BY <1>0, <1>1 DEF TypeOK
    <2> QED
        BY <1>0, <1>1, <2>1, <2>2, <2>3 DEF TypeOK
<1>5. Pending = line /\ Pending' = << >>
    BY <1>1 DEF Pending
<1> DEFINE w == line \o <<NL>>
<1>6. w \in Seq(Char) /\ Len(w) = Len(line) + 1
    BY <1>2, <1>3, ConcatProperties
<1>7. SubSeq(file, LineStart + 1, fpos) = w \o Ahead'
    <2>1. w \o Ahead' = line \o (<<NL>> \o Ahead')
        BY <1>2, <1>3, ConcatAssociative
    <2> QED
        BY <1>2, <1>5, <2>1 DEF IInv, WindowIsFile, Window
<1>8. file \in Seq(Char) /\ fpos \in Nat /\ fpos <= Len(file) /\ LineStart <= fpos
    BY <1>0, Shape
<1> HIDE DEF w
<1>9. /\ LineStart + Len(w) + Len(Ahead') = fpos
      /\ SubSeq(file, LineStart + 1, LineStart + Len(w)) = w
      /\ SubSeq(file, LineStart + Len(w) + 1, fpos) = Ahead'
    <2>1. LineStart + 1 \in Nat /\ LineStart + Len(w) \in Nat /\ LineStart + Len(w) + 1 \in Nat
        BY <1>0, <1>3, <1>6
    <2>2. SplitAt(file, LineStart + 1, fpos, LineStart + Len(w), LineStart + Len(w) + 1, w, Ahead')
        BY <1>0, <1>2, <1>6, <1>7, <1>8, <2>1 DEF SplitAt
    <2>3. LineStart + Len(w) + Len(Ahead') = fpos
        BY <2>2, WindowParts
    <2>4. SubSeq(file, LineStart + 1, LineStart + Len(w)) = w
        BY <2>2, WindowParts
    <2>5. SubSeq(file, LineStart + Len(w) + 1, fpos) = Ahead'
        BY <2>2, WindowParts
    <2> QED
        BY <2>3, <2>4, <2>5
<1>10. LineStart' = LineStart + Len(w)
    BY <1>0, <1>1, <1>2, <1>5, <1>6, <1>8, <1>9 DEF LineStart
<1>11. WindowIsFile'
    <2>1. Pending' \o Ahead' = Ahead'
        BY <1>2, <1>5, ConcatEmptySeq
    <2> QED
        BY <1>1, <1>9, <1>10, <2>1 DEF WindowIsFile, Window
<1> DEFINE c == LineStart + Len(w)
<1>12. /\ c \in Nat /\ LineStart <= c /\ c <= fpos /\ c <= Len(file)
       /\ c = LineStart + Len(line) + 1
    BY <1>0, <1>2, <1>3, <1>6, <1>8, <1>9
<1>13. SubSeq(file, LineStart + 1, c) = line \o <<NL>>
    BY <1>9 DEF w
<1> HIDE DEF c
<1>14. /\ SubSeq(file, LineStart + 1, LineStart + Len(line)) = line
       /\ SubSeq(file, LineStart + Len(line) + 1, c) = <<NL>>
    <2>1. /\ LineStart + 1 \in Nat /\ LineStart + Len(line) \in Nat
          /\ LineStart + Len(line) + 1 \in Nat
          /\ LineStart + Len(line) = (LineStart + 1) + Len(line) - 1
          /\ LineStart + Len(line) + 1 = (LineStart + 1) + Len(line)
          /\ 1 <= LineStart + 1 /\ LineStart + 1 <= c + 1 /\ c \in Nat /\ c <= Len(file)
        BY <1>0, <1>3, <1>12
    <2>2. SplitAt(file, LineStart + 1, c, LineStart + Len(line), LineStart + Len(line) + 1, line, <<NL>>)
        BY <1>2, <1>3, <1>8, <1>13, <2>1 DEF SplitAt
    <2>3. SubSeq(file, LineStart + 1, LineStart + Len(line)) = line
        BY <2>2, WindowParts
    <2>4. SubSeq(file, LineStart + Len(line) + 1, c) = <<NL>>
        <3> DEFINE newline == <<NL>>
        <3>1. SplitAt(file, LineStart + 1, c, LineStart + Len(line), LineStart + Len(line) + 1,
                      line, newline)
            BY <2>2
        <3> HIDE DEF newline
        <3>2. SubSeq(file, LineStart + Len(line) + 1, c) = newline
            BY <3>1, WindowParts
        <3> QED
            BY <3>2 DEF newline
    <2> QED
        BY <2>3, <2>4
<1>15. file[c] = NL
    <2>1. SubSeq(file, c, c) = <<NL>> /\ c \in 1..Len(file)
        BY <1>0, <1>3, <1>8, <1>12, <1>14 DEF TypeOK
    <2>2. SubSeq(file, c, c)[1] = file[c]
        <3>1. c \in c..Len(file) /\ c \in c..c /\ file \in Seq(Char) /\ c \in 1..Len(file)
            BY <1>8, <1>12, <2>1
        <3> QED
            BY <3>1
    <2> QED
        BY <2>1, <2>2
<1>16. LineStart' \in Nat /\ OverrunFull'
    BY <1>1, <1>10, <1>12 DEF OverrunFull, c
<1>17. c = LineStart + Len(w)
    BY DEF c
<1> QED
    BY <1>4, <1>5, <1>10, <1>11, <1>12, <1>14, <1>15, <1>16, <1>17 DEF IInv

LEMMA FillReturnsInv ==
    ASSUME IInv, FillReturns
    PROVE  IInv' /\ LineStart' = LineStart
<1>0. TypeOK
    BY DEF IInv
<1>1. UNCHANGED <<file, fpos, cached, eof, line, delivered>> /\ at = "fill"
    BY DEF FillReturns, source
<1>2. CASE at' = "success" /\ UNCHANGED <<chunk, next, fill_ret>>
    <2>1. TypeOK' /\ OverrunFull'
        BY <1>0, <1>1, <1>2 DEF TypeOK, OverrunFull
    <2>2. LineStart' = LineStart /\ WindowIsFile'
        BY <1>1, <1>2, HeldSame DEF Held, WindowIsFile, Window, IInv
    <2> QED
        BY <2>1, <2>2 DEF IInv
<1>3. CASE /\ fill_ret # STOP /\ next = Len(chunk)
           /\ at' = "read" /\ chunk' = << >> /\ next' = 0 /\ fill_ret' = Unset
    <2>1. << >> \in Seq(Char) /\ Len(<< >>) = 0 /\ 0 <= ChunkSize /\ 0 \in 0..0
        BY SizeAssumption
    <2>2. TypeOK' /\ OverrunFull'
        BY <1>0, <1>1, <1>3, <2>1 DEF TypeOK, OverrunFull
    <2>3. Pending' = Pending
        BY <1>1, <1>3 DEF Pending, Unset, STOP
    <2>4. Ahead' = Ahead
        <3>1. SubSeq(chunk, next + 1, Len(chunk)) = << >> /\ SubSeq(chunk', next' + 1, Len(chunk')) = << >>
            BY <1>0, <1>3, <2>1 DEF TypeOK
        <3> QED
            BY <1>1, <3>1 DEF Ahead
    <2>5. LineStart' = LineStart /\ WindowIsFile'
        BY <1>1, <2>3, <2>4 DEF LineStart, WindowIsFile, Window, IInv
    <2> QED
        BY <2>2, <2>5 DEF IInv
<1> QED
    <2>1. PICK ret \in IF fill_ret = Unset THEN UnsetReads ELSE {fill_ret} :
              IF ret = STOP \/ Len(chunk) < ChunkSize
              THEN at' = "success" /\ UNCHANGED <<chunk, next, fill_ret>>
              ELSE at' = "read" /\ chunk' = << >> /\ next' = 0 /\ fill_ret' = Unset
        BY DEF FillReturns
    <2>2. CASE ret = STOP \/ Len(chunk) < ChunkSize
        BY <1>2, <2>1, <2>2
    <2>3. CASE ~(ret = STOP \/ Len(chunk) < ChunkSize)
        <3>1. fill_ret # STOP
            BY <2>1, <2>3 DEF Unset, STOP
        <3> QED
            BY <1>3, <2>1, <2>3, <3>1 DEF FillReturns
    <2> QED
        BY <2>2, <2>3

-----------------------------------------------------------------------------
LEMMA NextInv == IInv /\ [Next]_vars => IInv'
<1> SUFFICES ASSUME IInv, [Next]_vars PROVE IInv'
    OBVIOUS
<1>1. CASE Open \/ OpenFails \/ ReadFails \/ ReadReturns \/ Overrun \/ Returned \/ UNCHANGED vars
    BY <1>1, ControlInv DEF Returned
<1>2. CASE Refill \/ Copy
    BY <1>2, RefillInv, CopyInv
<1>3. CASE StoreChar \/ CallBack \/ FillReturns
    BY <1>3, StoreCharInv, CallBackInv, FillReturnsInv
<1> QED
    BY <1>1, <1>2, <1>3 DEF Next

\* IInv holds in every reachable state.
THEOREM Invariant == Spec => []IInv
BY InitInv, NextInv, PTL DEF Spec

\* The buffers never hold more than they have room for, but for an overrun,
\* and no line holds a newline.
THEOREM TypeCorrect == Spec => []TypeOK
<1>1. IInv => TypeOK
    BY DEF IInv
<1> QED
    BY <1>1, Invariant, PTL

-----------------------------------------------------------------------------
\* What was read of the file, cut at the newlines of the delivered lines.

\* The last of those newlines is the one before LineStart.
CutAtLineStart ==
    \E newlines \in [1..Len(delivered) -> {n \in 1..fpos : file[n] = NL}] :
        CutsIntoLines(newlines) /\ Behind(newlines, Len(delivered)) = LineStart

LEMMA CutInit == Init => CutAtLineStart
<1> SUFFICES ASSUME Init PROVE CutAtLineStart
    OBVIOUS
<1>1. Len(delivered) = 0 /\ fpos = 0 /\ Pending = << >> /\ Ahead = << >>
    BY DEF Init, Pending, Ahead, Unset
<1>2. LineStart = 0
    <2>1. Len(Pending) = 0 /\ Len(Ahead) = 0
        BY <1>1, EmptySeq
    <2>2. fpos = 0
        BY <1>1
    <2> QED
        BY <2>1, <2>2 DEF LineStart
<1> DEFINE none == [k \in 1..Len(delivered) |-> k]
<1>3. none \in [1..Len(delivered) -> {n \in 1..fpos : file[n] = NL}]
    BY <1>1
<1>4. CutsIntoLines(none) /\ Behind(none, Len(delivered)) = LineStart
    BY <1>1, <1>2 DEF CutsIntoLines, Behind
<1> QED
    BY <1>3, <1>4 DEF CutAtLineStart

\* More is read, and no line is given.
LEMMA CutKept ==
    ASSUME CutAtLineStart, UNCHANGED <<file, delivered>>, LineStart' = LineStart,
           fpos \in Nat, fpos' \in Nat, fpos <= fpos'
    PROVE  CutAtLineStart'
<1>1. PICK newlines \in [1..Len(delivered) -> {n \in 1..fpos : file[n] = NL}] :
          CutsIntoLines(newlines) /\ Behind(newlines, Len(delivered)) = LineStart
    BY DEF CutAtLineStart
<1>2. {n \in 1..fpos : file[n] = NL} \subseteq {n \in 1..fpos' : file[n] = NL}
    OBVIOUS
<1>3. newlines \in [1..Len(delivered') -> {n \in 1..fpos' : file'[n] = NL}]
    BY <1>1, <1>2
<1>4. CutsIntoLines(newlines)' /\ Behind(newlines, Len(delivered')) = LineStart'
    BY <1>1 DEF CutsIntoLines
<1> QED
    BY <1>3, <1>4 DEF CutAtLineStart

\* A line is given, and its newline is one cut more.
LEMMA CutCallBack ==
    ASSUME IInv, CutAtLineStart, CallBack
    PROVE  CutAtLineStart'
<1> DEFINE count == Len(delivered)
<1>1. PICK newlines \in [1..count -> {n \in 1..fpos : file[n] = NL}] :
          CutsIntoLines(newlines) /\ Behind(newlines, count) = LineStart
    BY DEF CutAtLineStart
<1>2. PICK c : c = LineStart + Len(line) + 1
    OBVIOUS
<1>3. /\ LineStart' = c /\ file[c] = NL /\ c <= fpos
      /\ SubSeq(file, LineStart + 1, LineStart + Len(line)) = line
    BY <1>2, CallBackInv
<1>4. /\ LineStart \in Nat /\ Len(line) \in Nat /\ fpos \in Nat
      /\ c \in 1..fpos /\ LineStart < c /\ c - 1 = LineStart + Len(line)
    <2>1. LineStart \in Nat /\ Len(line) \in Nat /\ fpos \in Nat
        BY DEF IInv, TypeOK
    <2> QED
        BY <1>2, <1>3, <2>1
<1>5. delivered' = Append(delivered, line) /\ UNCHANGED <<file, fpos>>
    BY DEF CallBack, source
<1>6. /\ count \in Nat /\ Len(delivered') = count + 1 /\ delivered'[count + 1] = line
      /\ \A k \in 1..count : delivered'[k] = delivered[k]
    BY <1>5 DEF IInv, TypeOK
<1>7. PICK longer : longer = [k \in 1..count + 1 |-> IF k = count + 1 THEN c ELSE newlines[k]]
    OBVIOUS
<1> HIDE DEF count
<1>8. longer \in [1..count + 1 -> {n \in 1..fpos : file[n] = NL}]
    BY <1>1, <1>3, <1>4, <1>6, <1>7
<1>9. longer[count + 1] = c /\ \A k \in 1..count : longer[k] = newlines[k]
    BY <1>6, <1>7
<1>10. \A k \in 0..count : Behind(longer, k) = Behind(newlines, k)
    BY <1>6, <1>9 DEF Behind
<1>11. ASSUME NEW k \in 1..count + 1
       PROVE  /\ Behind(longer, k - 1) < longer[k]
              /\ delivered'[k] = SubSeq(file, Behind(longer, k - 1) + 1, longer[k] - 1)
    <2>1. CASE k = count + 1
        <3>1. Behind(longer, k - 1) = LineStart /\ longer[k] = c /\ delivered'[k] = line
            BY <1>1, <1>6, <1>9, <1>10, <2>1
        <3> QED
            BY <1>3, <1>4, <3>1
    <2>2. CASE k # count + 1
        <3>1. k \in 1..count /\ k - 1 \in 0..count
            BY <1>6, <2>2
        <3>2. /\ Behind(longer, k - 1) = Behind(newlines, k - 1) /\ longer[k] = newlines[k]
              /\ delivered'[k] = delivered[k]
            BY <1>6, <1>9, <1>10, <3>1
        <3>3. /\ Behind(newlines, k - 1) < newlines[k]
              /\ delivered[k] = SubSeq(file, Behind(newlines, k - 1) + 1, newlines[k] - 1)
            BY <1>1, <3>1 DEF CutsIntoLines, count
        <3> QED
            BY <3>2, <3>3
    <2> QED
        BY <2>1, <2>2
<1>12. CutsIntoLines(longer)'
    BY <1>5, <1>6, <1>11 DEF CutsIntoLines
<1>13. Behind(longer, Len(delivered')) = LineStart'
    BY <1>3, <1>6, <1>9 DEF Behind
<1>14. longer \in [1..Len(delivered') -> {n \in 1..fpos' : file'[n] = NL}]
    BY <1>5, <1>6, <1>8
<1> QED
    BY <1>12, <1>13, <1>14 DEF CutAtLineStart

LEMMA CutNext == IInv /\ CutAtLineStart /\ [Next]_vars => CutAtLineStart'
<1> SUFFICES ASSUME IInv, CutAtLineStart, [Next]_vars PROVE CutAtLineStart'
    OBVIOUS
<1>1. fpos \in Nat /\ fpos' \in Nat
    BY NextInv DEF IInv, TypeOK
<1>2. CASE Open \/ OpenFails \/ ReadFails \/ ReadReturns \/ Overrun \/ Returned \/ UNCHANGED vars
    <2>1. UNCHANGED Held /\ UNCHANGED <<file, delivered>>
        BY <1>2, ControlInv DEF Held, Returned, vars, Open, OpenFails, ReadFails, ReadReturns,
                                Overrun, source
    <2>2. fpos' = fpos /\ LineStart' = LineStart
        BY <2>1, HeldSame DEF Held
    <2> QED
        BY <1>1, <2>1, <2>2, CutKept
<1>3. CASE Refill \/ Copy \/ StoreChar \/ FillReturns
    <2>1. LineStart' = LineStart
        BY <1>3, RefillInv, CopyInv, StoreCharInv, FillReturnsInv
    <2>2. fpos <= fpos' /\ UNCHANGED <<file, delivered>>
        BY <1>1, <1>3, RefillInv DEF Refill, Copy, StoreChar, FillReturns, source
    <2> QED
        BY <1>1, <2>1, <2>2, CutKept
<1>4. CASE CallBack
    BY <1>4, CutCallBack
<1> QED
    BY <1>2, <1>3, <1>4 DEF Next

\* No byte is lost, doubled or moved between read() and the callback: newlines
\* cut what was read into the lines that were delivered and the rest that is
\* in the line, the chunk and the cache, for all files and all sizes.
THEOREM BytesConserved == Spec => []Conserved
<1>1. IInv /\ CutAtLineStart => Conserved
    BY DEF IInv, WindowIsFile, Window, CutAtLineStart, Conserved
<1> QED
    BY <1>1, CutInit, CutNext, Invariant, PTL DEF Spec

\* The line that is put together, and the bytes it stands for.
LEMMA LineIsWindow ==
    ASSUME IInv, fill_ret # STOP
    PROVE  /\ Pending = line /\ LineStart \in Nat /\ Len(line) \in Nat
           /\ LineStart + Len(line) + Len(Ahead) = fpos
           /\ \A k \in 1..Len(line) : file[LineStart + k] = line[k] /\ line[k] # NL
<1>0. TypeOK
    BY DEF IInv
<1>1. Pending = line
    BY DEF Pending
<1>2. /\ line \in Seq(Char) /\ line \in Seq(Char \ {NL}) /\ Ahead \in Seq(Char)
      /\ Len(line) \in Nat /\ Len(Ahead) \in Nat /\ fpos \in Nat /\ LineStart \in Nat
      /\ LineStart + Len(line) + Len(Ahead) = fpos
      /\ file \in Seq(Char) /\ fpos <= Len(file) /\ Len(file) \in Nat
    BY <1>0, <1>1, Shape DEF IInv
<1>3. SubSeq(file, LineStart + 1, fpos) = line \o Ahead
    BY <1>1 DEF IInv, WindowIsFile, Window
<1>4. ASSUME NEW k \in 1..Len(line) PROVE file[LineStart + k] = line[k] /\ line[k] # NL
    <2>1. k \in 1..(fpos - LineStart) /\ (line \o Ahead)[k] = line[k]
        BY <1>2
    <2>2. SubSeq(file, LineStart + 1, fpos)[k] = file[LineStart + k]
        BY <1>2, <2>1
    <2>3. line[k] \in Char \ {NL}
        BY <1>2, ElementOfSeq
    <2> QED
        BY <1>3, <2>1, <2>2, <2>3
<1> QED
    BY <1>1, <1>2, <1>4

\* A line buffer overrun is always the file's doing.
THEOREM OverrunsAreLongLines == Spec => []OverrunOnlyByLongLine
<1>1. IInv => OverrunOnlyByLongLine
    BY LineIsWindow DEF IInv, OverrunFull, OverrunOnlyByLongLine
<1> QED
    BY <1>1, Invariant, PTL

\* A callback that answered STOP is not called again.
THEOREM StopEnds == Spec => StopIsFinal
<1>1. [Next]_vars => [fill_ret = STOP => UNCHANGED <<delivered, fill_ret>>]_vars
    <2> SUFFICES ASSUME [Next]_vars, fill_ret = STOP
                 PROVE  UNCHANGED <<delivered, fill_ret>>
        OBVIOUS
    <2>1. CASE FillReturns
        BY <2>1 DEF FillReturns, Unset, STOP
    <2>2. CASE Open \/ OpenFails \/ Refill \/ ReadFails \/ Copy \/ ReadReturns
        BY <2>2 DEF Open, OpenFails, Refill, ReadFails, Copy, ReadReturns
    <2>3. CASE StoreChar \/ CallBack \/ Overrun
        BY <2>3 DEF StoreChar, CallBack, Overrun, Filling
    <2>4. CASE Returned \/ UNCHANGED vars
        BY <2>4 DEF Returned, vars
    <2> QED
        BY <2>1, <2>2, <2>3, <2>4 DEF Next
<1> QED
    BY <1>1, PTL DEF Spec, StopIsFinal

-----------------------------------------------------------------------------
\* The lines that are given.

LEMMA AtEnd ==
    ASSUME IInv, fill_ret # STOP, Ahead = << >>, fpos = Len(file)
    PROVE  Lines!NewlinesLeft = {}
<1>1. /\ LineStart \in Nat /\ Len(line) \in Nat /\ LineStart + Len(line) = Len(file)
      /\ \A k \in 1..Len(line) : file[LineStart + k] # NL
    BY LineIsWindow
<1>2. ASSUME NEW n \in (LineStart + 1)..Len(file) PROVE file[n] # NL
    <2>1. n - LineStart \in 1..Len(line) /\ LineStart + (n - LineStart) = n
        BY <1>1
    <2> QED
        BY <1>1, <2>1
<1> QED
    BY <1>2 DEF Lines!NewlinesLeft

LEMMA GivesInit == Init => Lines!Init
<1> SUFFICES ASSUME Init PROVE Lines!Init
    OBVIOUS
<1>1. Pending = << >> /\ Ahead = << >> /\ fpos = 0
    BY DEF Init, Pending, Ahead, Unset
<1>2. LineStart = 0
    <2>1. Len(Pending) = 0 /\ Len(Ahead) = 0
        BY <1>1, EmptySeq
    <2>2. fpos = 0
        BY <1>1
    <2> QED
        BY <2>1, <2>2 DEF LineStart
<1>3. Outcome = "open"
    BY DEF Init, Outcome
<1> QED
    BY <1>2, <1>3 DEF Init, Lines!Init

\* A step that leaves the lines alone, and the call open.
LEMMA GivesNothing ==
    ASSUME UNCHANGED <<file, delivered>>, LineStart' = LineStart,
           at \in {"open", "read", "fill"}, at' \in {"open", "read", "fill"}
    PROVE  UNCHANGED Lines!vars
BY DEF Lines!vars, Outcome

LEMMA GivesNext == IInv /\ [Next]_vars => [Lines!Next]_(Lines!vars)
<1> SUFFICES ASSUME IInv, [Next]_vars PROVE [Lines!Next]_(Lines!vars)
    OBVIOUS
<1>1. CASE Open \/ ReadReturns
    BY <1>1, ControlInv, HeldSame, GivesNothing DEF Open, ReadReturns, source
<1>2. CASE Refill \/ Copy \/ StoreChar
    <2>1. UNCHANGED <<file, delivered, at>> /\ at \in {"read", "fill"} /\ LineStart' = LineStart
        BY <1>2, RefillInv, CopyInv, StoreCharInv DEF Refill, Copy, StoreChar, Filling, source
    <2> QED
        BY <2>1, GivesNothing
<1>3. CASE OpenFails \/ ReadFails \/ Overrun
    <2>1. UNCHANGED <<file, delivered>> /\ LineStart' = LineStart
        BY <1>3, ControlInv, HeldSame DEF OpenFails, ReadFails, Overrun, source
    <2>2. Outcome = "open" /\ Outcome' = "short"
        BY <1>3 DEF OpenFails, ReadFails, Overrun, Filling, Outcome
    <2> QED
        BY <2>1, <2>2 DEF Lines!Next, Lines!StopShort
<1>4. CASE CallBack
    <2> DEFINE n == LineStart + Len(line) + 1
    <2>1. /\ LineStart' = n /\ file[n] = NL /\ n <= Len(file)
          /\ SubSeq(file, LineStart + 1, LineStart + Len(line)) = line
        BY <1>4, CallBackInv
    <2>2. /\ LineStart \in Nat /\ Len(line) \in Nat
          /\ \A k \in 1..Len(line) : file[LineStart + k] # NL
        BY <1>4, LineIsWindow DEF CallBack, Filling
    <2>3. n \in Lines!NewlinesLeft
        <3>1. Len(file) \in Nat
            BY DEF IInv, TypeOK
        <3>2. n \in (LineStart + 1)..Len(file)
            BY <2>1, <2>2, <3>1
        <3> QED
            BY <2>1, <3>2 DEF Lines!NewlinesLeft
    <2>4. ASSUME NEW m \in Lines!NewlinesLeft PROVE n <= m
        <3>1. m \in Nat /\ LineStart + 1 <= m /\ file[m] = NL
            BY <2>2 DEF Lines!NewlinesLeft
        <3>2. ASSUME m < n PROVE FALSE
            <4>1. m - LineStart \in 1..Len(line) /\ LineStart + (m - LineStart) = m
                BY <2>2, <3>1, <3>2
            <4> QED
                BY <2>2, <3>1, <4>1
        <3> QED
            BY <2>2, <3>1, <3>2
    <2>5. delivered' = Append(delivered, SubSeq(file, LineStart + 1, n - 1))
        <3>1. n - 1 = LineStart + Len(line)
            BY <2>2
        <3> QED
            BY <1>4, <2>1, <3>1 DEF CallBack
    <2>6. Outcome = "open" /\ Outcome' = "open" /\ file' = file
        BY <1>4 DEF CallBack, Filling, Outcome, source
    <2> HIDE DEF n
    <2> QED
        BY <2>1, <2>3, <2>4, <2>5, <2>6 DEF Lines!Next, Lines!GiveLine
<1>5. CASE FillReturns
    <2>1. UNCHANGED <<file, delivered>> /\ LineStart' = LineStart /\ at = "fill" /\ IInv'
        BY <1>5, FillReturnsInv DEF FillReturns, source
    <2>2. at' \in {"success", "read"}
        BY <1>5 DEF FillReturns
    <2>3. CASE at' = "read"
        BY <2>1, <2>3, GivesNothing
    <2>4. CASE at' = "success"
        <3>1. Outcome = "open"
            BY <2>1 DEF Outcome
        <3>2. Outcome' \in {"complete", "short"}
            BY <2>4 DEF Outcome
        <3>3. CASE Outcome' = "short"
            BY <2>1, <3>1, <3>3 DEF Lines!Next, Lines!StopShort
        <3>4. CASE Outcome' = "complete"
            <4>1. UNCHANGED <<chunk, next, fill_ret, cached, fpos, line>>
                BY <1>5, <2>4 DEF FillReturns, source
            <4>2. fill_ret # STOP /\ Ahead = << >> /\ fpos = Len(file)
                BY <2>1, <2>4, <3>4, <4>1 DEF Outcome, Ahead
            <4>3. Lines!NewlinesLeft = {}
                BY <4>2, AtEnd
            <4> QED
                BY <2>1, <3>1, <3>4, <4>3 DEF Lines!Next, Lines!Complete
        <3> QED
            BY <3>2, <3>3, <3>4
    <2> QED
        BY <2>2, <2>3, <2>4
<1>6. CASE Returned \/ UNCHANGED vars
    <2>1. UNCHANGED vars
        BY <1>6 DEF Returned
    <2> QED
        BY <2>1 DEF vars, Lines!vars, Outcome, LineStart, Ahead, Pending
<1> QED
    BY <1>1, <1>2, <1>3, <1>4, <1>5, <1>6 DEF Next

\* The line reader gives the lines of the file one by one, each exactly once,
\* in order and unchanged, and says complete only when all were given.
THEOREM ReaderGivesLines == Spec => GivesLines
<1>1. Spec => Init /\ [][Next]_vars
    BY PTL DEF Spec
<1> QED
    BY <1>1, GivesInit, GivesNext, Invariant, PTL DEF GivesLines, Lines!Spec

-----------------------------------------------------------------------------
\* The end of the iteration.

\* An uninitialised answer that looks like STOP.
TakenForStop ==
    /\ STOP \in UnsetReads /\ fill_ret = Unset
    /\ Len(chunk) = ChunkSize /\ NL \notin ToSet(chunk)

\* A chunk is cut short by what was taken for the end of the file only, an
\* answer is given by a newline only, and a call that returns success without
\* STOP has used up all there is, or took an uninitialised answer for STOP.
SeesTheEnd ==
    /\ eof => Faults \/ fpos = Len(file)
    /\ at \in {"open", "read"} => next = 0
    /\ at = "fill" => Len(chunk) = ChunkSize \/ (cached = << >> /\ eof)
    /\ at = "fill" /\ fill_ret = Unset => \A k \in 1..next : chunk[k] # NL
    /\ at = "success" /\ fill_ret # STOP => (Ahead = << >> /\ eof) \/ TakenForStop

LEMMA SeesInit == Init => SeesTheEnd
BY DEF Init, SeesTheEnd

LEMMA SeesNext == IInv /\ SeesTheEnd /\ [Next]_vars => SeesTheEnd'
<1> SUFFICES ASSUME IInv, SeesTheEnd, [Next]_vars PROVE SeesTheEnd'
    OBVIOUS
<1>0. TypeOK
    BY DEF IInv
<1>1. CASE Open \/ OpenFails \/ ReadFails \/ ReadReturns \/ Overrun
    BY <1>1 DEF Open, OpenFails, ReadFails, ReadReturns, Overrun, source, SeesTheEnd
<1>2. CASE Refill
    <2>1. UNCHANGED <<file, at, next>> /\ at = "read"
        BY <1>2 DEF Refill
    <2> DEFINE most == Smaller(BufSize, Len(file) - fpos)
    <2>2. ASSUME Faults = FALSE PROVE fpos' = fpos + most /\ eof' = (most # BufSize)
        BY <1>2, <2>2 DEF Refill
    <2>3. most # BufSize => most = Len(file) - fpos
        BY DEF Smaller
    <2> HIDE DEF most
    <2>4. ASSUME eof', Faults = FALSE PROVE fpos' = Len(file)
        <3>1. fpos' = fpos + (Len(file) - fpos)
            BY <2>2, <2>3, <2>4
        <3>2. fpos \in Nat /\ Len(file) \in Nat
            BY <1>0 DEF TypeOK
        <3> QED
            BY <3>1, <3>2
    <2> QED
        BY <2>1, <2>4, FaultsAssumption DEF SeesTheEnd
<1>3. CASE Copy
    BY <1>3 DEF Copy, SeesTheEnd
<1>4. CASE StoreChar
    <2>1. /\ UNCHANGED <<file, fpos, eof, cached, chunk, at, fill_ret>> /\ at = "fill"
          /\ next' = next + 1 /\ chunk[next + 1] # NL
        BY <1>4 DEF StoreChar, Filling, Char_c, source
    <2>2. next \in Nat
        BY <1>0 DEF TypeOK
    <2>3. ASSUME fill_ret = Unset, NEW k \in 1..(next + 1) PROVE chunk[k] # NL
        BY <2>1, <2>2, <2>3 DEF SeesTheEnd
    <2> QED
        BY <2>1, <2>3 DEF SeesTheEnd
<1>5. CASE CallBack
    <2>1. /\ UNCHANGED <<file, fpos, eof, cached, chunk, at>> /\ at = "fill"
          /\ fill_ret' # Unset
        BY <1>5 DEF CallBack, Filling, source, CONTINUE, STOP, Unset
    <2> QED
        BY <2>1 DEF SeesTheEnd
<1>6. CASE FillReturns
    <2>1. UNCHANGED <<file, fpos, cached, eof, line>> /\ at = "fill" /\ at' \in {"success", "read"}
        BY <1>6 DEF FillReturns, source
    <2>2. at' = "read" => next' = 0
        BY <1>6 DEF FillReturns
    <2>3. ASSUME at' = "success", fill_ret' # STOP PROVE (Ahead' = << >> /\ eof') \/ TakenForStop'
        <3>1. UNCHANGED <<chunk, next, fill_ret>> /\ next = Len(chunk)
            BY <1>6, <2>3 DEF FillReturns
        <3>2. CASE Len(chunk) < ChunkSize
            <4>1. cached = << >> /\ eof
                BY <1>0, <2>1, <3>2, SizeAssumption DEF SeesTheEnd, TypeOK
            <4>2. SubSeq(chunk, next + 1, Len(chunk)) = << >>
                BY <1>0, <3>1 DEF TypeOK
            <4>3. Ahead = << >>
                BY <4>1, <4>2, EmptySeq, ConcatEmptySeq DEF Ahead
            <4> QED
                BY <2>1, <3>1, <4>1, <4>3 DEF Ahead
        <3>3. CASE ~(Len(chunk) < ChunkSize)
            <4>1. Len(chunk) = ChunkSize
                BY <1>0, <3>3, SizeAssumption DEF TypeOK
            <4>2. STOP \in UnsetReads /\ fill_ret = Unset
                BY <1>6, <2>3, <3>1, <3>3 DEF FillReturns
            <4>3. \A k \in 1..Len(chunk) : chunk[k] # NL
                BY <2>1, <3>1, <4>2 DEF SeesTheEnd
            <4>4. NL \notin ToSet(chunk)
                BY <1>0, <4>3 DEF ToSet, TypeOK
            <4> QED
                BY <3>1, <4>1, <4>2, <4>4 DEF TakenForStop
        <3> QED
            BY <3>2, <3>3
    <2> QED
        BY <2>1, <2>2, <2>3 DEF SeesTheEnd
<1>7. CASE Returned \/ UNCHANGED vars
    BY <1>7 DEF Returned, vars, SeesTheEnd, TakenForStop, Ahead
<1> QED
    BY <1>1, <1>2, <1>3, <1>4, <1>5, <1>6, <1>7 DEF Next

LEMMA SeesAll == IInv /\ SeesTheEnd => SuccessIsComplete
<1> SUFFICES ASSUME IInv, SeesTheEnd, at = "success", fill_ret # STOP
             PROVE  \/ Lines!NewlinesLeft = {}
                    \/ Faults /\ eof /\ fpos < Len(file)
                    \/ TakenForStop
    BY DEF SuccessIsComplete, TakenForStop
<1>1. CASE Ahead = << >> /\ eof /\ fpos = Len(file)
    BY <1>1, AtEnd
<1>2. CASE Ahead = << >> /\ eof /\ fpos # Len(file)
    <2>1. fpos \in 0..Len(file) /\ Len(file) \in Nat
        BY DEF IInv, TypeOK
    <2> QED
        BY <1>2, <2>1 DEF SeesTheEnd
<1>3. CASE TakenForStop
    BY <1>3
<1> QED
    BY <1>1, <1>2, <1>3 DEF SeesTheEnd

\* A success without STOP has gone through every line of the file, but after a
\* read that came short, and where a full chunk had no newline and what was
\* never assigned was taken for STOP.
THEOREM SuccessGivesAll == Spec => []SuccessIsComplete
BY SeesAll, SeesInit, SeesNext, Invariant, PTL DEF Spec
=============================================================================
