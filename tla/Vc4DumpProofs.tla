--------------------------- MODULE Vc4DumpProofs ---------------------------
(***************************************************************************)
(* Proofs about Vc4Dump, for every file, base address and word size of     *)
(* current_pc, with or without faults.                                     *)
(***************************************************************************)
EXTENDS Vc4Dump, Vc4DecodeProofs, SequenceTheorems, TLAPS

-----------------------------------------------------------------------------
\* The third test of fetch_next_instr, on the whole first word.
LEMMA ThreeWordsLimit ==
    ASSUME NEW w \in Halfword
    PROVE  ThreeWords(w) <=> w < \hF800
<1>1. w \in Int /\ 0 <= w /\ w <= 65535
    BY DEF Halfword
<1> QED
    BY <1>1, SMT DEF ThreeWords

\* fetch_next_instr and vc4_decode_instr agree on the length of every first
\* word except 0xe000 (vc4_dump.c:17, 25, 33 and vc4_decode.c:228-240).
LEMMA FetchAgreesWithDecode ==
    ASSUME NEW w \in Halfword
    PROVE  /\ OneWord(w) => InstructionLength(w) = 1
           /\ ~OneWord(w) => InstructionLength(w) >= 2
           /\ ~OneWord(w) /\ TwoWords(w) => InstructionLength(w) = 2
           /\ ~TwoWords(w) => ~OneWord(w) /\ InstructionLength(w) >= 3
           /\ ~TwoWords(w) /\ ThreeWords(w) => InstructionLength(w) = 3
           /\ ~ThreeWords(w) => ~TwoWords(w) /\ InstructionLength(w) = 5
<1>1. w \in Int
    BY DEF Halfword
<1> QED
    BY <1>1, ThreeWordsLimit, SMT DEF InstructionLength, DecodedSize, OneWord, TwoWords

-----------------------------------------------------------------------------
(***************************************************************************)
(* Types.                                                                  *)
(***************************************************************************)
\* What is between the reads and the next round: a row.
LEMMA RowIsTyped ==
    ASSUME TypeOK, instr_sz \in {2, 4, 6, 10}, pos - instr_sz \div 2 \in Nat
    PROVE  Row \in RowType
<1>1. vc4_decode_instr(instr) \in Entries
    BY DecodeIsEntry DEF TypeOK
<1> DEFINE w == [n \in 0..(instr_sz \div 2 - 1) |-> instr[n]]
<1>2. w \in [0..0 -> Halfword] \cup [0..1 -> Halfword] \cup
           [0..2 -> Halfword] \cup [0..4 -> Halfword]
    <2>1. CASE instr_sz = 2
        BY <2>1 DEF TypeOK
    <2>2. CASE instr_sz = 4
        BY <2>2 DEF TypeOK
    <2>3. CASE instr_sz = 6
        BY <2>3 DEF TypeOK
    <2>4. CASE instr_sz = 10
        BY <2>4 DEF TypeOK
    <2> QED
        BY <2>1, <2>2, <2>3, <2>4
<1> HIDE DEF w
<1>3. Row = [start |-> pos - instr_sz \div 2, addr |-> current_pc,
             size |-> instr_sz, words |-> w, entry |-> vc4_decode_instr(instr)]
    BY DEF Row, w
<1> QED
    BY <1>1, <1>2, <1>3 DEF TypeOK, RowType
-----------------------------------------------------------------------------
(***************************************************************************)
(* The inductive invariant.  The properties of the rows do not carry over  *)
(* a step by themselves: a row's address and words are right because the   *)
(* loop keeps its place, and its type is because the row starts at Cursor. *)
(***************************************************************************)
IInv == TypeOK /\ KeepsItsPlace /\ RowAddresses /\ ShownWords

LEMMA CursorIsNat ==
    ASSUME TypeOK
    PROVE  Cursor \in Nat
<1>1. CASE listing = << >>
    BY <1>1 DEF Cursor
<1>2. CASE listing # << >>
    <2>1. listing[Len(listing)] \in RowType
        BY <1>2 DEF TypeOK
    <2>2. RowEnd(listing[Len(listing)]) \in Nat
        BY <2>1 DEF RowType, RowEnd
    <2> QED
        BY <1>2, <2>2, Zenon DEF Cursor
<1> QED
    BY <1>1, <1>2

\* The listing and the cursor after a row is printed.
LEMMA RowAppended ==
    ASSUME TypeOK, listing' = Append(listing, Row), Row \in RowType
    PROVE  /\ listing' \in Seq(RowType)
           /\ Cursor' = RowEnd(Row)
           /\ Rows' = Rows \cup {Row}
           /\ Len(listing') = Len(listing) + 1
           /\ listing'[Len(listing) + 1] = Row
           /\ \A n \in 1..Len(listing) : listing'[n] = listing[n]
<1> DEFINE r == Row
<1>1. listing \in Seq(RowType) /\ r \in RowType /\ listing' = Append(listing, r)
    BY DEF TypeOK
<1> HIDE DEF r
<1>2. /\ listing' \in Seq(RowType) /\ listing' # << >>
      /\ Len(listing') = Len(listing) + 1
      /\ Len(listing) \in Nat
      /\ listing'[Len(listing) + 1] = r
      /\ \A n \in 1..Len(listing) : listing'[n] = listing[n]
    BY <1>1, SMT
<1>3. Cursor' = RowEnd(r)
    BY <1>2, Zenon DEF Cursor, RowEnd
<1>4. Rows' = Rows \cup {r}
    BY <1>2, SMT DEF Rows
<1> QED
    BY <1>2, <1>3, <1>4, Zenon DEF r

\* The invariant holds initially.
LEMMA InitInv == Init => IInv
<1> SUFFICES ASSUME Init PROVE IInv
    OBVIOUS
<1>1. TypeOK
    BY ImagesAssumption, StaleAssumption, PcAssumption, SMT DEF Init, TypeOK, FetchPoints
<1>2. Cursor = 0 /\ Rows = {}
    BY DEF Init, Cursor, Rows
<1>3. (BaseAddr + 2 * 0) % PcModulus = BaseAddr
    BY PcAssumption, SMT
<1>4. KeepsItsPlace
    BY <1>2, <1>3 DEF Init, KeepsItsPlace
<1> QED
    BY <1>1, <1>2, <1>4 DEF IInv, RowAddresses, ShownWords
\* A step that prints nothing keeps what is said of the rows.
LEMMA RowsKept ==
    ASSUME RowAddresses, ShownWords, UNCHANGED <<image, listing>>
    PROVE  RowAddresses' /\ ShownWords' /\ Cursor' = Cursor
<1>1. Rows' = Rows /\ Cursor' = Cursor
    BY DEF Rows, Cursor, RowEnd
<1> QED
    BY <1>1 DEF RowAddresses, ShownWords, Original

\* Every step keeps the invariant.
LEMMA NextInv == IInv /\ [Next]_vars => IInv'
<1> SUFFICES ASSUME IInv, [Next]_vars
             PROVE  IInv'
    OBVIOUS
<1> USE DEF IInv
<1>c. Cursor \in Nat
    BY CursorIsNat
<1>i. image \in Seq(Halfword) /\ Len(image) \in Nat /\ pos \in Nat
      /\ instr \in [0..4 -> Halfword] /\ instr[0] \in Halfword
    BY DEF TypeOK
<1>1. CASE OpenImage
    <2>1. TypeOK'
        BY <1>1 DEF OpenImage, TypeOK, FetchPoints
    <2>2. RowAddresses' /\ ShownWords' /\ Cursor' = Cursor
        BY <1>1, RowsKept DEF OpenImage
    <2>3. KeepsItsPlace'
        BY <1>1, <2>2 DEF OpenImage, KeepsItsPlace
    <2> QED
        BY <2>1, <2>2, <2>3
<1>2. CASE Seek
    <2>1. TypeOK'
        BY <1>2 DEF Seek, TypeOK, FetchPoints
    <2>2. RowAddresses' /\ ShownWords' /\ Cursor' = Cursor
        BY <1>2, RowsKept DEF Seek
    <2>3. KeepsItsPlace'
        BY <1>2, <2>2 DEF Seek, KeepsItsPlace
    <2> QED
        BY <2>1, <2>2, <2>3
<1>3. CASE MainFails \/ SeekFails \/ FetchFails
    <2>1. TypeOK'
        BY <1>3 DEF MainFails, SeekFails, FetchFails, TypeOK
    <2>2. RowAddresses' /\ ShownWords' /\ Cursor' = Cursor
        BY <1>3, RowsKept DEF MainFails, SeekFails, FetchFails
    <2>3. KeepsItsPlace'
        BY <1>3, <2>2 DEF MainFails, SeekFails, FetchFails, KeepsItsPlace
    <2> QED
        BY <2>1, <2>2, <2>3
<1>4. CASE FetchFirst
    <2> DEFINE w == image[pos + 1]
    <2>1. w \in Halfword /\ pos' \in 0..Len(image) /\ pos = Cursor
        BY <1>4, <1>i, SMT DEF FetchFirst, Available, KeepsItsPlace
    <2>2. /\ instr' = [instr EXCEPT ![0] = w] /\ instr'[0] = w
          /\ instr' \in [0..4 -> Halfword] /\ instr'[0] = image[Cursor + 1]
        BY <1>4, <1>i, <2>1 DEF FetchFirst
    <2>3. RowAddresses' /\ ShownWords' /\ Cursor' = Cursor
        BY <1>4, RowsKept DEF FetchFirst
    <2>4. TypeOK'
        BY <1>4, <2>1, <2>2 DEF FetchFirst, Out, More, TypeOK, FetchPoints
    <2>5. CASE OneWord(w)
        <3>1. at' = "print" /\ instr_sz' = 2
            BY <1>4, <2>2, <2>5 DEF FetchFirst, Out
        <3>2. InstructionLength(instr'[0]) = 1
            BY <2>1, <2>2, <2>5, FetchAgreesWithDecode
        <3>3. pos' = Cursor' + instr_sz' \div 2 /\ instr_sz' \div 2 = 1
            BY <1>4, <1>c, <2>1, <2>3, <3>1, SMT DEF FetchFirst
        <3>4. FetchedUpTo(instr_sz \div 2)'
            BY <1>4, <2>2, <2>3, <3>3 DEF FetchFirst, FetchedUpTo
        <3>5. KeepsItsPlace'
            BY <1>4, <2>3, <3>1, <3>2, <3>4 DEF FetchFirst, KeepsItsPlace
        <3> QED
            BY <2>3, <2>4, <3>5
    <2>6. CASE ~OneWord(w)
        <3>1. at' = "fetch2"
            BY <1>4, <2>2, <2>6 DEF FetchFirst, More
        <3>2. FetchedUpTo(1)'
            BY <1>4, <2>1, <2>2, <2>3 DEF FetchFirst, FetchedUpTo
        <3>3. KeepsItsPlace'
            BY <1>4, <2>2, <2>3, <2>6, <3>1, <3>2 DEF FetchFirst, KeepsItsPlace, OneWord
        <3> QED
            BY <2>3, <2>4, <3>3
    <2> QED
        BY <2>5, <2>6
<1>5. CASE FetchSecond
    <2> DEFINE w == instr[0]
    <2>1. /\ image[pos + 1] \in Halfword /\ pos' \in 0..Len(image)
          /\ pos = Cursor + 1 /\ w = image[Cursor + 1] /\ ~OneWord(w)
        BY <1>5, <1>i, SMT DEF FetchSecond, Available, KeepsItsPlace, FetchedUpTo
    <2>2. instr' \in [0..4 -> Halfword] /\ instr'[0] = w
        BY <1>5, <1>i, <2>1 DEF FetchSecond
    <2>3. RowAddresses' /\ ShownWords' /\ Cursor' = Cursor
        BY <1>5, RowsKept DEF FetchSecond
    <2>4. TypeOK'
        BY <1>5, <2>1, <2>2 DEF FetchSecond, Out, More, TypeOK, FetchPoints
    <2>5. pos' = Cursor' + 2
        BY <1>5, <1>c, <2>1, <2>3 DEF FetchSecond
    <2>6. FetchedUpTo(2)'
        BY <1>5, <2>1, <2>2, <2>3, <2>5 DEF FetchSecond, FetchedUpTo
    <2>7. CASE TwoWords(w)
        <3>1. at' = "print" /\ instr_sz' = 4 /\ instr_sz' \div 2 = 2
            BY <1>5, <2>7 DEF FetchSecond, Out
        <3>2. InstructionLength(instr'[0]) = 2
            BY <1>i, <2>1, <2>2, <2>7, FetchAgreesWithDecode
        <3>3. KeepsItsPlace'
            BY <1>5, <2>3, <2>6, <3>1, <3>2 DEF FetchSecond, KeepsItsPlace
        <3> QED
            BY <2>3, <2>4, <3>3
    <2>8. CASE ~TwoWords(w)
        <3>1. at' = "fetch3"
            BY <1>5, <2>8 DEF FetchSecond, More
        <3>2. KeepsItsPlace'
            BY <1>5, <2>2, <2>3, <2>6, <2>8, <3>1 DEF FetchSecond, KeepsItsPlace, TwoWords
        <3> QED
            BY <2>3, <2>4, <3>2
    <2> QED
        BY <2>7, <2>8
<1>6. CASE FetchThird
    <2> DEFINE w == instr[0]
    <2>1. /\ image[pos + 1] \in Halfword /\ pos' \in 0..Len(image)
          /\ pos = Cursor + 2 /\ w = image[Cursor + 1] /\ ~TwoWords(w)
        BY <1>6, <1>i, SMT DEF FetchThird, Available, KeepsItsPlace, FetchedUpTo
    <2>2. /\ instr' \in [0..4 -> Halfword] /\ instr'[0] = w
          /\ instr'[2] = image[Cursor + 3]
        BY <1>6, <1>c, <1>i, <2>1 DEF FetchThird
    <2>3. RowAddresses' /\ ShownWords' /\ Cursor' = Cursor
        BY <1>6, RowsKept DEF FetchThird
    <2>4. TypeOK'
        BY <1>6, <2>1, <2>2 DEF FetchThird, Out, More, TypeOK, FetchPoints
    <2>5. pos' = Cursor' + 3
        BY <1>6, <1>c, <2>1, <2>3 DEF FetchThird
    <2>6. FetchedUpTo(3)'
        BY <1>6, <2>1, <2>2, <2>3, <2>5 DEF FetchThird, FetchedUpTo
    <2>7. CASE ThreeWords(w)
        <3>1. at' = "print" /\ instr_sz' = 6 /\ instr_sz' \div 2 = 3
            BY <1>6, <2>7 DEF FetchThird, Out
        <3>2. InstructionLength(instr'[0]) = 3
            BY <1>i, <2>1, <2>2, <2>7, FetchAgreesWithDecode
        <3>3. KeepsItsPlace'
            BY <1>6, <2>3, <2>6, <3>1, <3>2 DEF FetchThird, KeepsItsPlace
        <3> QED
            BY <2>3, <2>4, <3>3
    <2>8. CASE ~ThreeWords(w)
        <3>1. at' = "fetch4"
            BY <1>6, <2>8 DEF FetchThird, More
        <3>2. KeepsItsPlace'
            BY <1>6, <2>2, <2>3, <2>6, <2>8, <3>1 DEF FetchThird, KeepsItsPlace, ThreeWords
        <3> QED
            BY <2>3, <2>4, <3>2
    <2> QED
        BY <2>7, <2>8
<1>7. CASE FetchLast
    <2>1. /\ image[pos + 1] \in Halfword /\ image[pos + 2] \in Halfword
          /\ pos' \in 0..Len(image)
          /\ pos = Cursor + 3 /\ instr[0] = image[Cursor + 1]
          /\ instr[2] = image[Cursor + 3] /\ ~ThreeWords(instr[0])
        BY <1>7, <1>i, SMT DEF FetchLast, Available, KeepsItsPlace, FetchedUpTo
    <2>2. /\ instr' \in [0..4 -> Halfword] /\ instr'[0] = instr[0]
          /\ instr'[2] = instr[2]
          /\ instr'[3] = image[Cursor + 4] /\ instr'[4] = image[Cursor + 5]
        BY <1>7, <1>c, <1>i, <2>1 DEF FetchLast
    <2>3. RowAddresses' /\ ShownWords' /\ Cursor' = Cursor
        BY <1>7, RowsKept DEF FetchLast
    <2>4. TypeOK'
        BY <1>7, <2>1, <2>2 DEF FetchLast, Out, TypeOK, FetchPoints
    <2>5. /\ at' = "print" /\ instr_sz' = 10 /\ instr_sz' \div 2 = 5
          /\ pos' = Cursor' + 5
        BY <1>7, <1>c, <2>1, <2>3, SMT DEF FetchLast, Out
    <2>6. FetchedUpTo(instr_sz \div 2)'
        BY <1>7, <2>1, <2>2, <2>3, <2>5 DEF FetchLast, FetchedUpTo
    <2>7. InstructionLength(instr'[0]) = 5
        BY <1>i, <2>1, <2>2, FetchAgreesWithDecode
    <2>8. KeepsItsPlace'
        BY <1>7, <2>3, <2>5, <2>6, <2>7 DEF FetchLast, KeepsItsPlace
    <2> QED
        BY <2>3, <2>4, <2>8
<1>8. CASE PrintRow
    <2> DEFINE n == instr_sz \div 2
    <2>1. /\ at = "print" /\ at' = "fetch1" /\ listing' = Append(listing, Row)
          /\ current_pc' = (current_pc + instr_sz) % PcModulus
          /\ UNCHANGED <<image, pos, instr, instr_sz>>
        BY <1>8 DEF PrintRow
    <2>2. /\ FetchedUpTo(n) /\ instr_sz = 2 * InstructionLength(instr[0])
          /\ current_pc = (BaseAddr + 2 * Cursor) % PcModulus
        BY <2>1 DEF KeepsItsPlace
    <2>3. n \in {1, 2, 3, 5} /\ instr_sz = 2 * n /\ pos = Cursor + n
        <3>1. InstructionLength(instr[0]) \in {1, 2, 3, 5}
            BY <1>i, FetchAgreesWithDecode, SMT
        <3> QED
            BY <2>2, <3>1, SMT DEF FetchedUpTo
    <2>4. Row \in RowType /\ Row.start = Cursor /\ RowEnd(Row) = Cursor + n
        <3>1. pos - instr_sz \div 2 = Cursor
            BY <1>c, <2>3, SMT
        <3>2. Row \in RowType
            BY <1>c, <2>3, <3>1, RowIsTyped, SMT
        <3> QED
            BY <3>1, <3>2 DEF Row, RowEnd
    <2>5. /\ listing' \in Seq(RowType) /\ Cursor' = RowEnd(Row)
          /\ Rows' = Rows \cup {Row}
        BY <2>1, <2>4, RowAppended
    <2>6. TypeOK'
        <3>1. current_pc' \in 0..(PcModulus - 1)
            <4>1. current_pc + instr_sz \in Int /\ PcModulus \in Nat \ {0}
                BY PcAssumption, SMT DEF TypeOK
            <4> QED
                BY <2>1, <4>1, DivMod, Zenon
        <3> QED
            BY <2>1, <2>5, <3>1 DEF TypeOK, FetchPoints
    <2>7. KeepsItsPlace'
        <3>1. BaseAddr \in Int /\ PcModulus \in Nat \ {0}
            BY PcAssumption, SMT
        <3>2. current_pc' = ((BaseAddr + 2 * Cursor) + 2 * n) % PcModulus
            <4>1. BaseAddr + 2 * Cursor \in Int /\ 2 * n \in Int
                BY <1>c, <2>3, <3>1, SMT
            <4>2. current_pc' = (((BaseAddr + 2 * Cursor) % PcModulus) + 2 * n) % PcModulus
                BY <2>1, <2>2, <2>3
            <4> HIDE DEF n
            <4> QED
                BY <3>1, <4>1, <4>2, ModAdd
        <3>3. (BaseAddr + 2 * Cursor) + 2 * n = BaseAddr + 2 * (Cursor + n)
            BY <1>c, <2>3, <3>1, SMT
        <3>4. current_pc' = (BaseAddr + 2 * Cursor') % PcModulus
            BY <2>4, <2>5, <3>2, <3>3, Zenon
        <3>5. pos' = Cursor'
            BY <2>1, <2>3, <2>4, <2>5
        <3> QED
            BY <2>1, <3>4, <3>5 DEF KeepsItsPlace
    <2>8. RowAddresses'
        <3>1. Row.addr = (BaseAddr + 2 * Row.start) % PcModulus
            BY <2>2, <2>4 DEF Row
        <3> QED
            BY <2>5, <3>1 DEF RowAddresses
    <2>9. ShownWords'
        <3>1. ASSUME NEW k \in DOMAIN Row.words, k # 1
              PROVE  Row.words[k] = image[Row.start + k + 1]
            <4>1. k \in 0..(n - 1) /\ Row.words[k] = instr[k]
                BY <3>1, <2>3 DEF Row
            <4>2. k = 0 \/ (k = 2 /\ n >= 3) \/ (k \in {3, 4} /\ n >= 5)
                BY <2>3, <3>1, <4>1, SMT
            <4>3. instr[k] = image[Cursor + k + 1]
                BY <1>c, <2>2, <4>2, SMT DEF FetchedUpTo
            <4> QED
                BY <2>4, <4>1, <4>3
        <3> QED
            BY <2>1, <2>5, <3>1 DEF ShownWords, Original
    <2> QED
        BY <2>6, <2>7, <2>8, <2>9
<1>9. CASE UNCHANGED vars
    <2>1. RowAddresses' /\ ShownWords' /\ Cursor' = Cursor
        BY <1>9, RowsKept DEF vars
    <2>2. TypeOK' /\ KeepsItsPlace'
        BY <1>9, <2>1 DEF vars, TypeOK, KeepsItsPlace, FetchedUpTo
    <2> QED
        BY <2>1, <2>2
<1> QED
    BY <1>1, <1>2, <1>3, <1>4, <1>5, <1>6, <1>7, <1>8, <1>9 DEF Next, Exited

\* Every reachable state satisfies the invariant: the listing's types, the
\* loop's place in the file, and each row's address and words.
THEOREM Invariance == Spec => []IInv
<1> QED
    BY InitInv, NextInv, PTL DEF Spec

\* The state of vc4_dump.c stays within its C types and control points.
THEOREM TypeCorrect == Spec => []TypeOK
<1>1. IInv => TypeOK
    BY DEF IInv
<1> QED
    BY <1>1, Invariance, PTL

\* File offset, instr and current_pc stay in step at every control point.
THEOREM PlaceKept == Spec => []KeepsItsPlace
<1>1. IInv => KeepsItsPlace
    BY DEF IInv
<1> QED
    BY <1>1, Invariance, PTL

\* The address of every row is the base address plus its offset, modulo 2^32.
THEOREM AddressesRight == Spec => []RowAddresses
<1>1. IInv => RowAddresses
    BY DEF IInv
<1> QED
    BY <1>1, Invariance, PTL

\* No row shows a word that is not the file's, the second one apart.
THEOREM WordsRight == Spec => []ShownWords
<1>1. IInv => ShownWords
    BY DEF IInv
<1> QED
    BY <1>1, Invariance, PTL
-----------------------------------------------------------------------------
(***************************************************************************)
(* The program implements the linear sweep: printing a row is ListRow,     *)
(* the failing call that ends the program is Close, the rest stutters.     *)
(***************************************************************************)
\* The rows of the abstract listing.
Listed(l) == [n \in 1..Len(l) |-> [start |-> l[n].start, length |-> l[n].size \div 2]]

\* Printing a row appends its start and length to the abstract listing.
LEMMA ListedAppended ==
    ASSUME TypeOK, listing' = Append(listing, Row), Row \in RowType
    PROVE  Listed(listing)' =
             Append(Listed(listing),
                    [start |-> Row.start, length |-> Row.size \div 2])
<1> DEFINE r == [start |-> Row.start, length |-> Row.size \div 2]
           T == [start : Nat, length : Nat]
           before == Listed(listing)
           after == Listed(listing)'
           N == Len(listing)
<1>1. r \in T
    BY DEF RowType
<1>2. N \in Nat /\ Len(listing') = N + 1 /\ listing'[N + 1] = Row
      /\ (\A n \in 1..N : listing'[n] = listing[n])
      /\ (\A n \in 1..N : listing[n] \in RowType)
    BY RowAppended DEF TypeOK
<1>3. before \in Seq(T) /\ Len(before) = N
    BY <1>2 DEF Listed, RowType
<1>4. after \in [1..(N + 1) -> T] /\ after[N + 1] = r
      /\ \A n \in 1..N : after[n] = before[n]
    BY <1>1, <1>2, SMTT(40) DEF Listed, RowType
<1> HIDE DEF r, T, before, after, N
<1>5. /\ Append(before, r) \in Seq(T)
      /\ Len(Append(before, r)) = N + 1
      /\ Append(before, r)[N + 1] = r
      /\ \A n \in 1..N : Append(before, r)[n] = before[n]
    BY <1>1, <1>3, AppendProperties, ZenonT(40)
<1>6. \A n \in 1..(N + 1) : after[n] = Append(before, r)[n]
    BY <1>2, <1>4, <1>5, SMT
<1>7. after \in Seq(T) /\ Len(after) = N + 1
    BY <1>2, <1>4, SMT
<1>8. after = Append(before, r)
    BY <1>5, <1>6, <1>7, SeqEqual, Zenon
<1> QED
    BY <1>8, Zenon DEF r, before, after

LEMMA SweepInit == Init => Sweep!Init
BY DEF Init, Sweep!Init, Cursor

\* Every step is a step of the sweep or changes nothing it sees.
LEMMA SweepNext ==
    IInv /\ IInv' /\ [Next]_vars => [Sweep!Next]_(Sweep!vars)
<1> SUFFICES ASSUME IInv, IInv', [Next]_vars
             PROVE  [Sweep!Next]_(Sweep!vars)
    OBVIOUS
<1>c. Cursor \in Nat /\ Len(image) \in Nat /\ pos \in Nat /\ instr[0] \in Halfword
    BY CursorIsNat DEF IInv, TypeOK
<1>1. ASSUME UNCHANGED <<image, listing>>, at # "done", at' # "done"
      PROVE  UNCHANGED Sweep!vars
    BY <1>1 DEF Sweep!vars, Cursor, RowEnd
<1>2. CASE OpenImage \/ Seek
    BY <1>1, <1>2 DEF OpenImage, Seek
<1>3. CASE FetchFirst \/ FetchSecond \/ FetchThird \/ FetchLast
    BY <1>1, <1>3 DEF FetchFirst, FetchSecond, FetchThird, FetchLast, Out, More
<1>4. CASE MainFails \/ SeekFails \/ FetchFails
    <2>1. /\ at # "done" /\ at' = "done" /\ UNCHANGED <<image, listing>>
        BY <1>4 DEF MainFails, SeekFails, FetchFails, FetchPoints
    <2>2. Faults \/ ~Sweep!MoreRows
        <3> SUFFICES ASSUME ~Faults PROVE ~Sweep!MoreRows
            OBVIOUS
        <3>1. at \in FetchPoints /\ ~(pos + Wanted[at] <= Len(image))
            BY <1>4 DEF MainFails, SeekFails, FetchFails, Available
        <3>2. CASE at = "fetch1"
            BY <1>c, <3>1, <3>2 DEF IInv, KeepsItsPlace, Wanted, Sweep!MoreRows
        <3>3. CASE at = "fetch2"
            <4>1. InstructionLength(image[Cursor + 1]) >= 2 /\ pos = Cursor + 1
                BY <1>c, <3>3, FetchAgreesWithDecode
                   DEF IInv, KeepsItsPlace, FetchedUpTo
            <4>2. Wanted[at] = 1 /\ InstructionLength(image[Cursor + 1]) \in Int
                BY <1>c, <3>3, FetchAgreesWithDecode
                   DEF Wanted, InstructionLength, DecodedSize
            <4> QED
                BY <1>c, <3>1, <4>1, <4>2 DEF Sweep!MoreRows
        <3>4. CASE at = "fetch3"
            <4>1. InstructionLength(image[Cursor + 1]) >= 3 /\ pos = Cursor + 2
                BY <1>c, <3>4, FetchAgreesWithDecode
                   DEF IInv, KeepsItsPlace, FetchedUpTo
            <4>2. Wanted[at] = 1 /\ InstructionLength(image[Cursor + 1]) \in Int
                BY <3>4 DEF Wanted, InstructionLength, DecodedSize
            <4> QED
                BY <1>c, <3>1, <4>1, <4>2 DEF Sweep!MoreRows
        <3>5. CASE at = "fetch4"
            <4>1. InstructionLength(image[Cursor + 1]) = 5 /\ pos = Cursor + 3
                BY <1>c, <3>5, FetchAgreesWithDecode
                   DEF IInv, KeepsItsPlace, FetchedUpTo
            <4>2. Wanted[at] = 2
                BY <3>5 DEF Wanted
            <4> QED
                BY <1>c, <3>1, <4>1, <4>2 DEF Sweep!MoreRows
        <3> QED
            BY <3>1, <3>2, <3>3, <3>4, <3>5 DEF FetchPoints
    <2>3. Sweep!Close
        BY <2>1, <2>2 DEF Sweep!Close, Cursor, RowEnd
    <2> QED
        BY <2>3 DEF Sweep!Next
<1>5. CASE PrintRow
    <2> DEFINE len == InstructionLength(image[Cursor + 1])
    <2>1. /\ at = "print" /\ at' = "fetch1" /\ listing' = Append(listing, Row)
          /\ UNCHANGED <<image, pos, instr, instr_sz>>
        BY <1>5 DEF PrintRow
    <2>2. pos = Cursor + instr_sz \div 2 /\ instr_sz = 2 * len
        BY <2>1 DEF IInv, KeepsItsPlace, FetchedUpTo
    <2>3. len \in {1, 2, 3, 5} /\ instr_sz \div 2 = len
        BY <2>2, SMT DEF InstructionLength, DecodedSize
    <2>4. Row.start = Cursor /\ Row.size \div 2 = len /\ Row \in RowType
        <3>1. pos - instr_sz \div 2 = Cursor
            BY <1>c, <2>2, <2>3, SMT
        <3>2. Row \in RowType
            BY <1>c, <2>2, <2>3, <3>1, RowIsTyped, SMT DEF IInv
        <3> QED
            BY <2>3, <3>1, <3>2 DEF Row
    <2> HIDE DEF len
    <2>5. Cursor' = Cursor + len
        BY <2>1, <2>4, RowAppended DEF RowEnd, IInv
    <2>6. Cursor + len <= Len(image) /\ Cursor < Len(image)
        BY <1>c, <2>2, <2>3, SMT DEF IInv, TypeOK
    <2>7. Listed(listing)' = Append(Listed(listing), [start |-> Cursor, length |-> len])
        BY <2>1, <2>4, ListedAppended DEF IInv
    <2>8. Sweep!ListRow
        BY <2>1, <2>5, <2>6, <2>7 DEF Sweep!ListRow, Sweep!MoreRows, Listed, len
    <2> QED
        BY <2>8 DEF Sweep!Next
<1>6. CASE UNCHANGED vars
    BY <1>6 DEF vars, Sweep!vars, Cursor, RowEnd
<1> QED
    BY <1>2, <1>3, <1>4, <1>5, <1>6 DEF Next, Exited

\* The main loop implements LinearSweep: its rows tile the file from the
\* start, and without faults it stops only where no instruction is left.
THEOREM Sweeps == Spec => SweepsTheFile
<1>1. Spec => Sweep!Init /\ [][Sweep!Next]_(Sweep!vars)
    BY SweepInit, SweepNext, Invariance, PTL DEF Spec
<1> QED
    BY <1>1 DEF SweepsTheFile, Sweep!Spec
-----------------------------------------------------------------------------
\* The entry of a new row is the one its words in the file select.
LEMMA EntryKept == IInv /\ EntryOfWords /\ [Next]_vars => EntryOfWords'
<1> SUFFICES ASSUME IInv, EntryOfWords, [Next]_vars
             PROVE  EntryOfWords'
    OBVIOUS
<1>1. CASE UNCHANGED <<image, listing>>
    <2>1. Rows' = Rows
        BY <1>1 DEF Rows
    <2> QED
        BY <1>1, <2>1 DEF EntryOfWords, Original
<1>2. CASE PrintRow
    <2> DEFINE n == instr_sz \div 2
               file == [k \in 0..4 |-> IF k < n THEN image[Cursor + k + 1] ELSE 0]
    <2>1. /\ at = "print" /\ listing' = Append(listing, Row) /\ image' = image
          /\ FetchedUpTo(n) /\ instr_sz = 2 * InstructionLength(instr[0])
        BY <1>2 DEF PrintRow, IInv, KeepsItsPlace
    <2>2. /\ Cursor \in Nat /\ pos \in Nat /\ pos <= Len(image)
          /\ image \in Seq(Halfword) /\ instr \in [0..4 -> Halfword]
        BY CursorIsNat DEF IInv, TypeOK
    <2>3. n \in {1, 2, 3, 5} /\ instr_sz = 2 * n /\ pos = Cursor + n
        BY <2>1, SMT DEF InstructionLength, DecodedSize, FetchedUpTo
    <2>4. Row.start = Cursor /\ Row.size \div 2 = n /\ Row \in RowType
        <3>1. pos - instr_sz \div 2 = Cursor
            BY <2>2, <2>3, SMT
        <3>2. Row \in RowType
            BY <2>2, <2>3, <3>1, RowIsTyped, SMT DEF IInv
        <3> QED
            BY <3>1, <3>2 DEF Row
    <2>5. Rows' = Rows \cup {Row}
        BY <2>1, <2>4, RowAppended DEF IInv
    <2>6. file[0] = instr[0] /\ file[1] \in Int /\ instr[1] \in Int
        <3>1. n > 1 => image[Cursor + 2] \in Halfword
            BY <2>2, <2>3, SMT
        <3> QED
            <4>1. file[1] = IF 1 < n THEN image[Cursor + 2] ELSE 0
                BY <2>2
            <4>2. file[0] = image[Cursor + 1] /\ 0 < n
                BY <2>2, <2>3
            <4>3. instr[0] = image[Cursor + 1]
                BY <2>1, Zenon DEF FetchedUpTo
            <4>4. instr[1] \in Int /\ \A h \in Halfword : h \in Int
                <5>1. \A h \in Halfword : h \in Int
                    BY SMTT(30) DEF Halfword
                <5> QED
                    BY <2>2, <5>1
            <4> HIDE DEF file, n
            <4> QED
                BY <2>3, <3>1, <4>1, <4>2, <4>3, <4>4
    <2>7. Row.words[0] = instr[0] /\ Row.entry = vc4_decode_instr(instr)
        BY <2>3 DEF Row
    <2>8. DecodedSize(Row.words[0]) # 4 => Row.entry = vc4_decode_instr(file)
        BY <2>6, <2>7, DecodeByFirstWord, Zenon
    <2> HIDE DEF n
    <2>9. [k \in 0..4 |-> IF k < Row.size \div 2 THEN Original(Row, k) ELSE 0] = file
        BY <2>4 DEF Original
    <2> HIDE DEF file
    <2> QED
        BY <2>1, <2>5, <2>8, <2>9 DEF EntryOfWords, Original
<1> QED
    BY <1>1, <1>2 DEF Next, OpenImage, Seek, MainFails, SeekFails, FetchFirst, FetchSecond,
                      FetchThird, FetchLast, FetchFails, Exited, vars

\* 16-, 48- and 80-bit instructions are printed by the entry that the file's
\* words select, although instr[1] never receives the file's second word.
THEOREM EntriesRight == Spec => []EntryOfWords
<1>1. Init => EntryOfWords
    BY DEF Init, EntryOfWords, Rows
<1> QED
    BY <1>1, EntryKept, Invariance, PTL DEF Spec
=============================================================================
