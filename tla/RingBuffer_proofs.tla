-------------------------- MODULE RingBuffer_proofs --------------------------
(***************************************************************************)
(* Proofs about RingBuffer, for any number of writers and readers, any size *)
(* of the ring and any lengths of messages: what is committed is whole, and *)
(* readers that are not overtaken return whole messages, in order, and miss *)
(* none.                                                                    *)
(***************************************************************************)
EXTENDS RingBuffer, Integers, SequenceTheorems, TLAPS

----------------------------------------------------------------------------
(* Types *)

Cells == {Zero} \cup [kind : {"lens"}, total : Nat, data : Nat]
         \cup [kind : {"seq"}, n : Nat] \cup [kind : {"piece"}, msg : Nat, i : Nat]

WriterState == [pc : {"idle", "reserve", "marker", "sequence", "message", "await",
                      "commit", "dead"},
                len : Nat, seen : Nat, pad : Nat, retries : Nat, seq : Nat, msg : Nat]

ReaderState == [pc : {"none", "idle", "distance", "header", "copy"},
                start : Nat, pos : Nat, seen : Nat, lens : Nat \X Nat,
                seq : Nat, last : Nat, lost : Nat]

Reservation == [pos : Nat, len : Nat, end : Nat]

TypeInv ==
    /\ reserve \in Nat /\ commit \in Nat /\ sequence \in Nat
    /\ cell \in [0..(Size - 1) -> Cells]
    /\ writer \in [Writers -> WriterState]
    /\ reader \in [Readers -> ReaderState]
    /\ log \in Seq(Reservation)
    /\ got \in [Readers -> Seq(Nat)] /\ missed \in [Readers -> SUBSET Nat]

----------------------------------------------------------------------------
(* The reservations *)

Messages == 1..Len(log)

\* Where the reservation of a message begins: with its padding, behind the one before.
Start(m) == IF m = 1 THEN 0 ELSE log[m - 1].end

\* Reservations follow each other, and only the end of the ring is left out.
LogInv ==
    /\ reserve = Start(Len(log) + 1)
    /\ \A m \in Messages :
         /\ log[m].len >= 1 /\ log[m].end = log[m].pos + HeaderCells + log[m].len
         /\ Offset(log[m].pos) + HeaderCells + log[m].len <= Size
         /\ Start(m) <= log[m].pos /\ log[m].end <= reserve
         /\ Start(m) # log[m].pos => Offset(Start(m)) + (log[m].pos - Start(m)) = Size
    /\ \A m, k \in Messages : m < k => log[m].end <= Start(k)

\* What a writer knows of its reservation.
Owns(w) ==
    /\ writer[w].msg \in Messages
    /\ writer[w].seen = Start(writer[w].msg)
    /\ log[writer[w].msg].pos = writer[w].seen + writer[w].pad
    /\ log[writer[w].msg].len = writer[w].len

WriterInv ==
    /\ \A w \in Writers :
         /\ writer[w].msg # 0 => Owns(w)
         /\ writer[w].pc \in {"idle", "reserve"} => writer[w].msg = 0
         /\ writer[w].pc \in {"marker", "sequence", "message", "await", "commit"}
              => writer[w].msg # 0
         /\ writer[w].pc = "reserve" => writer[w].len >= 1 /\ HeaderCells + writer[w].len <= Size
    /\ \A v, w \in Writers : v # w /\ writer[v].msg # 0 => writer[v].msg # writer[w].msg

\* Commits follow the reservations, and nothing uncommitted is reserved again.
OrderInv ==
    /\ \E m \in 1..(Len(log) + 1) : commit = Start(m)
    /\ commit <= reserve /\ reserve <= commit + Size
    /\ \A w \in Writers : /\ writer[w].msg # 0 => commit <= writer[w].seen
                          /\ writer[w].pc = "commit" => commit = writer[w].seen

----------------------------------------------------------------------------
(* The data area *)

\* The message, and the wrap marker before it, are in the cells.
Intact(m) ==
    LET off == Offset(log[m].pos) IN
    /\ cell[off] = Lens(HeaderCells + log[m].len, log[m].len)
    /\ \A i \in 1..log[m].len : cell[off + HeaderCells + i - 1] = Piece(m, i)

Rest(m) == log[m].pos - Start(m)

Marked(m) == Rest(m) >= HeaderCells => cell[Offset(Start(m))] = Lens(Rest(m), 0)

Unwritten(m) == \E w \in Writers : /\ writer[w].msg = m
                                   /\ writer[w].pc \in {"marker", "sequence", "message", "dead"}

Unmarked(m) == \E w \in Writers : writer[w].msg = m /\ writer[w].pc \in {"marker", "dead"}

MemoryInv ==
    \A m \in Messages :
       /\ reserve <= log[m].pos + Size /\ ~Unwritten(m) => Intact(m)
       /\ reserve <= Start(m) + Size /\ ~Unmarked(m) => Marked(m)

RingInv == TypeInv /\ LogInv /\ WriterInv /\ (broken = {} => OrderInv /\ MemoryInv)

----------------------------------------------------------------------------
(* The readers *)

Boundary(p) == \E m \in 1..(Len(log) + 1) : p = Start(m)

\* Where a reader may be: before a reservation, or before its message.
Place(p) == Boundary(p) \/ \E m \in Messages : p = log[m].pos

Reads(r, m) == reader[r].pos = log[m].pos
               /\ reader[r].lens = <<HeaderCells + log[m].len, log[m].len>>

Returned(r) == {got[r][i] : i \in DOMAIN got[r]}

PlaceInv(r) ==
    /\ reader[r].pc = "none" => got[r] = <<>> /\ missed[r] = {}
    /\ reader[r].pc # "none" =>
         /\ Place(reader[r].pos) /\ reader[r].pos <= commit /\ reader[r].start <= reader[r].pos
    /\ reader[r].pc \in {"distance", "header", "copy"} =>
         Boundary(reader[r].seen) /\ reader[r].pos < reader[r].seen /\ reader[r].seen <= commit
    /\ reader[r].pc \in {"header", "copy"} => reserve <= reader[r].pos + Size
    /\ reader[r].pc = "copy" => \E m \in Messages : Reads(r, m)

\* The messages between two positions.
Span(a, b) == {m \in Messages : a <= log[m].pos /\ log[m].end <= b}

\* A reader returned or knowingly skipped what lies below its position.
Follows(r) ==
    /\ PlaceInv(r)
    /\ reader[r].pc # "none" => Returned(r) \cup missed[r] = Span(reader[r].start, reader[r].pos)
    /\ \A i \in DOMAIN got[r] : got[r][i] # 0
    /\ \A i, j \in DOMAIN got[r] : i < j => got[r][i] < got[r][j]

\* What was left of the ring before a message could take a wrap marker.
RestsFit == \A m \in Messages : Rest(m) # 1

ReaderInv == RestsFit => \A r \in Readers : Trusted(r) => Follows(r)

----------------------------------------------------------------------------
(* Offsets *)

\* Division by the size of the ring.
LEMMA Division ==
    ASSUME NEW a \in Nat
    PROVE  /\ Offset(a) \in Nat /\ Offset(a) < Size /\ a \div Size \in Nat
           /\ a = (Size * (a \div Size)) + Offset(a)
<1>1. Offset(a) \in Nat /\ Offset(a) < Size
  BY ONLY RingAssumption DEF Offset
<1>2. a \div Size \in Nat
  BY ONLY RingAssumption
<1>3. a = (Size * (a \div Size)) + Offset(a)
  BY ONLY RingAssumption DEF Offset
<1> QED
  BY ONLY <1>1, <1>2, <1>3, Zenon

\* Quotient and remainder are unique.
LEMMA Remainder ==
    ASSUME NEW q \in Int, NEW p \in Int, NEW x \in Nat, NEW y \in Nat, x < Size, y < Size,
           (Size * q) + x = (Size * p) + y
    PROVE  q = p /\ x = y
<1>0. Size \in Nat /\ Size >= 1
  BY ONLY RingAssumption
<1>1. Size * (q - p) = y - x
  BY <1>0
<1>2. q - p >= 1 => Size * (q - p) >= Size
  BY ONLY <1>0
<1>3. q - p <= -1 => Size * (q - p) <= -Size
  BY ONLY <1>0
<1>4. q = p
  BY <1>0, <1>1, <1>2, <1>3
<1> QED
  BY <1>0, <1>4

\* What does not run over the end of the ring keeps its distance.
LEMMA OffsetAdd ==
    ASSUME NEW a \in Nat, NEW i \in Nat, Offset(a) + i < Size
    PROVE  Offset(a + i) = Offset(a) + i
<1> DEFINE q == a \div Size
           p == (a + i) \div Size
<1>1. q \in Nat /\ a = (Size * q) + Offset(a) /\ Offset(a) \in Nat
  BY ONLY Division, Zenon
<1>2. p \in Nat /\ a + i = (Size * p) + Offset(a + i) /\ Offset(a + i) \in Nat /\ Offset(a + i) < Size
  BY ONLY Division
<1> HIDE DEF q, p
<1>3. Size * q \in Nat /\ Size * p \in Nat
  BY ONLY <1>1, <1>2, RingAssumption
<1>4. (Size * q) + (Offset(a) + i) = (Size * p) + Offset(a + i)
  BY ONLY <1>1, <1>2, <1>3
<1> QED
  BY <1>1, <1>2, <1>4, Remainder

\* The end of the ring is its beginning.
LEMMA OffsetWrap ==
    ASSUME NEW a \in Nat
    PROVE  Offset(a + (Size - Offset(a))) = 0
<1> DEFINE q == a \div Size
           b == a + (Size - Offset(a))
           p == b \div Size
<1>0. Size \in Nat /\ Size >= 1
  BY ONLY RingAssumption
<1>1. q \in Nat /\ a = (Size * q) + Offset(a) /\ Offset(a) \in Nat /\ Offset(a) < Size
  BY ONLY Division, Zenon
<1>2. b \in Nat
  BY ONLY <1>0, <1>1
<1>3. p \in Nat /\ b = (Size * p) + Offset(b) /\ Offset(b) \in Nat /\ Offset(b) < Size
  BY ONLY <1>2, Division, Zenon
<1>4. b = (Size * (q + 1)) + 0
  <2> HIDE DEF q
  <2>1. Size * (q + 1) = (Size * q) + Size
    BY ONLY <1>0, <1>1
  <2>2. Size * q \in Nat
    BY ONLY <1>0, <1>1
  <2> QED
    BY ONLY <1>0, <1>1, <2>1, <2>2
<1> HIDE DEF q, p, b
<1>5. Offset(b) = 0
  <2>1. q + 1 \in Int /\ p \in Int /\ 0 \in Nat /\ 0 < Size
    BY ONLY <1>0, <1>1, <1>3
  <2>2. (Size * p) + Offset(b) = (Size * (q + 1)) + 0
    BY ONLY <1>3, <1>4, Zenon
  <2> QED
    BY ONLY <1>3, <2>1, <2>2, Remainder, Zenon
<1> QED
  BY <1>5, Zenon DEF b

\* Two positions less than a ring apart have different cells.
LEMMA OffsetsDiffer ==
    ASSUME NEW a \in Nat, NEW b \in Nat, a < b, b < a + Size
    PROVE  Offset(a) # Offset(b)
<1> DEFINE q == a \div Size
           p == b \div Size
<1>1. q \in Nat /\ a = (Size * q) + Offset(a) /\ Offset(a) \in Nat
  BY ONLY Division, Zenon
<1>2. p \in Nat /\ b = (Size * p) + Offset(b) /\ Offset(b) \in Nat
  BY ONLY Division, Zenon
<1> HIDE DEF q, p
<1> SUFFICES ASSUME Offset(a) = Offset(b) PROVE FALSE
  BY Zenon
<1>0. Size \in Nat /\ Size >= 1
  BY ONLY RingAssumption
<1>3. b - a \in Nat /\ b - a < Size /\ b - a > 0
  BY <1>0
<1>4. (Size * p) + 0 = (Size * q) + (b - a)
  <2>1. Size * q \in Nat /\ Size * p \in Nat
    BY ONLY <1>0, <1>1, <1>2
  <2> QED
    BY <1>1, <1>2, <2>1
<1>5. 0 = b - a
  BY <1>0, <1>1, <1>2, <1>3, <1>4, Remainder
<1> QED
  BY ONLY <1>3, <1>5

----------------------------------------------------------------------------
(* Types *)

\* What a reader makes of a cell are two numbers.
LEMMA LengthsAtType ==
    ASSUME NEW c \in Cells
    PROVE  LengthsAt(c) \subseteq Nat \X Nat
<1>1. CASE c = Zero
  BY ONLY <1>1 DEF LengthsAt, Zero
<1>2. CASE c \in [kind : {"lens"}, total : Nat, data : Nat]
  BY ONLY <1>2 DEF LengthsAt
<1>3. CASE c \in [kind : {"seq"}, n : Nat] \cup [kind : {"piece"}, msg : Nat, i : Nat]
  BY ONLY <1>3, RingAssumption DEF LengthsAt
<1> QED
  BY <1>1, <1>2, <1>3, Zenon DEF Cells

\* Values of cells are stored in cells.
LEMMA StoredType ==
    ASSUME TypeInv, NEW off \in Nat, NEW values \in Seq(Cells)
    PROVE  Stored(off, values) \in [0..(Size - 1) -> Cells]
  BY RingAssumption DEF TypeInv, Stored

\* The cells of a message.
LEMMA ContentsCells ==
    ASSUME NEW n \in Nat, NEW m \in Nat, NEW s \in Nat
    PROVE  /\ Contents(m, n, s) \in Seq(Cells) /\ Len(Contents(m, n, s)) = HeaderCells + n
           /\ Contents(m, n, s)[1] = Lens(HeaderCells + n, n)
           /\ \A i \in 1..n : Contents(m, n, s)[HeaderCells + i] = Piece(m, i)
<1> DEFINE h == <<Lens(HeaderCells + n, n), Seqn(s)>>
           d == [i \in 1..n |-> Piece(m, i)]
<1>1. h \in Seq(Cells) /\ Len(h) = 2 /\ h[1] = Lens(HeaderCells + n, n)
  BY DEF Cells, Lens, Seqn, HeaderCells
<1>2. d \in [1..n -> Cells]
  BY DEF Cells, Piece
<1>3. d \in Seq(Cells)
  BY ONLY <1>2, SeqDef
<1>4. Len(d) = n /\ \A i \in 1..n : d[i] = Piece(m, i)
  <2>1. Len(d) \in Nat /\ DOMAIN d = 1..Len(d)
    BY ONLY <1>3, LenProperties, Zenon
  <2> QED
    BY ONLY <2>1
<1> HIDE DEF h, d
<1>5. /\ h \o d \in Seq(Cells) /\ Len(h \o d) = 2 + n
      /\ \A i \in 1..(2 + n) : (h \o d)[i] = IF i <= 2 THEN h[i] ELSE d[i - 2]
  <2>1. /\ h \o d \in Seq(Cells) /\ Len(h \o d) = Len(h) + Len(d)
        /\ \A i \in 1..(Len(h) + Len(d)) :
             (h \o d)[i] = IF i <= Len(h) THEN h[i] ELSE d[i - Len(h)]
    BY <1>1, <1>3, ConcatProperties, Zenon
  <2> QED
    BY ONLY <1>1, <1>4, <2>1, Zenon
<1>6. (h \o d)[1] = h[1]
  BY ONLY <1>5
<1>7. \A i \in 1..n : (h \o d)[2 + i] = d[i]
  <2>1. n \in Nat
    BY Zenon
  <2>2. \A i \in 1..n : 2 + i \in 1..(2 + n) /\ ~(2 + i <= 2) /\ (2 + i) - 2 = i
    BY ONLY <2>1
  <2> QED
    BY <1>5, <2>2, Zenon
<1>8. Contents(m, n, s) = h \o d
  BY Zenon DEF Contents, h, d
<1> QED
  BY <1>1, <1>4, <1>5, <1>6, <1>7, <1>8, Zenon DEF HeaderCells

\* A writer's step keeps the types.
LEMMA WriterTypes ==
    ASSUME TypeInv, NEW w \in Writers,
           WriterStep(w) \/ Crash(w) \/ \E n \in Lengths : BeginWrite(w, n)
    PROVE  TypeInv'
<1>0. /\ writer[w] \in WriterState /\ writer \in [Writers -> WriterState]
      /\ reserve \in Nat /\ commit \in Nat /\ sequence \in Nat /\ log \in Seq(Reservation)
      /\ Len(log) \in Nat
      /\ writer[w].len \in Nat /\ writer[w].seen \in Nat /\ writer[w].pad \in Nat
      /\ writer[w].seq \in Nat /\ writer[w].msg \in Nat
  BY SMTT(20) DEF TypeInv, WriterState
<1>1. ASSUME NEW n \in Lengths, BeginWrite(w, n) PROVE TypeInv'
  <2>1. n \in Nat
    BY ONLY RingAssumption, Zenon
  <2>2. writer' \in [Writers -> WriterState]
    BY <1>0, <1>1, <2>1, Zenon DEF BeginWrite, IdleWriter, WriterState
  <2> QED
    BY <1>1, <2>2, Zenon DEF BeginWrite, TypeInv, sharedVars, ghostVars
<1>2. CASE Reserve(w)
  <2>1. Padding(w) \in Nat /\ TotalSize(w) \in Nat
    <3>1. Offset(writer[w].seen) \in Nat /\ Offset(writer[w].seen) < Size
      BY <1>0, Division, Zenon DEF WriterState
    <3> QED
      BY <1>0, <3>1, RingAssumption, SMTT(20) DEF Padding, TotalSize, HeaderCells, WriterState
  <2>2. writer' \in [Writers -> WriterState]
    <3>1. writer' = [writer EXCEPT ![w] = [@ EXCEPT !.pc = "marker", !.pad = Padding(w), !.msg = Len(log) + 1]]
      BY <1>2, Zenon DEF Reserve
    <3>2. Len(log) + 1 \in Nat
      BY ONLY <1>0
    <3> QED
      BY <1>0, <2>1, <3>1, <3>2, Zenon DEF WriterState
  <2>4. reserve' \in Nat
    <3>1. reserve' = writer[w].seen + Padding(w) + TotalSize(w)
      BY <1>2, Zenon DEF Reserve
    <3> QED
      BY ONLY <1>0, <2>1, <3>1
  <2>3. log' \in Seq(Reservation)
    BY <1>0, <1>2, <2>1, SMTT(20) DEF Reserve, WriterState, Reservation
  <2> QED
    BY <1>2, <2>2, <2>3, <2>4, Zenon DEF Reserve, TypeInv
<1>3. CASE RetryReserve(w)
  <2>1. writer' \in [Writers -> WriterState]
    <3>1. IdleWriter \in WriterState
      BY Zenon DEF IdleWriter, WriterState
    <3>2. PICK n, x : /\ n = writer[w].retries + 1
                      /\ x = [writer[w] EXCEPT !.retries = n, !.seen = reserve]
      BY Zenon
    <3>3. n \in Nat
      <4>1. PICK k : k = writer[w].retries
        BY Zenon
      <4>2. k \in Nat /\ n = k + 1
        BY <1>0, <3>2, <4>1, Zenon DEF WriterState
      <4> QED
        BY ONLY <4>2
    <3>4. x \in WriterState
      BY <1>0, <3>2, <3>3, Zenon DEF WriterState
    <3>5. writer' = [writer EXCEPT ![w] = IdleWriter] \/ writer' = [writer EXCEPT ![w] = x]
      BY <1>3, <3>2, Zenon DEF RetryReserve
    <3> QED
      BY <1>0, <3>1, <3>4, <3>5, Zenon
  <2> QED
    BY <1>3, <2>1, Zenon DEF RetryReserve, TypeInv, sharedVars, ghostVars
<1>4. CASE WriteMarker(w)
  <2>1. writer' \in [Writers -> WriterState]
    BY <1>0, <1>4, Zenon DEF WriteMarker, Steps, WriterState
  <2>2. cell' \in [0..(Size - 1) -> Cells]
    <3>1. Offset(writer[w].seen) \in Nat
      BY <1>0, Division, Zenon DEF WriterState
    <3>2. <<Lens(writer[w].pad, 0), Seqn(0)>> \in Seq(Cells)
      BY ONLY <1>0 DEF Cells, Lens, Seqn, WriterState
    <3> QED
      BY <1>4, <3>1, <3>2, StoredType, Zenon DEF WriteMarker, TypeInv
  <2> QED
    BY <1>4, <2>1, <2>2, Zenon DEF WriteMarker, TypeInv, ghostVars
<1>5. CASE TakeSequence(w)
  <2>1. writer' \in [Writers -> WriterState]
    BY <1>0, <1>5, Zenon DEF TakeSequence, WriterState
  <2>2. sequence' \in Nat
    BY ONLY <1>0, <1>5 DEF TakeSequence
  <2> QED
    BY <1>5, <2>1, <2>2, Zenon DEF TakeSequence, TypeInv, ghostVars
<1>6. CASE WriteMessage(w)
  <2>1. writer' \in [Writers -> WriterState]
    BY <1>0, <1>6, Zenon DEF WriteMessage, Steps, WriterState
  <2>2. cell' \in [0..(Size - 1) -> Cells]
    <3>0. MessageAt(w) \in Nat
      BY ONLY <1>0 DEF MessageAt
    <3>1. Offset(MessageAt(w)) \in Nat
      BY ONLY <3>0, Division, Zenon
    <3>2. Contents(writer[w].msg, writer[w].len, writer[w].seq) \in Seq(Cells)
      BY <1>0, ContentsCells, Zenon
    <3> QED
      BY <1>6, <3>1, <3>2, StoredType, Zenon DEF WriteMessage
  <2> QED
    BY <1>6, <2>1, <2>2, Zenon DEF WriteMessage, TypeInv, ghostVars
<1>7. CASE AwaitTurn(w) \/ CommitTimeout(w) \/ Crash(w)
  <2>1. writer' \in [Writers -> WriterState]
    <3>1. \/ writer' = [writer EXCEPT ![w].pc = "commit"]
          \/ writer' = [writer EXCEPT ![w].pc = "dead"]
      BY <1>7, Zenon DEF AwaitTurn, CommitTimeout, Crash, Steps
    <3>2. CASE writer' = [writer EXCEPT ![w].pc = "commit"]
      BY <1>0, <3>2, Zenon DEF WriterState
    <3>3. CASE writer' = [writer EXCEPT ![w].pc = "dead"]
      BY <1>0, <3>3, Zenon DEF WriterState
    <3> QED
      BY ONLY <3>1, <3>2, <3>3, Zenon
  <2> QED
    BY <1>7, <2>1, Zenon DEF AwaitTurn, CommitTimeout, Crash, TypeInv, sharedVars, ghostVars
<1>8. CASE Commit(w)
  <2>1. writer' \in [Writers -> WriterState]
    BY <1>0, <1>8, Zenon DEF Commit, IdleWriter, WriterState
  <2>2. commit' \in Nat
    BY <1>0, <1>8, SMTT(20) DEF Commit, MessageAt, TotalSize, HeaderCells
  <2> QED
    BY <1>8, <2>1, <2>2, Zenon DEF Commit, TypeInv, ghostVars
<1> QED
  BY <1>1, <1>2, <1>3, <1>4, <1>5, <1>6, <1>7, <1>8, Zenon DEF WriterStep

\* The position after a header is a number.
LEMMA AfterHeaderType ==
    ASSUME TypeInv, NEW r \in Readers, NEW total \in Nat, NEW data \in Nat
    PROVE  AfterHeader(r, total, data) \in Nat
<1>1. reader[r].pos \in Nat /\ reader[r].seen \in Nat
  BY Zenon DEF TypeInv, ReaderState
<1> QED
  BY ONLY <1>1 DEF AfterHeader

\* The sequence number read is a number.
LEMMA SequenceAtType ==
    ASSUME TypeInv, NEW off
    PROVE  SequenceAt(off) \in Nat
<1>1. ASSUME NEW c \in Cells, c.kind = "seq" PROVE c.n \in Nat
  BY ONLY <1>1 DEF Cells, Zero
<1> QED
  BY <1>1, Zenon DEF SequenceAt, TypeInv

\* The records a reader's step leaves behind are states of a reader.
LEMMA ReaderRecords ==
    ASSUME NEW x \in ReaderState, NEW a \in Nat, NEW b \in Nat, NEW c \in Nat,
           NEW l \in Nat \X Nat
    PROVE  /\ [x EXCEPT !.pc = "distance", !.seen = a] \in ReaderState
           /\ [x EXCEPT !.pc = "idle", !.pos = a] \in ReaderState
           /\ [x EXCEPT !.pc = "header"] \in ReaderState
           /\ [x EXCEPT !.pc = "copy", !.lens = l, !.seq = a] \in ReaderState
           /\ [x EXCEPT !.pc = "idle", !.pos = a, !.last = b, !.lost = c] \in ReaderState
<1>1. [x EXCEPT !.pc = "distance", !.seen = a] \in ReaderState
  BY Zenon DEF ReaderState
<1>2. [x EXCEPT !.pc = "idle", !.pos = a] \in ReaderState
  BY Zenon DEF ReaderState
<1>3. [x EXCEPT !.pc = "header"] \in ReaderState
  BY Zenon DEF ReaderState
<1>4. [x EXCEPT !.pc = "copy", !.lens = l, !.seq = a] \in ReaderState
  BY Zenon DEF ReaderState
<1>5. [x EXCEPT !.pc = "idle", !.pos = a, !.last = b, !.lost = c] \in ReaderState
  BY Zenon DEF ReaderState
<1> QED
  BY ONLY <1>1, <1>2, <1>3, <1>4, <1>5, Zenon

\* A reader whose record is replaced by a state of a reader.
LEMMA ReaderReplaced ==
    ASSUME reader \in [Readers -> ReaderState], NEW r \in Readers, NEW x \in ReaderState
    PROVE  [reader EXCEPT ![r] = x] \in [Readers -> ReaderState]
  BY Zenon

\* A reader's step keeps the types.
LEMMA ReaderTypes ==
    ASSUME TypeInv, NEW r \in Readers, ReaderStep(r) \/ NewReader(r)
    PROVE  TypeInv'
<1>0. /\ reader[r] \in ReaderState /\ reader \in [Readers -> ReaderState]
      /\ reader[r].pos \in Nat /\ reader[r].seen \in Nat /\ reader[r].lens \in Nat \X Nat
      /\ reader[r].seq \in Nat /\ reader[r].last \in Nat /\ reader[r].lost \in Nat
      /\ reserve \in Nat /\ commit \in Nat /\ log \in Seq(Reservation)
      /\ got \in [Readers -> Seq(Nat)] /\ missed \in [Readers -> SUBSET Nat]
  BY Zenon DEF TypeInv, ReaderState
<1>1. CASE NewReader(r)
  <2>1. reader' \in [Readers -> ReaderState]
    BY <1>0, <1>1, Zenon DEF NewReader, IdleReader, ReaderState
  <2> QED
    BY <1>1, <2>1, Zenon DEF NewReader, TypeInv, sharedVars, ghostVars
<1>2. CASE LoadCommit(r)
  <2>1. PICK x : x = [reader[r] EXCEPT !.pc = "distance", !.seen = commit]
    BY Zenon
  <2>2. x \in ReaderState
    BY <1>0, <2>1, ReaderRecords, Zenon
  <2>3. reader' = [reader EXCEPT ![r] = x]
    BY <1>2, <2>1, Zenon DEF LoadCommit
  <2>4. reader' \in [Readers -> ReaderState]
    BY ONLY <1>0, <2>2, <2>3, ReaderReplaced, Zenon
  <2> QED
    BY <1>2, <2>4, Zenon DEF LoadCommit, TypeInv, sharedVars, ghostVars
<1>3. CASE CheckDistance(r)
  <2>1. reader' \in [Readers -> ReaderState]
    <3>1. \/ reader' = [reader EXCEPT ![r] = [@ EXCEPT !.pc = "idle", !.pos = reader[r].seen]]
          \/ reader' = [reader EXCEPT ![r].pc = "header"]
      BY <1>3, Zenon DEF CheckDistance
    <3>2. CASE reader' = [reader EXCEPT ![r] = [@ EXCEPT !.pc = "idle", !.pos = reader[r].seen]]
      <4>1. [reader[r] EXCEPT !.pc = "idle", !.pos = reader[r].seen] \in ReaderState
        BY <1>0, ReaderRecords, Zenon
      <4> QED
        BY ONLY <1>0, <3>2, <4>1, ReaderReplaced, Zenon
    <3>3. CASE reader' = [reader EXCEPT ![r].pc = "header"]
      <4>1. [reader[r] EXCEPT !.pc = "header"] \in ReaderState
        BY <1>0, ReaderRecords, Zenon
      <4> QED
        BY ONLY <1>0, <3>3, <4>1, ReaderReplaced, Zenon
    <3> QED
      BY ONLY <3>1, <3>2, <3>3, Zenon
  <2>2. missed' \in [Readers -> SUBSET Nat]
    <3>1. Between(r) \in SUBSET Nat
      BY DEF Between
    <3>2. missed' = [missed EXCEPT ![r] = @ \cup Between(r)] \/ missed' = missed
      BY <1>3, Zenon DEF CheckDistance
    <3> HIDE DEF Between
    <3> QED
      BY <1>0, <3>1, <3>2, Zenon
  <2> QED
    BY <1>3, <2>1, <2>2, Zenon DEF CheckDistance, TypeInv, sharedVars
<1>4. CASE ReadHeader(r)
  <2>1. PICK l \in LengthsAt(cell[Offset(reader[r].pos)]) :
          reader' = IF Readable(l[1], l[2])
                    THEN [reader EXCEPT ![r] =
                            [@ EXCEPT !.pc = "copy", !.lens = l,
                                      !.seq = SequenceAt(Offset(reader[r].pos) + 1)]]
                    ELSE [reader EXCEPT ![r] =
                            [@ EXCEPT !.pc = "idle", !.pos = AfterHeader(r, l[1], l[2])]]
    BY <1>4, Zenon DEF ReadHeader
  <2>2. cell[Offset(reader[r].pos)] \in Cells
    <3>1. Offset(reader[r].pos) \in 0..(Size - 1)
      <4>1. Offset(reader[r].pos) \in Nat /\ Offset(reader[r].pos) < Size
        BY <1>0, Division, Zenon
      <4> QED
        BY ONLY <4>1, RingAssumption
    <3> QED
      BY <3>1, Zenon DEF TypeInv
  <2>3. l \in Nat \X Nat
    BY ONLY <2>2, LengthsAtType, Zenon
  <2>4. AfterHeader(r, l[1], l[2]) \in Nat /\ SequenceAt(Offset(reader[r].pos) + 1) \in Nat
    BY <2>3, AfterHeaderType, SequenceAtType, Zenon
  <2>5. PICK q, s : q = AfterHeader(r, l[1], l[2]) /\ s = SequenceAt(Offset(reader[r].pos) + 1)
    BY Zenon
  <2>6. PICK x, y : /\ x = [reader[r] EXCEPT !.pc = "copy", !.lens = l, !.seq = s]
                    /\ y = [reader[r] EXCEPT !.pc = "idle", !.pos = q]
    BY Zenon
  <2>7. x \in ReaderState /\ y \in ReaderState
    BY <1>0, <2>3, <2>4, <2>5, <2>6, ReaderRecords, Zenon
  <2>8. reader' = [reader EXCEPT ![r] = x] \/ reader' = [reader EXCEPT ![r] = y]
    BY ONLY <2>1, <2>5, <2>6, Zenon
  <2>9. reader' \in [Readers -> ReaderState]
    BY <1>0, <2>7, <2>8, ReaderReplaced, Zenon
  <2> QED
    BY <1>4, <2>9, Zenon DEF ReadHeader, TypeInv, sharedVars, ghostVars
<1>5. CASE CopyMessage(r)
  <2>1. reader' \in [Readers -> ReaderState]
    <3>1. PICK q, k : q = reader[r].pos + reader[r].lens[1] /\ k = reader[r].lost + LostBefore(r)
      BY Zenon
    <3>2. q \in Nat /\ k \in Nat
      <4>1. PICK p, n, s, b, l : /\ p = reader[r].pos /\ n = reader[r].lens[1] /\ s = reader[r].seq
                                 /\ b = reader[r].last /\ l = reader[r].lost
        BY Zenon
      <4>2. p \in Nat /\ n \in Nat /\ s \in Nat /\ b \in Nat /\ l \in Nat
        BY <1>0, <4>1, Zenon
      <4>3. q = p + n /\ k = l + (IF b = 0 THEN 0 ELSE IF s < b + 1 THEN 0 ELSE s - (b + 1))
        BY <3>1, <4>1, Zenon DEF LostBefore, Monus
      <4> QED
        BY ONLY <4>2, <4>3
    <3>3. PICK x : x = [reader[r] EXCEPT !.pc = "idle", !.pos = q, !.last = reader[r].seq,
                                         !.lost = k]
      BY Zenon
    <3>4. x \in ReaderState
      BY <1>0, <3>2, <3>3, ReaderRecords, Zenon
    <3>5. reader' = [reader EXCEPT ![r] = x]
      BY <1>5, <3>1, <3>3, Zenon DEF CopyMessage
    <3> QED
      BY ONLY <1>0, <3>4, <3>5, ReaderReplaced, Zenon
  <2>2. Copied(r) \in Nat
    <3> DEFINE Whole(m) == LET from == Offset(reader[r].pos) + HeaderCells
                               len == reader[r].lens[2]
                           IN /\ log[m].len = len
                              /\ \A i \in 1..len : /\ from + i - 1 \in DOMAIN cell
                                                   /\ cell[from + i - 1] = Piece(m, i)
    <3>1. Copied(r) = IF \E m \in 1..Len(log) : Whole(m)
                      THEN CHOOSE m \in 1..Len(log) : Whole(m) ELSE 0
      BY Zenon DEF Copied
    <3> HIDE DEF Whole
    <3>2. Copied(r) \in 1..Len(log) \/ Copied(r) = 0
      BY ONLY <3>1, Zenon
    <3> QED
      BY ONLY <3>2
  <2>3. got' \in [Readers -> Seq(Nat)]
    BY ONLY <1>0, <1>5, <2>2 DEF CopyMessage
  <2> QED
    BY <1>5, <2>1, <2>3, Zenon DEF CopyMessage, TypeInv, sharedVars
<1> QED
  BY <1>1, <1>2, <1>3, <1>4, <1>5, Zenon DEF ReaderStep

----------------------------------------------------------------------------
(* Reservations *)

\* The numbers of a reservation.
LEMMA LogTypes ==
    ASSUME TypeInv
    PROVE  /\ Len(log) \in Nat
           /\ \A m \in Messages : log[m].pos \in Nat /\ log[m].len \in Nat /\ log[m].end \in Nat
           /\ \A m \in 1..(Len(log) + 1) : Start(m) \in Nat
<1>1. Len(log) \in Nat /\ \A m \in Messages : log[m] \in Reservation
  BY DEF TypeInv, Messages
<1>2. \A m \in Messages : log[m].pos \in Nat /\ log[m].len \in Nat /\ log[m].end \in Nat
  BY <1>1, Zenon DEF Reservation
<1>3. ASSUME NEW m \in 1..(Len(log) + 1) PROVE Start(m) \in Nat
  <2>1. CASE m = 1
    BY <2>1, Zenon DEF Start
  <2>2. CASE m # 1
    <3>1. m - 1 \in Messages
      BY ONLY <1>1, <2>2 DEF Messages
    <3> QED
      BY <1>2, <2>2, <3>1, Zenon DEF Start
  <2> QED
    BY ONLY <2>1, <2>2, Zenon
<1> QED
  BY ONLY <1>1, <1>2, <1>3, Zenon

\* The message of a reservation does not run over the end of the ring.
LEMMA PaddingFits ==
    ASSUME TypeInv, NEW w \in Writers, HeaderCells + writer[w].len <= Size
    PROVE  /\ Padding(w) \in Nat
           /\ Offset(writer[w].seen + Padding(w)) + HeaderCells + writer[w].len <= Size
           /\ Padding(w) # 0 => Offset(writer[w].seen) + Padding(w) = Size
<1>1. writer[w].seen \in Nat /\ writer[w].len \in Nat /\ Size \in Nat
  BY RingAssumption, Zenon DEF TypeInv, WriterState
<1>2. Offset(writer[w].seen) \in Nat /\ Offset(writer[w].seen) < Size
  BY <1>1, Division, Zenon
<1>3. CASE TotalSize(w) > Size - Offset(writer[w].seen)
  <2>1. Padding(w) = Size - Offset(writer[w].seen)
    BY <1>3, Zenon DEF Padding
  <2>2. Offset(writer[w].seen + Padding(w)) = 0
    BY ONLY <1>1, <2>1, OffsetWrap, Zenon
  <2> QED
    BY <1>1, <1>2, <2>1, <2>2 DEF HeaderCells
<1>4. CASE ~(TotalSize(w) > Size - Offset(writer[w].seen))
  <2>1. Padding(w) = 0 /\ writer[w].seen + Padding(w) = writer[w].seen
    BY ONLY <1>1, <1>4 DEF Padding
  <2>2. Offset(writer[w].seen) + HeaderCells + writer[w].len <= Size
    BY ONLY <1>1, <1>2, <1>4 DEF TotalSize, HeaderCells
  <2> QED
    BY ONLY <2>1, <2>2
<1> QED
  BY ONLY <1>3, <1>4, Zenon

\* A reservation is added behind the others, which stay as they are.
LEMMA ReserveAppends ==
    ASSUME TypeInv, LogInv, WriterInv, NEW w \in Writers, Reserve(w), NEW n, n = Len(log) + 1
    PROVE  /\ n \in Nat /\ Messages' = 1..n /\ Len(log') = n
           /\ \A m \in Messages : log'[m] = log[m]
           /\ \A m \in 1..n : Start(m)' = Start(m)
           /\ writer[w].seen = reserve /\ reserve = Start(n) /\ writer[w].len >= 1
           /\ log'[n].pos = reserve + Padding(w) /\ log'[n].len = writer[w].len
           /\ log'[n].end = log'[n].pos + HeaderCells + log'[n].len
           /\ reserve' = log'[n].end /\ Start(n + 1)' = reserve'
           /\ Padding(w) \in Nat
           /\ Offset(log'[n].pos) + HeaderCells + log'[n].len <= Size
           /\ Padding(w) # 0 => Offset(reserve) + Padding(w) = Size
<1> DEFINE e == [pos |-> writer[w].seen + Padding(w), len |-> writer[w].len,
                 end |-> writer[w].seen + Padding(w) + TotalSize(w)]
<1>0. /\ writer[w].seen = reserve /\ reserve' = e.end /\ log' = Append(log, e)
      /\ writer[w].pc = "reserve"
  BY Zenon DEF Reserve
<1>1. writer[w].len >= 1 /\ HeaderCells + writer[w].len <= Size
  BY <1>0, Zenon DEF WriterInv
<1>2. /\ Padding(w) \in Nat
      /\ Offset(writer[w].seen + Padding(w)) + HeaderCells + writer[w].len <= Size
      /\ Padding(w) # 0 => Offset(writer[w].seen) + Padding(w) = Size
  BY <1>1, PaddingFits, Zenon
<1>3. writer[w].seen \in Nat /\ writer[w].len \in Nat /\ log \in Seq(Reservation)
  BY Zenon DEF TypeInv, WriterState
<1>4. e \in Reservation
  <2>1. writer[w].seen + Padding(w) \in Nat /\ writer[w].seen + Padding(w) + TotalSize(w) \in Nat
    <3>1. Padding(w) \in Nat
      BY ONLY <1>2, Zenon
    <3>2. TotalSize(w) \in Nat
      BY ONLY <1>3 DEF TotalSize, HeaderCells
    <3> QED
      BY ONLY <1>3, <3>1, <3>2
  <2> QED
    BY <1>3, <2>1, Zenon DEF Reservation
<1> HIDE DEF e
<1>5. /\ Len(log) \in Nat /\ Len(log') = n /\ log'[n] = e
      /\ \A m \in 1..Len(log) : log'[m] = log[m]
  BY <1>0, <1>3, <1>4
<1>6. ASSUME NEW m \in 1..n PROVE Start(m)' = Start(m)
  <2>1. CASE m = 1
    BY <2>1, Zenon DEF Start
  <2>2. CASE m # 1
    <3>1. m - 1 \in 1..Len(log)
      BY <1>5, <2>2
    <3> QED
      BY <1>5, <2>2, <3>1, Zenon DEF Start
  <2> QED
    BY ONLY <2>1, <2>2, Zenon
<1>7. Start(n + 1)' = e.end
  <2>1. n + 1 # 1 /\ (n + 1) - 1 = n
    BY <1>5
  <2> QED
    BY <1>5, <2>1, Zenon DEF Start
<1>8. reserve = Start(n)
  BY Zenon DEF LogInv
<1>9. /\ e.pos = reserve + Padding(w) /\ e.len = writer[w].len
      /\ e.end = e.pos + HeaderCells + e.len
  BY ONLY <1>0, <1>2, <1>3 DEF e, TotalSize, HeaderCells
<1> QED
  BY ONLY <1>0, <1>1, <1>2, <1>5, <1>6, <1>7, <1>8, <1>9 DEF Messages

\* A reservation keeps LogInv.
LEMMA ReserveKeepsLog ==
    ASSUME TypeInv, LogInv, WriterInv, NEW w \in Writers, Reserve(w)
    PROVE  LogInv'
<1>1. PICK n : n = Len(log) + 1
  BY Zenon
<1>2. /\ n \in Nat /\ Messages' = 1..n /\ Len(log') = n
      /\ \A m \in Messages : log'[m] = log[m]
      /\ \A m \in 1..n : Start(m)' = Start(m)
      /\ reserve = Start(n) /\ log'[n].len >= 1
      /\ log'[n].pos = reserve + Padding(w)
      /\ log'[n].end = log'[n].pos + HeaderCells + log'[n].len
      /\ reserve' = log'[n].end /\ Start(n + 1)' = reserve'
      /\ Padding(w) \in Nat
      /\ Offset(log'[n].pos) + HeaderCells + log'[n].len <= Size
      /\ Padding(w) # 0 => Offset(reserve) + Padding(w) = Size
  BY <1>1, ReserveAppends, Zenon
<1>3. /\ Messages = 1..(n - 1) /\ reserve \in Nat /\ log'[n].len \in Nat /\ log'[n].pos \in Nat
      /\ reserve <= log'[n].pos /\ log'[n].pos <= reserve' /\ reserve' \in Nat
  <2>1. log' \in Seq(Reservation) /\ reserve \in Nat /\ n \in 1..Len(log')
    <3>1. TypeInv'
      BY WriterTypes, Zenon DEF WriterStep
    <3>2. n \in 1..Len(log')
      BY ONLY <1>1, <1>2, LogTypes
    <3> QED
      BY <3>1, <3>2, Zenon DEF TypeInv
  <2>2. log'[n] \in Reservation
    BY ONLY <2>1
  <2>3. log'[n].len \in Nat /\ log'[n].pos \in Nat /\ log'[n].end \in Nat
    BY <2>2, Zenon DEF Reservation
  <2>4. Messages = 1..(n - 1)
    <3>1. PICK k : k = Len(log)
      BY Zenon
    <3>2. k \in Nat /\ n = k + 1 /\ Messages = 1..k
      BY <1>1, <3>1, LogTypes, Zenon DEF Messages
    <3> QED
      BY ONLY <3>2
  <2>5. PICK p, e, l, q, z : /\ p = log'[n].pos /\ e = log'[n].end /\ l = log'[n].len
                             /\ q = Padding(w) /\ z = reserve
    BY Zenon
  <2>6. /\ z \in Nat /\ q \in Nat /\ l \in Nat /\ p \in Nat /\ e \in Nat
        /\ p = z + q /\ e = p + HeaderCells + l
    BY <1>2, <2>1, <2>3, <2>5, Zenon
  <2>7. z <= p /\ p <= e
    BY ONLY <2>6 DEF HeaderCells
  <2> QED
    BY <1>2, <2>1, <2>3, <2>4, <2>5, <2>7, Zenon
<1>4. reserve' = Start(Len(log) + 1)'
  BY ONLY <1>2, Zenon
<1>5. ASSUME NEW m \in Messages'
      PROVE  /\ log'[m].len >= 1 /\ log'[m].end = log'[m].pos + HeaderCells + log'[m].len
             /\ Offset(log'[m].pos) + HeaderCells + log'[m].len <= Size
             /\ Start(m)' <= log'[m].pos /\ log'[m].end <= reserve'
             /\ Start(m)' # log'[m].pos => Offset(Start(m)') + (log'[m].pos - Start(m)') = Size
  <2>1. CASE m = n
    <3>1. Start(m)' = reserve
      BY ONLY <1>2, <2>1, Zenon
    <3>2. log'[n].pos - reserve = Padding(w)
      BY ONLY <1>2, <1>3
    <3>3. reserve # log'[n].pos => Offset(reserve) + (log'[n].pos - reserve) = Size
      <4>1. reserve # log'[n].pos => Padding(w) # 0
        BY ONLY <1>2, <1>3
      <4> QED
        BY ONLY <1>2, <3>2, <4>1, Zenon
    <3>4. reserve <= log'[n].pos /\ log'[n].end <= reserve'
      BY ONLY <1>2, <1>3
    <3> QED
      BY ONLY <1>2, <2>1, <3>1, <3>3, <3>4, Zenon
  <2>2. CASE m # n
    <3>1. m \in Messages /\ m \in 1..n
      BY ONLY <1>2, <1>3, <2>2
    <3>2. log'[m] = log[m] /\ Start(m)' = Start(m)
      BY ONLY <1>2, <3>1, Zenon
    <3>3. log[m].end <= reserve'
      BY <1>3, <3>1, LogTypes DEF LogInv
    <3> QED
      BY <3>1, <3>2, <3>3, Zenon DEF LogInv
  <2> QED
    BY ONLY <2>1, <2>2, Zenon
<1>6. ASSUME NEW m \in Messages', NEW k \in Messages', m < k PROVE log'[m].end <= Start(k)'
  <2>1. m \in Messages /\ k \in 1..n /\ log'[m] = log[m] /\ Start(k)' = Start(k)
    BY <1>2, <1>3, <1>6
  <2>2. CASE k = n
    BY <1>2, <2>1, <2>2, Zenon DEF LogInv
  <2>3. CASE k # n
    <3>1. k \in Messages
      BY ONLY <1>2, <1>3, <2>1, <2>3
    <3> QED
      BY <1>6, <2>1, <3>1, Zenon DEF LogInv
  <2> QED
    BY ONLY <2>2, <2>3, Zenon
<1>7. \A m \in Messages' :
         /\ log'[m].len >= 1 /\ log'[m].end = log'[m].pos + HeaderCells + log'[m].len
         /\ Offset(log'[m].pos) + HeaderCells + log'[m].len <= Size
         /\ Start(m)' <= log'[m].pos /\ log'[m].end <= reserve'
         /\ Start(m)' # log'[m].pos => Offset(Start(m)') + (log'[m].pos - Start(m)') = Size
  BY ONLY <1>5, Zenon
<1> QED
  BY <1>4, <1>6, <1>7, Zenon DEF LogInv, Offset, HeaderCells

\* What a reservation gives its writer, and leaves the others.
LEMMA ReserveKeepsWriters ==
    ASSUME TypeInv, LogInv, WriterInv, NEW w \in Writers, Reserve(w)
    PROVE  /\ WriterInv'
           /\ writer'[w].pc = "marker" /\ writer'[w].msg = Len(log) + 1
           /\ writer'[w].seen = reserve
           /\ \A v \in Writers \ {w} : writer'[v] = writer[v]
<1>1. PICK n : n = Len(log) + 1
  BY Zenon
<1>2. /\ n \in Nat /\ Messages' = 1..n /\ Len(log') = n
      /\ \A m \in Messages : log'[m] = log[m]
      /\ \A m \in 1..n : Start(m)' = Start(m)
      /\ writer[w].seen = reserve /\ reserve = Start(n)
      /\ log'[n].pos = reserve + Padding(w) /\ log'[n].len = writer[w].len
  BY <1>1, ReserveAppends, Zenon
<1>3. Messages = 1..(n - 1) /\ n >= 1
  BY ONLY <1>1, LogTypes DEF Messages
<1>4. /\ writer' = [writer EXCEPT ![w] = [@ EXCEPT !.pc = "marker", !.pad = Padding(w), !.msg = n]]
      /\ writer \in [Writers -> WriterState]
  BY <1>1, Zenon DEF Reserve, TypeInv
<1>5. /\ writer'[w].pc = "marker" /\ writer'[w].msg = n /\ writer'[w].pad = Padding(w)
      /\ writer'[w].seen = reserve /\ writer'[w].len = writer[w].len
      /\ \A v \in Writers \ {w} : writer'[v] = writer[v]
  BY ONLY <1>2, <1>4 DEF WriterState
<1>6. Owns(w)'
  BY ONLY <1>2, <1>3, <1>5 DEF Owns
<1>7. ASSUME NEW v \in Writers \ {w}, writer[v].msg # 0 PROVE Owns(v)' /\ writer[v].msg # n
  <2>1. Owns(v) /\ writer'[v] = writer[v]
    BY <1>5, <1>7, Zenon DEF WriterInv
  <2>2. writer[v].msg \in Messages /\ writer[v].msg \in 1..n
    BY ONLY <1>2, <1>3, <2>1 DEF Owns
  <2>3. log'[writer[v].msg] = log[writer[v].msg]
    BY ONLY <1>2, <2>2, Zenon
  <2>4. Start(writer[v].msg)' = Start(writer[v].msg)
    <3>1. PICK k : k = writer[v].msg
      BY Zenon
    <3>2. Start(k)' = Start(k)
      BY ONLY <1>2, <2>2, <3>1, Zenon
    <3> QED
      BY ONLY <2>1, <3>1, <3>2, Zenon
  <2> QED
    BY ONLY <1>2, <1>3, <2>1, <2>2, <2>3, <2>4 DEF Owns
<1>8. ASSUME NEW v \in Writers
      PROVE  /\ writer'[v].msg # 0 => Owns(v)'
             /\ writer'[v].pc \in {"idle", "reserve"} => writer'[v].msg = 0
             /\ writer'[v].pc \in {"marker", "sequence", "message", "await", "commit"}
                  => writer'[v].msg # 0
             /\ writer'[v].pc = "reserve"
                  => writer'[v].len >= 1 /\ HeaderCells + writer'[v].len <= Size
  <2>1. CASE v = w
    BY ONLY <1>3, <1>5, <1>6, <2>1
  <2>2. CASE v # w
    BY <1>5, <1>7, <2>2, Zenon DEF WriterInv
  <2> QED
    BY ONLY <2>1, <2>2, Zenon
<1>9. ASSUME NEW v \in Writers, NEW u \in Writers, v # u, writer'[v].msg # 0
      PROVE  writer'[v].msg # writer'[u].msg
  <2>1. CASE v = w
    <3>1. writer'[u] = writer[u] /\ u \in Writers \ {w}
      BY ONLY <1>5, <1>9, <2>1, Zenon
    <3> QED
      BY ONLY <1>3, <1>5, <1>7, <2>1, <3>1
  <2>2. CASE v # w
    <3>1. writer'[v] = writer[v] /\ v \in Writers \ {w} /\ writer[v].msg # n
      BY ONLY <1>5, <1>7, <1>9, <2>2, Zenon
    <3>2. CASE u = w
      BY ONLY <1>5, <3>1, <3>2, Zenon
    <3>3. CASE u # w
      BY <1>5, <1>9, <3>1, <3>3 DEF WriterInv
    <3> QED
      BY ONLY <3>2, <3>3, Zenon
  <2> QED
    BY ONLY <2>1, <2>2, Zenon
<1>10. WriterInv'
  BY <1>8, <1>9, Zenon DEF WriterInv, HeaderCells
<1> QED
  BY ONLY <1>1, <1>5, <1>10, Zenon

\* A writer's other steps: it goes on with its reservation, or has none.
Continues(w) ==
    /\ writer'[w].msg = writer[w].msg /\ writer'[w].seen = writer[w].seen
    /\ writer'[w].pad = writer[w].pad /\ writer'[w].len = writer[w].len
    /\ \/ writer'[w].pc \in {"sequence", "message", "await", "commit"} /\ writer[w].msg # 0
       \/ writer'[w].pc = "dead"

Rests(w) ==
    /\ writer'[w].msg = 0 /\ writer'[w].pc \in {"idle", "reserve"}
    /\ writer'[w].pc = "reserve" => writer'[w].len >= 1 /\ HeaderCells + writer'[w].len <= Size

OthersStay(w) == \A v \in Writers \ {w} : writer'[v] = writer[v]

LEMMA OthersKeepWriters ==
    ASSUME WriterInv, NEW w \in Writers, UNCHANGED log, OthersStay(w), Continues(w) \/ Rests(w)
    PROVE  WriterInv'
<1>1. ASSUME NEW v \in Writers, writer'[v].msg # 0 PROVE Owns(v)'
  <2>1. /\ writer'[v].msg = writer[v].msg /\ writer'[v].seen = writer[v].seen
        /\ writer'[v].pad = writer[v].pad /\ writer'[v].len = writer[v].len
    BY <1>1, Zenon DEF Continues, Rests, OthersStay
  <2>2. Owns(v)
    BY <1>1, <2>1, Zenon DEF WriterInv
  <2> QED
    BY <2>1, <2>2, Zenon DEF Owns, Messages, Start
<1>2. ASSUME NEW v \in Writers
      PROVE  /\ writer'[v].pc \in {"idle", "reserve"} => writer'[v].msg = 0
             /\ writer'[v].pc \in {"marker", "sequence", "message", "await", "commit"}
                  => writer'[v].msg # 0
             /\ writer'[v].pc = "reserve"
                  => writer'[v].len >= 1 /\ HeaderCells + writer'[v].len <= Size
  <2>1. CASE v = w
    BY <2>1, Zenon DEF Continues, Rests
  <2>2. CASE v # w
    BY <2>2, Zenon DEF OthersStay, WriterInv
  <2> QED
    BY ONLY <2>1, <2>2, Zenon
<1>3. ASSUME NEW v \in Writers PROVE writer'[v].msg # 0 => writer'[v].msg = writer[v].msg
  BY Zenon DEF Continues, Rests, OthersStay
<1>4. ASSUME NEW v \in Writers, NEW u \in Writers, v # u, writer'[v].msg # 0
      PROVE  writer'[v].msg # writer'[u].msg
  BY <1>3, <1>4, Zenon DEF WriterInv
<1> QED
  BY <1>1, <1>2, <1>4, Zenon DEF WriterInv, HeaderCells

\* Every step of a writer but Reserve is one of those.
LEMMA StepContinues ==
    ASSUME TypeInv, WriterInv, NEW w \in Writers, ~Reserve(w),
           WriterStep(w) \/ Crash(w) \/ \E n \in Lengths : BeginWrite(w, n)
    PROVE  UNCHANGED <<log, reserve>> /\ OthersStay(w) /\ (Continues(w) \/ Rests(w))
<1>0. /\ writer \in [Writers -> WriterState] /\ writer[w] \in WriterState
      /\ writer[w].pc \in {"idle", "reserve"} => writer[w].msg = 0
      /\ writer[w].pc \in {"marker", "sequence", "message", "await", "commit"}
           => writer[w].msg # 0
      /\ writer[w].pc = "reserve" => writer[w].len >= 1 /\ HeaderCells + writer[w].len <= Size
  BY Zenon DEF TypeInv, WriterInv
<1>1. ASSUME NEW n \in Lengths, BeginWrite(w, n)
      PROVE  UNCHANGED <<log, reserve>> /\ OthersStay(w) /\ Rests(w)
  <2>1. n >= 1 /\ HeaderCells + n <= Size
    <3>1. n \in Nat \ {0}
      BY ONLY RingAssumption, Zenon
    <3>2. HeaderCells + n <= Size
      BY <1>1, Zenon DEF BeginWrite
    <3> QED
      BY ONLY <3>1, <3>2
  <2>2. /\ writer' = [writer EXCEPT ![w] = [IdleWriter EXCEPT !.pc = "reserve", !.len = n,
                                                              !.seen = reserve]]
        /\ UNCHANGED <<log, reserve>>
    BY <1>1, Zenon DEF BeginWrite, sharedVars
  <2>3. writer'[w].msg = 0 /\ writer'[w].pc = "reserve" /\ writer'[w].len = n
    BY <1>0, <2>2, Zenon DEF IdleWriter
  <2>4. OthersStay(w)
    BY <1>0, <2>2, Zenon DEF OthersStay
  <2> QED
    BY <2>1, <2>2, <2>3, <2>4, Zenon DEF Rests
<1>2. CASE RetryReserve(w)
  <2>0. UNCHANGED <<log, reserve>> /\ writer[w].pc = "reserve"
    BY <1>2, Zenon DEF RetryReserve, sharedVars
  <2>1. CASE writer' = [writer EXCEPT ![w] = IdleWriter]
    BY <1>0, <2>0, <2>1, Zenon DEF Rests, OthersStay, IdleWriter
  <2>2. CASE writer' = [writer EXCEPT ![w] = [@ EXCEPT !.retries = writer[w].retries + 1, !.seen = reserve]]
    <3>1. writer'[w].msg = 0 /\ writer'[w].pc = "reserve" /\ writer'[w].len = writer[w].len
      BY <1>0, <2>0, <2>2, Zenon DEF WriterState
    <3>2. OthersStay(w)
      BY <1>0, <2>2, Zenon DEF OthersStay
    <3> QED
      BY <1>0, <2>0, <3>1, <3>2, Zenon DEF Rests
  <2> QED
    BY <1>2, <2>1, <2>2, Zenon DEF RetryReserve
<1>3. CASE WriteMarker(w) \/ WriteMessage(w) \/ AwaitTurn(w) \/ CommitTimeout(w)
  <2>1. PICK to \in {"sequence", "await", "commit"} : writer' = [writer EXCEPT ![w].pc = to]
    BY <1>3, Zenon DEF WriteMarker, WriteMessage, AwaitTurn, CommitTimeout, Steps
  <2>2. writer[w].msg # 0 /\ UNCHANGED <<log, reserve>>
    BY <1>0, <1>3, Zenon DEF WriteMarker, WriteMessage, AwaitTurn, CommitTimeout, Steps, sharedVars
  <2>3. OthersStay(w)
    BY <1>0, <2>1, Zenon DEF OthersStay
  <2>4. Continues(w)
    BY <1>0, <2>1, <2>2, Zenon DEF Continues, WriterState
  <2> QED
    BY ONLY <2>2, <2>3, <2>4, Zenon
<1>4. CASE TakeSequence(w)
  <2>1. /\ writer' = [writer EXCEPT ![w] = [@ EXCEPT !.pc = "message", !.seq = sequence]]
        /\ writer[w].msg # 0 /\ UNCHANGED <<log, reserve>>
    BY <1>0, <1>4, Zenon DEF TakeSequence
  <2>2. OthersStay(w)
    BY <1>0, <2>1, Zenon DEF OthersStay
  <2>3. Continues(w)
    BY <1>0, <2>1, Zenon DEF Continues, WriterState
  <2> QED
    BY ONLY <2>1, <2>2, <2>3, Zenon
<1>5. CASE Crash(w)
  <2>1. writer' = [writer EXCEPT ![w].pc = "dead"] /\ UNCHANGED <<log, reserve>>
    BY <1>5, Zenon DEF Crash, sharedVars
  <2>2. OthersStay(w)
    BY <1>0, <2>1, Zenon DEF OthersStay
  <2>3. Continues(w)
    BY <1>0, <2>1, Zenon DEF Continues, WriterState
  <2> QED
    BY ONLY <2>1, <2>2, <2>3, Zenon
<1>6. CASE Commit(w)
  <2>1. writer' = [writer EXCEPT ![w] = IdleWriter] /\ UNCHANGED <<log, reserve>>
    BY <1>6, Zenon DEF Commit
  <2> QED
    BY <1>0, <2>1, Zenon DEF Rests, OthersStay, IdleWriter
<1> QED
  BY <1>1, <1>2, <1>3, <1>4, <1>5, <1>6, Zenon DEF WriterStep

\* What does not touch the log keeps LogInv.
LEMMA LogStays == LogInv /\ UNCHANGED <<log, reserve>> => LogInv'
  BY Zenon DEF LogInv, Messages, Start, Offset, HeaderCells

----------------------------------------------------------------------------
(* Memory *)

\* Cells outside of what is stored keep their values.
LEMMA StoredCells ==
    ASSUME TypeInv, NEW off \in Nat, NEW values \in Seq(Cells), off + Len(values) <= Size
    PROVE  /\ \A c \in 0..(Size - 1) : c \notin off..(off + Len(values) - 1)
                => Stored(off, values)[c] = cell[c]
           /\ \A i \in 1..Len(values) : Stored(off, values)[off + i - 1] = values[i]
<1>1. DOMAIN cell = 0..(Size - 1) /\ Len(values) \in Nat /\ Size \in Nat
  BY RingAssumption DEF TypeInv
<1>2. \A c \in 0..(Size - 1) : Stored(off, values)[c]
        = IF c \in off..(off + Len(values) - 1) THEN values[c - off + 1] ELSE cell[c]
  BY <1>1, Zenon DEF Stored
<1>3. ASSUME NEW i \in 1..Len(values) PROVE Stored(off, values)[off + i - 1] = values[i]
  <2>1. /\ off + i - 1 \in 0..(Size - 1) /\ off + i - 1 \in off..(off + Len(values) - 1)
        /\ (off + i - 1) - off + 1 = i
    BY <1>1
  <2> QED
    BY ONLY <1>2, <2>1, Zenon
<1> QED
  BY ONLY <1>2, <1>3, Zenon

\* Two ranges of one round of the ring that do not meet have different cells.
LEMMA RangesDiffer ==
    ASSUME NEW x \in Nat, NEW lx \in Nat, NEW y \in Nat, NEW ly \in Nat,
           Offset(x) + lx <= Size, Offset(y) + ly <= Size, x + lx <= y, y + ly <= x + Size,
           NEW i \in 0..(lx - 1), NEW j \in 0..(ly - 1)
    PROVE  Offset(x) + i # Offset(y) + j
<1>0. Size \in Nat /\ i \in Nat /\ j \in Nat /\ i < lx /\ j < ly
  BY ONLY RingAssumption
<1>1. Offset(x) \in Nat /\ Offset(y) \in Nat
  BY ONLY Division, Zenon
<1>2. Offset(x) + i < Size /\ Offset(y) + j < Size
  BY <1>0, <1>1
<1>3. Offset(x + i) = Offset(x) + i /\ Offset(y + j) = Offset(y) + j
  BY ONLY <1>0, <1>2, OffsetAdd, Zenon
<1>4. x + i \in Nat /\ y + j \in Nat /\ x + i < y + j /\ y + j < (x + i) + Size
  BY <1>0
<1> QED
  BY ONLY <1>3, <1>4, OffsetsDiffer, Zenon

\* What is stored in one range of the round that ends at reserve leaves another alone.
LEMMA StoredElsewhere ==
    ASSUME TypeInv, NEW x \in Nat, NEW lx \in Nat, NEW y \in Nat, NEW values \in Seq(Cells),
           Offset(x) + lx <= Size, Offset(y) + Len(values) <= Size,
           x + lx <= y \/ y + Len(values) <= x,
           x + lx <= reserve, y + Len(values) <= reserve,
           reserve <= x + Size, reserve <= y + Size,
           cell' = Stored(Offset(y), values), NEW i \in 0..(lx - 1)
    PROVE  cell'[Offset(x) + i] = cell[Offset(x) + i]
<1> DEFINE ly == Len(values)
<1>0. Size \in Nat /\ ly \in Nat /\ reserve \in Nat /\ i \in Nat /\ i < lx
  BY RingAssumption DEF TypeInv
<1>1. Offset(x) \in Nat /\ Offset(y) \in Nat
  BY Division, Zenon
<1>2. Offset(x) + i \in 0..(Size - 1)
  BY <1>0, <1>1, SMTT(20)
<1>3. ASSUME NEW j \in 0..(ly - 1) PROVE Offset(x) + i # Offset(y) + j
  <2>1. CASE x + lx <= y
    <3>1. y + ly <= x + Size
      BY <1>0
    <3> QED
      BY <1>0, <2>1, <3>1, RangesDiffer, SMTT(20)
  <2>2. CASE y + ly <= x
    <3>1. x + lx <= y + Size
      BY <1>0
    <3> QED
      BY <1>0, <2>2, <3>1, RangesDiffer, Zenon
  <2> QED
    BY <2>1, <2>2, Zenon
<1>4. Offset(x) + i \notin Offset(y)..(Offset(y) + ly - 1)
  <2> SUFFICES ASSUME Offset(x) + i \in Offset(y)..(Offset(y) + ly - 1) PROVE FALSE
    BY Zenon
  <2>1. PICK a, b : a = Offset(x) + i /\ b = Offset(y)
    BY Zenon
  <2>2. a \in Nat /\ b \in Nat /\ a \in b..(b + ly - 1)
    BY <1>0, <1>1, <2>1
  <2> HIDE DEF ly
  <2>3. a - b \in 0..(ly - 1) /\ a = b + (a - b)
    BY ONLY <1>0, <2>2
  <2> QED
    BY ONLY <1>3, <2>1, <2>3, Zenon
<1> QED
  BY <1>1, <1>2, <1>4, StoredCells, Zenon

\* The places of a reservation within the round that ends at reserve.
LEMMA Placed ==
    ASSUME TypeInv, LogInv, NEW m \in Messages
    PROVE  /\ Start(m) \in Nat /\ log[m].pos \in Nat /\ log[m].len \in Nat /\ log[m].end \in Nat
           /\ reserve \in Nat /\ Size \in Nat
           /\ Start(m) <= log[m].pos /\ log[m].pos + HeaderCells + log[m].len = log[m].end
           /\ log[m].end <= reserve /\ log[m].pos < log[m].end /\ log[m].pos <= reserve
           /\ log[m].len >= 1
           /\ Offset(log[m].pos) + HeaderCells + log[m].len <= Size
           /\ Rest(m) \in Nat /\ (Rest(m) # 0 => Offset(Start(m)) + Rest(m) = Size)
<1>1. /\ Start(m) \in Nat /\ log[m].pos \in Nat /\ log[m].len \in Nat /\ log[m].end \in Nat
      /\ reserve \in Nat /\ Size \in Nat
  BY LogTypes, RingAssumption DEF TypeInv, Messages
<1>2. /\ Start(m) <= log[m].pos /\ log[m].pos + HeaderCells + log[m].len = log[m].end
      /\ log[m].end <= reserve /\ log[m].len >= 1
      /\ Offset(log[m].pos) + HeaderCells + log[m].len <= Size
      /\ Start(m) # log[m].pos => Offset(Start(m)) + Rest(m) = Size
  BY Zenon DEF LogInv, Rest
<1>3. Rest(m) \in Nat /\ (Rest(m) # 0 => Start(m) # log[m].pos)
  BY ONLY <1>1, <1>2 DEF Rest
<1>4. log[m].pos < log[m].end /\ log[m].pos <= reserve
  BY ONLY <1>1, <1>2 DEF HeaderCells
<1> QED
  BY ONLY <1>1, <1>2, <1>3, <1>4, Zenon

\* The cells of its message and of its marker.
LEMMA PlacedCells ==
    ASSUME TypeInv, LogInv, NEW m \in Messages
    PROVE  /\ Offset(log[m].pos) \in Nat /\ HeaderCells + log[m].len \in Nat
           /\ Offset(log[m].pos) + (HeaderCells + log[m].len) <= Size
           /\ log[m].pos + (HeaderCells + log[m].len) = log[m].end
           /\ 0 \in 0..((HeaderCells + log[m].len) - 1)
           /\ Offset(log[m].pos) + 0 = Offset(log[m].pos)
           /\ \A i \in 1..log[m].len :
                /\ HeaderCells + i - 1 \in 0..((HeaderCells + log[m].len) - 1)
                /\ Offset(log[m].pos) + (HeaderCells + i - 1) = Offset(log[m].pos) + HeaderCells + i - 1
           /\ Offset(Start(m)) \in Nat /\ Offset(Start(m)) + 0 = Offset(Start(m))
           /\ Rest(m) >= HeaderCells =>
                /\ Offset(Start(m)) + HeaderCells <= Size /\ Offset(Start(m)) + 1 <= Size
                /\ Start(m) + HeaderCells <= log[m].pos /\ Start(m) + 1 <= log[m].pos
<1>0. /\ Start(m) \in Nat /\ log[m].pos \in Nat /\ log[m].len \in Nat /\ log[m].end \in Nat
      /\ Size \in Nat /\ Start(m) <= log[m].pos
      /\ log[m].pos + HeaderCells + log[m].len = log[m].end /\ log[m].len >= 1
      /\ Offset(log[m].pos) + HeaderCells + log[m].len <= Size
      /\ Rest(m) \in Nat /\ (Rest(m) # 0 => Offset(Start(m)) + Rest(m) = Size)
  BY Placed, Zenon
<1>1. Offset(log[m].pos) \in Nat /\ Offset(Start(m)) \in Nat
  BY <1>0, Division, Zenon
<1>2. PICK p, l, s, a, b : /\ p = log[m].pos /\ l = log[m].len /\ s = Start(m)
                           /\ a = Offset(p) /\ b = Offset(s)
  BY Zenon
<1>3. /\ p \in Nat /\ l \in Nat /\ s \in Nat /\ a \in Nat /\ b \in Nat /\ l >= 1
      /\ a + HeaderCells + l <= Size /\ s <= p /\ Rest(m) = p - s
      /\ Rest(m) # 0 => b + Rest(m) = Size
      /\ p + HeaderCells + l = log[m].end
  BY <1>0, <1>1, <1>2, Zenon DEF Rest
<1>4. /\ HeaderCells + l \in Nat /\ a + (HeaderCells + l) <= Size
      /\ p + (HeaderCells + l) = log[m].end
      /\ 0 \in 0..((HeaderCells + l) - 1) /\ a + 0 = a /\ b + 0 = b
  BY ONLY <1>0, <1>3 DEF HeaderCells
<1>5. \A i \in 1..l : /\ HeaderCells + i - 1 \in 0..((HeaderCells + l) - 1)
                      /\ a + (HeaderCells + i - 1) = a + HeaderCells + i - 1
  BY ONLY <1>3 DEF HeaderCells
<1>6. Rest(m) >= HeaderCells => /\ b + HeaderCells <= Size /\ b + 1 <= Size
                                /\ s + HeaderCells <= p /\ s + 1 <= p
  BY ONLY <1>0, <1>3 DEF HeaderCells
<1> QED
  BY ONLY <1>1, <1>2, <1>4, <1>5, <1>6, Zenon

\* A message or marker that is not overwritten stays.
LEMMA StaysIntact ==
    ASSUME TypeInv, LogInv, NEW m \in Messages, UNCHANGED log,
           NEW y \in Nat, NEW values \in Seq(Cells), Offset(y) + Len(values) <= Size,
           y + Len(values) <= reserve, reserve <= y + Size, cell' = Stored(Offset(y), values),
           reserve <= log[m].pos + Size,
           log[m].end <= y \/ y + Len(values) <= log[m].pos, Intact(m)
    PROVE  Intact(m)'
<1> DEFINE x == log[m].pos
           lx == HeaderCells + log[m].len
<1>0. /\ Offset(log[m].pos) \in Nat /\ HeaderCells + log[m].len \in Nat
      /\ Offset(log[m].pos) + (HeaderCells + log[m].len) <= Size
      /\ log[m].pos + (HeaderCells + log[m].len) = log[m].end
      /\ 0 \in 0..((HeaderCells + log[m].len) - 1)
      /\ Offset(log[m].pos) + 0 = Offset(log[m].pos)
      /\ \A i \in 1..log[m].len :
           /\ HeaderCells + i - 1 \in 0..((HeaderCells + log[m].len) - 1)
           /\ Offset(log[m].pos) + (HeaderCells + i - 1) = Offset(log[m].pos) + HeaderCells + i - 1
  BY PlacedCells, Zenon
<1>1. /\ x \in Nat /\ lx \in Nat /\ Offset(x) + lx <= Size /\ x + lx = log[m].end
      /\ log[m].end <= reserve
  BY Placed, PlacedCells, Zenon
<1>2. \A i \in 0..(lx - 1) : cell'[Offset(x) + i] = cell[Offset(x) + i]
  <2> HIDE DEF lx, x
  <2>1. x + lx <= y \/ y + Len(values) <= x
    BY <1>1, Zenon DEF x
  <2>2. x + lx <= reserve /\ reserve <= x + Size
    BY <1>1, Zenon DEF x
  <2> QED
    BY <1>1, <2>1, <2>2, StoredElsewhere, Zenon
<1>3. cell'[Offset(x)] = cell[Offset(x)]
  <2>1. 0 \in 0..(lx - 1) /\ Offset(x) + 0 = Offset(x)
    BY <1>0, Zenon
  <2> HIDE DEF lx, x
  <2>2. cell'[Offset(x) + 0] = cell[Offset(x) + 0]
    BY ONLY <1>2, <2>1, Zenon
  <2> QED
    BY ONLY <2>1, <2>2, Zenon
<1>4. ASSUME NEW i \in 1..log[m].len
      PROVE  cell'[Offset(x) + HeaderCells + i - 1] = cell[Offset(x) + HeaderCells + i - 1]
  <2>1. PICK j : j = HeaderCells + i - 1
    BY Zenon
  <2>2. j \in 0..(lx - 1) /\ Offset(x) + j = Offset(x) + HeaderCells + i - 1
    BY <1>0, <2>1, Zenon
  <2> HIDE DEF lx, x
  <2>3. cell'[Offset(x) + j] = cell[Offset(x) + j]
    BY ONLY <1>2, <2>2, Zenon
  <2> QED
    BY ONLY <2>2, <2>3, Zenon
<1> QED
  BY <1>3, <1>4, Zenon DEF Intact, Offset

LEMMA StaysMarked ==
    ASSUME TypeInv, LogInv, NEW m \in Messages, UNCHANGED log,
           NEW y \in Nat, NEW values \in Seq(Cells), Offset(y) + Len(values) <= Size,
           y + Len(values) <= reserve, reserve <= y + Size, cell' = Stored(Offset(y), values),
           reserve <= Start(m) + Size,
           log[m].pos <= y \/ y + Len(values) <= Start(m), Marked(m)
    PROVE  Marked(m)'
<1>1. Start(m)' = Start(m) /\ Rest(m)' = Rest(m)
  BY Zenon DEF Start, Rest
<1>2. ASSUME Rest(m) >= HeaderCells PROVE cell'[Offset(Start(m))] = cell[Offset(Start(m))]
  <2>1. PICK x, p, lx : x = Start(m) /\ p = log[m].pos /\ lx = 1
    BY Zenon
  <2>2. /\ x \in Nat /\ p \in Nat /\ lx \in Nat /\ Offset(x) + lx <= Size /\ x + lx <= p
        /\ p <= reserve /\ Offset(x) + 0 = Offset(x) /\ reserve \in Nat /\ Len(values) \in Nat
    <3>1. /\ x \in Nat /\ p \in Nat /\ x <= p /\ p <= reserve /\ reserve \in Nat /\ Size \in Nat
          /\ Rest(m) = p - x /\ Rest(m) \in Nat /\ (Rest(m) # 0 => Offset(x) + Rest(m) = Size)
      BY <2>1, Placed, Zenon DEF Rest
    <3>2. Offset(x) \in Nat
      BY <3>1, Division, Zenon
    <3>3. Len(values) \in Nat
      BY LenProperties, Zenon
    <3>4. Rest(m) >= 2 /\ lx = 1
      BY <1>2, <2>1, Zenon DEF HeaderCells
    <3>5. lx \in Nat /\ Offset(x) + lx <= Size /\ x + lx <= p /\ Offset(x) + 0 = Offset(x)
      BY ONLY <3>1, <3>2, <3>4
    <3> QED
      BY <3>1, <3>3, <3>5, Zenon
  <2>3. /\ x + lx <= y \/ y + Len(values) <= x
        /\ x + lx <= reserve /\ reserve <= x + Size
    <3>1. /\ y \in Nat /\ reserve <= x + Size
          /\ p <= y \/ y + Len(values) <= x
      BY <2>1, Zenon
    <3> QED
      BY ONLY <2>2, <3>1
  <2>4. 0 \in 0..(lx - 1)
    BY ONLY <2>1
  <2>5. cell'[Offset(x) + 0] = cell[Offset(x) + 0]
    BY <2>2, <2>3, <2>4, StoredElsewhere, Zenon
  <2> QED
    BY ONLY <2>1, <2>2, <2>5, Zenon
<1> QED
  BY <1>1, <1>2, Zenon DEF Marked, Offset, HeaderCells

\* The reservation of a writer lies within the round that ends at reserve.
LEMMA Claimed ==
    ASSUME TypeInv, LogInv, WriterInv, OrderInv, NEW w \in Writers, writer[w].msg # 0,
           NEW k, k = writer[w].msg
    PROVE  /\ k \in Messages /\ writer[w].seen = Start(k) /\ writer[w].pad = Rest(k)
           /\ MessageAt(w) = log[k].pos /\ writer[w].len = log[k].len
           /\ reserve <= Start(k) + Size /\ reserve <= log[k].pos + Size
           /\ \A m \in Messages : m # k => log[m].end <= Start(k) \/ log[k].end <= Start(m)
<1>1. /\ k \in Messages /\ writer[w].seen = Start(k) /\ log[k].pos = writer[w].seen + writer[w].pad
      /\ log[k].len = writer[w].len /\ commit <= writer[w].seen /\ reserve <= commit + Size
  BY Zenon DEF WriterInv, Owns, OrderInv
<1>2. /\ writer[w].seen \in Nat /\ writer[w].pad \in Nat /\ commit \in Nat /\ reserve \in Nat
      /\ Size \in Nat
  BY RingAssumption, Zenon DEF TypeInv, WriterState
<1>3. writer[w].pad = Rest(k) /\ MessageAt(w) = log[k].pos
  BY ONLY <1>1, <1>2 DEF Rest, MessageAt
<1>4. reserve <= Start(k) + Size /\ reserve <= log[k].pos + Size
  BY ONLY <1>1, <1>2
<1>5. ASSUME NEW m \in Messages, m # k PROVE log[m].end <= Start(k) \/ log[k].end <= Start(m)
  <2>1. m < k \/ k < m
    BY ONLY <1>1, <1>5, LogTypes DEF Messages
  <2> QED
    BY <1>1, <2>1, Zenon DEF LogInv
<1> QED
  BY <1>1, <1>3, <1>4, <1>5, Zenon

\* Writing the wrap marker leaves all messages and the other markers alone.
LEMMA MarkerKeepsMemory ==
    ASSUME TypeInv, LogInv, WriterInv, OrderInv, MemoryInv, NEW w \in Writers, WriteMarker(w)
    PROVE  MemoryInv'
<1>0. /\ writer[w].pc = "marker" /\ writer[w].msg # 0 /\ UNCHANGED <<log, reserve>>
      /\ writer' = [writer EXCEPT ![w].pc = "sequence"] /\ writer \in [Writers -> WriterState]
  BY Zenon DEF WriteMarker, Steps, WriterInv, TypeInv
<1>1. PICK k : k = writer[w].msg
  BY Zenon
<1>2. /\ k \in Messages /\ writer[w].seen = Start(k) /\ writer[w].pad = Rest(k)
      /\ reserve <= Start(k) + Size
      /\ \A m \in Messages : m # k => log[m].end <= Start(k) \/ log[k].end <= Start(m)
  BY <1>0, <1>1, Claimed, Zenon
<1>3. /\ writer'[w].pc = "sequence" /\ writer'[w].msg = k
      /\ \A v \in Writers \ {w} : writer'[v] = writer[v]
  BY <1>0, <1>1, Zenon DEF WriterState
<1>4. /\ \A m \in Messages : Unwritten(m)' <=> Unwritten(m)
      /\ \A m \in Messages : m # k => (Unmarked(m)' <=> Unmarked(m))
      /\ Unwritten(k)
  BY ONLY <1>0, <1>1, <1>3 DEF Unwritten, Unmarked
<1>5. Messages' = Messages /\ (\A m \in Messages : Start(m)' = Start(m) /\ Rest(m)' = Rest(m))
  BY <1>0, Zenon DEF Messages, Start, Rest
<1>6. CASE ~(writer[w].pad >= HeaderCells)
  <2>1. UNCHANGED cell
    BY <1>6, Zenon DEF WriteMarker
  <2>2. Marked(k)'
    BY <1>2, <1>5, <1>6, Zenon DEF Marked, HeaderCells
  <2>3. \A m \in Messages : (Intact(m) => Intact(m)') /\ (Marked(m) => Marked(m)')
    BY <1>0, <1>5, <2>1, Zenon DEF Intact, Marked, Offset, HeaderCells
  <2> QED
    BY <1>0, <1>4, <1>5, <2>2, <2>3, Zenon DEF MemoryInv
<1>7. CASE writer[w].pad >= HeaderCells
  <2>1. PICK y, values : y = Start(k) /\ values = <<Lens(Rest(k), 0), Seqn(0)>>
    BY Zenon
  <2>2. cell' = Stored(Offset(y), values)
    BY <1>2, <1>7, <2>1, Zenon DEF WriteMarker
  <2>3. /\ y \in Nat /\ values \in Seq(Cells) /\ Len(values) = HeaderCells
        /\ values[1] = Lens(Rest(k), 0)
    BY <1>2, <2>1, Placed DEF Cells, Lens, Seqn, HeaderCells
  <2>4. /\ Offset(y) \in Nat /\ Offset(y) + Len(values) <= Size /\ y + Len(values) <= log[k].pos
        /\ y + Len(values) <= reserve /\ reserve <= y + Size
    <3>1. /\ Offset(y) \in Nat /\ Offset(y) + Len(values) <= Size /\ y + Len(values) <= log[k].pos
      BY <1>2, <1>7, <2>1, <2>3, PlacedCells, Zenon
    <3>2. log[k].pos <= reserve /\ log[k].pos \in Nat /\ reserve \in Nat
      BY <1>2, Placed, Zenon
    <3> QED
      BY ONLY <1>2, <2>1, <2>3, <3>1, <3>2 DEF HeaderCells
  <2>5. ASSUME NEW m \in Messages, m # k
        PROVE  /\ log[m].pos <= y \/ y + Len(values) <= Start(m)
               /\ log[m].end <= y \/ y + Len(values) <= log[m].pos
    <3>1. /\ log[m].pos \in Nat /\ log[m].end \in Nat /\ Start(m) \in Nat
          /\ log[m].pos <= log[m].end /\ Start(m) <= log[m].pos
          /\ log[k].pos \in Nat /\ log[k].end \in Nat /\ log[k].pos <= log[k].end
      BY <1>2, Placed
    <3>2. log[m].end <= y \/ log[k].end <= Start(m)
      BY ONLY <1>2, <2>1, <2>5, Zenon
    <3>3. PICK z : z = y + Len(values)
      BY Zenon
    <3>4. z \in Nat /\ z <= log[k].pos
      BY ONLY <2>3, <2>4, <3>3 DEF HeaderCells
    <3>5. y \in Nat
      BY <2>3, Zenon
    <3>6. /\ log[m].pos <= y \/ z <= Start(m)
          /\ log[m].end <= y \/ z <= log[m].pos
      BY ONLY <3>1, <3>2, <3>4, <3>5
    <3> QED
      BY <3>3, <3>6, Zenon
  <2>6. ASSUME NEW m \in Messages, reserve <= log[m].pos + Size, ~Unwritten(m) PROVE Intact(m)'
    <3>1. Intact(m) /\ m # k
      BY <1>4, <2>6, Zenon DEF MemoryInv
    <3> QED
      BY <1>0, <2>2, <2>3, <2>4, <2>5, <2>6, <3>1, StaysIntact, Zenon
  <2>7. ASSUME NEW m \in Messages, m # k, reserve <= Start(m) + Size, ~Unmarked(m)
        PROVE  Marked(m)'
    <3>1. Marked(m)
      BY <2>7, Zenon DEF MemoryInv
    <3> QED
      BY <1>0, <2>2, <2>3, <2>4, <2>5, <2>7, <3>1, StaysMarked, Zenon
  <2>8. Marked(k)'
    <3>1. 1 \in 1..Len(values) /\ Offset(y) + 1 - 1 = Offset(y)
      BY ONLY <2>3, <2>4 DEF HeaderCells
    <3>2. \A i \in 1..Len(values) : cell'[Offset(y) + i - 1] = values[i]
      BY <2>2, <2>3, <2>4, StoredCells, Zenon
    <3>3. cell'[Offset(y)] = Lens(Rest(k), 0)
      BY ONLY <2>3, <3>1, <3>2, Zenon
    <3> QED
      BY <1>2, <1>5, <2>1, <3>3, Zenon DEF Marked, Offset
  <2> QED
    BY <1>0, <1>4, <1>5, <2>6, <2>7, <2>8, Zenon DEF MemoryInv
<1> QED
  BY ONLY <1>6, <1>7, Zenon

\* Writing a message leaves the other messages and all markers alone.
LEMMA MessageKeepsMemory ==
    ASSUME TypeInv, LogInv, WriterInv, OrderInv, MemoryInv, NEW w \in Writers, WriteMessage(w)
    PROVE  MemoryInv'
<1>0. /\ writer[w].pc = "message" /\ writer[w].msg # 0 /\ UNCHANGED <<log, reserve>>
      /\ writer' = [writer EXCEPT ![w].pc = "await"] /\ writer \in [Writers -> WriterState]
      /\ writer[w].seq \in Nat
  BY Zenon DEF WriteMessage, Steps, WriterInv, TypeInv, WriterState
<1>1. PICK k : k = writer[w].msg
  BY Zenon
<1>2. /\ k \in Messages /\ MessageAt(w) = log[k].pos /\ writer[w].len = log[k].len
      /\ reserve <= log[k].pos + Size
      /\ \A m \in Messages : m # k => log[m].end <= Start(k) \/ log[k].end <= Start(m)
  BY <1>0, <1>1, Claimed, Zenon
<1>3. /\ writer'[w].pc = "await" /\ writer'[w].msg = k
      /\ \A v \in Writers \ {w} : writer'[v] = writer[v]
  BY <1>0, <1>1, Zenon DEF WriterState
<1>4. /\ \A m \in Messages : m # k => (Unwritten(m)' <=> Unwritten(m))
      /\ \A m \in Messages : Unmarked(m)' <=> Unmarked(m)
  BY <1>0, <1>1, <1>3, Zenon DEF Unwritten, Unmarked
<1>5. Messages' = Messages /\ (\A m \in Messages : Start(m)' = Start(m) /\ Rest(m)' = Rest(m))
  BY <1>0, Zenon DEF Messages, Start, Rest
<1>6. PICK y, values : y = log[k].pos /\ values = Contents(k, log[k].len, writer[w].seq)
  BY Zenon
<1>7. cell' = Stored(Offset(y), values)
  BY <1>1, <1>2, <1>6, Zenon DEF WriteMessage
<1>8. /\ y \in Nat /\ log[k].len \in Nat /\ k \in Nat /\ Offset(y) \in Nat
      /\ log[k].end \in Nat /\ Start(k) \in Nat /\ Start(k) <= y /\ log[k].end <= reserve
      /\ Offset(y) + (HeaderCells + log[k].len) <= Size
      /\ y + (HeaderCells + log[k].len) = log[k].end
  <2>1. k \in Nat
    BY ONLY <1>2 DEF Messages
  <2>2. /\ log[k].pos \in Nat /\ log[k].len \in Nat /\ log[k].end \in Nat /\ Start(k) \in Nat
        /\ Start(k) <= log[k].pos /\ log[k].end <= reserve
    BY <1>2, Placed, Zenon
  <2>3. /\ Offset(log[k].pos) \in Nat /\ Offset(log[k].pos) + (HeaderCells + log[k].len) <= Size
        /\ log[k].pos + (HeaderCells + log[k].len) = log[k].end
    BY <1>2, PlacedCells, Zenon
  <2> QED
    BY <1>6, <2>1, <2>2, <2>3, Zenon
<1>9. /\ values \in Seq(Cells) /\ Len(values) = HeaderCells + log[k].len
      /\ values[1] = Lens(HeaderCells + log[k].len, log[k].len)
      /\ \A i \in 1..log[k].len : values[HeaderCells + i] = Piece(k, i)
  <2>1. PICK n, s : n = log[k].len /\ s = writer[w].seq
    BY Zenon
  <2>2. n \in Nat /\ s \in Nat /\ k \in Nat /\ values = Contents(k, n, s)
    BY ONLY <1>0, <1>6, <1>8, <2>1, Zenon
  <2>3. n \in Nat /\ s \in Nat /\ k \in Nat
    BY ONLY <2>2, Zenon
  <2>4. /\ Contents(k, n, s) \in Seq(Cells) /\ Len(Contents(k, n, s)) = HeaderCells + n
        /\ Contents(k, n, s)[1] = Lens(HeaderCells + n, n)
        /\ \A i \in 1..n : Contents(k, n, s)[HeaderCells + i] = Piece(k, i)
    BY ONLY <2>3, ContentsCells, Zenon
  <2> QED
    BY ONLY <2>1, <2>2, <2>4, Zenon
<1>10. /\ Offset(y) + Len(values) <= Size /\ y + Len(values) = log[k].end
       /\ y + Len(values) <= reserve /\ reserve <= y + Size
  BY <1>2, <1>6, <1>8, <1>9, Zenon
<1>11. ASSUME NEW m \in Messages, m # k
       PROVE  /\ log[m].pos <= y \/ y + Len(values) <= Start(m)
              /\ log[m].end <= y \/ y + Len(values) <= log[m].pos
  <2>1. /\ log[m].pos \in Nat /\ log[m].end \in Nat /\ Start(m) \in Nat
        /\ log[m].pos <= log[m].end /\ Start(m) <= log[m].pos
    BY Placed
  <2>2. log[m].end <= Start(k) \/ log[k].end <= Start(m)
    BY ONLY <1>2, <1>11, Zenon
  <2>3. PICK z : z = y + Len(values)
    BY Zenon
  <2>4. z = log[k].end
    BY ONLY <1>10, <2>3, Zenon
  <2> QED
    BY <1>8, <2>1, <2>2, <2>3, <2>4, SMTT(20)
<1>12. ASSUME NEW m \in Messages, m # k, reserve <= log[m].pos + Size, ~Unwritten(m)
       PROVE  Intact(m)'
  <2>1. Intact(m)
    BY <1>12, Zenon DEF MemoryInv
  <2> QED
    BY <1>0, <1>7, <1>8, <1>9, <1>10, <1>11, <1>12, <2>1, StaysIntact, Zenon
<1>13. ASSUME NEW m \in Messages, reserve <= Start(m) + Size, ~Unmarked(m)
       PROVE  Marked(m)'
  <2>1. Marked(m)
    BY <1>13, Zenon DEF MemoryInv
  <2>2. log[m].pos <= y \/ y + Len(values) <= Start(m)
    BY ONLY <1>6, <1>8, <1>11
  <2> QED
    BY <1>0, <1>7, <1>8, <1>9, <1>10, <1>13, <2>1, <2>2, StaysMarked, Zenon
<1>14. Intact(k)'
  <2>1. \A i \in 1..Len(values) : cell'[Offset(y) + i - 1] = values[i]
    BY <1>7, <1>8, <1>9, <1>10, StoredCells, Zenon
  <2>2. 1 \in 1..Len(values) /\ Offset(y) + 1 - 1 = Offset(y)
    <3>1. PICK o, n, l : o = Offset(y) /\ n = Len(values) /\ l = log[k].len
      BY Zenon
    <3>2. o \in Nat /\ l \in Nat /\ n = HeaderCells + l
      BY <1>7, <1>8, <1>9, <3>1, Zenon
    <3>3. 1 \in 1..n /\ o + 1 - 1 = o
      BY ONLY <3>2 DEF HeaderCells
    <3> QED
      BY <3>1, <3>3, Zenon
  <2>3. cell'[Offset(y)] = Lens(HeaderCells + log[k].len, log[k].len)
    BY ONLY <1>9, <2>1, <2>2, Zenon
  <2>4. ASSUME NEW i \in 1..log[k].len
        PROVE  cell'[Offset(y) + HeaderCells + i - 1] = Piece(k, i)
    <3>1. PICK j : j = HeaderCells + i
      BY Zenon
    <3>2. j \in 1..Len(values)
      <4>1. PICK n : n = log[k].len
        BY Zenon
      <4>2. n \in Nat /\ i \in 1..n /\ Len(values) = 2 + n /\ j = 2 + i
        BY <1>8, <1>9, <3>1, <4>1, Zenon DEF HeaderCells
      <4> QED
        BY ONLY <4>2
    <3>3. Offset(y) + HeaderCells + i - 1 = Offset(y) + j - 1
      BY ONLY <1>8, <3>1 DEF HeaderCells
    <3> QED
      BY <1>9, <2>1, <3>1, <3>2, <3>3, Zenon
  <2> QED
    BY <1>0, <1>2, <1>6, <2>3, <2>4, Zenon DEF Intact, HeaderCells, Lens, Piece, Offset
<1> QED
  BY <1>0, <1>4, <1>5, <1>12, <1>13, <1>14, Zenon DEF MemoryInv

\* A step that changes neither the cells nor the reservations keeps the memory.
LEMMA OthersKeepMemory ==
    ASSUME MemoryInv, NEW w \in Writers, UNCHANGED <<cell, log, reserve>>, OthersStay(w),
           \/ writer[w].msg = 0 \/ writer[w].pc \in {"await", "commit"}
           \/ /\ writer'[w].msg = writer[w].msg
              /\ \/ writer'[w].pc = "dead"
                 \/ writer[w].pc = "sequence" /\ writer'[w].pc = "message"
    PROVE  MemoryInv'
<1>1. ASSUME NEW m \in Messages PROVE Unwritten(m) => Unwritten(m)'
  BY DEF Unwritten, OthersStay, Messages
<1>2. ASSUME NEW m \in Messages PROVE Unmarked(m) => Unmarked(m)'
  BY DEF Unmarked, OthersStay, Messages
<1>3. \A m \in Messages : Intact(m)' = Intact(m) /\ Marked(m)' = Marked(m) /\ Start(m)' = Start(m)
  BY Zenon DEF Intact, Marked, Rest, Start, Offset, Lens, Piece, HeaderCells
<1> QED
  BY <1>1, <1>2, <1>3, Zenon DEF MemoryInv, Messages

\* A reservation overwrites nothing yet.
LEMMA ReserveKeepsMemory ==
    ASSUME TypeInv, LogInv, WriterInv, MemoryInv, NEW w \in Writers, Reserve(w)
    PROVE  MemoryInv'
<1>1. PICK n : n = Len(log) + 1
  BY Zenon
<1>2. /\ n \in Nat /\ Messages' = 1..n /\ \A m \in Messages : log'[m] = log[m]
      /\ \A m \in 1..n : Start(m)' = Start(m)
      /\ reserve = Start(n) /\ log'[n].end <= reserve' /\ reserve <= reserve'
  <2>1. /\ n \in Nat /\ Messages' = 1..n /\ \A m \in Messages : log'[m] = log[m]
        /\ \A m \in 1..n : Start(m)' = Start(m)
        /\ reserve = Start(n) /\ reserve' = log'[n].end
    BY <1>1, ReserveAppends, Zenon
  <2>2. /\ log'[n].pos = reserve + Padding(w) /\ log'[n].end = log'[n].pos + HeaderCells + log'[n].len
        /\ log'[n].len = writer[w].len /\ Padding(w) \in Nat
    BY <1>1, ReserveAppends, Zenon
  <2>3. PICK l, p : l = writer[w].len /\ p = Padding(w)
    BY Zenon
  <2>4. reserve \in Nat /\ l \in Nat /\ p \in Nat
    BY <2>2, <2>3, Zenon DEF TypeInv, WriterState
  <2>5. reserve' = reserve + p + 2 + l
    BY <2>1, <2>2, <2>3, <2>4, Zenon DEF HeaderCells
  <2> QED
    BY ONLY <2>1, <2>4, <2>5
<1>3. Messages = 1..(n - 1) /\ n >= 1 /\ n \notin Messages
  BY ONLY <1>1, LogTypes DEF Messages
<1>4. /\ writer'[w].pc = "marker" /\ writer'[w].msg = n /\ writer[w].msg = 0
      /\ \A v \in Writers \ {w} : writer'[v] = writer[v]
  BY <1>1, ReserveKeepsWriters, Zenon DEF WriterInv, Reserve
<1>5. Unwritten(n)' /\ Unmarked(n)'
  BY <1>4, Zenon DEF Unwritten, Unmarked
<1>6. ASSUME NEW m \in Messages
      PROVE  /\ Start(m)' = Start(m) /\ log'[m] = log[m]
             /\ Unwritten(m)' <=> Unwritten(m)
             /\ Unmarked(m)' <=> Unmarked(m)
             /\ Intact(m) => Intact(m)'
             /\ Marked(m) => Marked(m)'
  <2>1. Start(m)' = Start(m) /\ log'[m] = log[m] /\ m # n /\ m # 0
    BY ONLY <1>2, <1>3
  <2>2. Unwritten(m)' <=> Unwritten(m)
    BY <1>4, <2>1, Zenon DEF Unwritten
  <2>3. Unmarked(m)' <=> Unmarked(m)
    BY <1>4, <2>1, Zenon DEF Unmarked
  <2>4. UNCHANGED cell
    BY Zenon DEF Reserve
  <2> QED
    BY <2>1, <2>2, <2>3, <2>4, Zenon DEF Intact, Marked, Rest, Offset, Lens, Piece, HeaderCells
<1>7. ASSUME NEW m \in Messages
      PROVE  /\ reserve' <= log'[m].pos + Size => reserve <= log[m].pos + Size
             /\ reserve' <= Start(m)' + Size => reserve <= Start(m) + Size
  <2>1. reserve \in Nat /\ reserve' \in Nat /\ reserve <= reserve'
    <3>1. TypeInv'
      BY WriterTypes, Zenon DEF WriterStep
    <3> QED
      BY <1>2, <3>1, Zenon DEF TypeInv
  <2>2. Start(m)' = Start(m) /\ log'[m].pos = log[m].pos /\ log[m].pos \in Nat /\ Start(m) \in Nat
        /\ Size \in Nat
    BY <1>6, Placed, Zenon
  <2> QED
    BY ONLY <2>1, <2>2
<1>8. ASSUME NEW m \in Messages', m # n PROVE m \in Messages
  BY ONLY <1>2, <1>3, <1>8
<1> QED
  BY <1>5, <1>6, <1>7, <1>8, Zenon DEF MemoryInv

\* A reservation that does not run into what is not committed keeps the order.
LEMMA ReserveKeepsOrder ==
    ASSUME TypeInv, LogInv, WriterInv, OrderInv, NEW w \in Writers, Reserve(w), broken' = {}
    PROVE  OrderInv'
<1>1. PICK n : n = Len(log) + 1
  BY Zenon
<1>2. /\ n \in Nat /\ Len(log') = n /\ \A m \in 1..n : Start(m)' = Start(m)
      /\ reserve = Start(n) /\ reserve' = log'[n].end /\ writer[w].seen = reserve
      /\ log'[n].pos = reserve + Padding(w) /\ Padding(w) \in Nat
      /\ log'[n].end = log'[n].pos + HeaderCells + log'[n].len /\ log'[n].len = writer[w].len
  BY <1>1, ReserveAppends, Zenon
<1>3. UNCHANGED commit /\ commit \in Nat /\ reserve \in Nat /\ writer[w].len \in Nat /\ Size \in Nat
  BY RingAssumption, Zenon DEF Reserve, TypeInv, WriterState
<1>4. reserve' = writer[w].seen + Padding(w) + TotalSize(w) /\ ~(reserve' > commit + Size)
  BY Zenon DEF Reserve
<1>5. reserve' \in Nat /\ reserve' <= commit + Size /\ commit <= reserve /\ reserve <= reserve'
  <2>1. PICK l, p : l = writer[w].len /\ p = Padding(w)
    BY Zenon
  <2>2. l \in Nat /\ p \in Nat /\ reserve' = reserve + p + (2 + l)
    BY <1>2, <1>3, <1>4, <2>1, Zenon DEF TotalSize, HeaderCells
  <2>3. commit <= reserve
    BY Zenon DEF OrderInv
  <2> QED
    BY ONLY <1>3, <1>4, <2>2, <2>3
<1>6. \E m \in 1..(Len(log') + 1) : commit' = Start(m)'
  <2>1. PICK m \in 1..n : commit = Start(m)
    BY <1>1, Zenon DEF OrderInv
  <2> QED
    BY ONLY <1>2, <1>3, <2>1
<1>7. /\ writer'[w].pc = "marker" /\ writer'[w].seen = reserve
      /\ \A v \in Writers \ {w} : writer'[v] = writer[v]
  BY ReserveKeepsWriters, Zenon
<1>8. ASSUME NEW v \in Writers
      PROVE  /\ writer'[v].msg # 0 => commit' <= writer'[v].seen
             /\ writer'[v].pc = "commit" => commit' = writer'[v].seen
  BY <1>3, <1>5, <1>7, Zenon DEF OrderInv
<1> QED
  BY ONLY <1>3, <1>5, <1>6, <1>8 DEF OrderInv

\* The writer whose turn it is commits its reservation, and nobody else's.
LEMMA CommitKeepsOrder ==
    ASSUME TypeInv, LogInv, WriterInv, OrderInv, NEW w \in Writers, Commit(w)
    PROVE  OrderInv'
<1>0. /\ writer[w].pc = "commit" /\ writer[w].msg # 0 /\ UNCHANGED <<log, reserve>>
      /\ commit' = MessageAt(w) + TotalSize(w) /\ commit = writer[w].seen
      /\ writer' = [writer EXCEPT ![w] = IdleWriter] /\ writer \in [Writers -> WriterState]
      /\ commit \in Nat /\ Len(log) \in Nat
  BY DEF Commit, WriterInv, OrderInv, TypeInv
<1>1. PICK k : k = writer[w].msg
  BY Zenon
<1>2. /\ k \in Messages /\ writer[w].seen = Start(k) /\ MessageAt(w) = log[k].pos
      /\ writer[w].len = log[k].len
      /\ \A m \in Messages : m # k => log[m].end <= Start(k) \/ log[k].end <= Start(m)
  BY <1>0, <1>1, Claimed, Zenon
<1>3. /\ Start(k) \in Nat /\ log[k].pos \in Nat /\ log[k].len \in Nat /\ log[k].end \in Nat
      /\ reserve \in Nat /\ Size \in Nat /\ Start(k) <= log[k].pos
      /\ log[k].pos + HeaderCells + log[k].len = log[k].end /\ log[k].end <= reserve
  BY <1>2, Placed, Zenon
<1>4. commit' = log[k].end
  <2>1. commit' = log[k].pos + (HeaderCells + log[k].len)
    BY <1>0, <1>2, Zenon DEF TotalSize
  <2>2. log[k].pos + (HeaderCells + log[k].len) = log[k].end
    BY ONLY <1>3 DEF HeaderCells
  <2> QED
    BY <2>1, <2>2, Zenon
<1>5. \E m \in 1..(Len(log') + 1) : commit' = Start(m)'
  <2>1. k \in Nat /\ k + 1 \in 1..(Len(log) + 1) /\ k + 1 # 1 /\ (k + 1) - 1 = k
    BY ONLY <1>0, <1>2 DEF Messages
  <2>2. Start(k + 1)' = log[k].end
    BY <1>0, <2>1, Zenon DEF Start
  <2> QED
    BY ONLY <1>0, <1>4, <2>1, <2>2, Zenon
<1>6. commit' <= reserve' /\ reserve' <= commit' + Size
  <2>1. commit <= commit'
    <3>1. commit = Start(k)
      BY <1>0, <1>2, Zenon
    <3>2. PICK a, b, c, d : a = Start(k) /\ b = log[k].pos /\ c = log[k].end /\ d = log[k].len
      BY Zenon
    <3>3. a \in Nat /\ b \in Nat /\ c \in Nat /\ d \in Nat /\ a <= b /\ b + HeaderCells + d = c
      BY <1>3, <3>2, Zenon
    <3>4. a <= c
      BY ONLY <3>3 DEF HeaderCells
    <3> QED
      BY <1>4, <3>1, <3>2, <3>4, Zenon
  <2>2. reserve <= commit + Size
    BY Zenon DEF OrderInv
  <2> QED
    BY <1>0, <1>3, <1>4, <2>1, <2>2
<1>7. ASSUME NEW v \in Writers
      PROVE  /\ writer'[v].msg # 0 => commit' <= writer'[v].seen
             /\ writer'[v].pc = "commit" => commit' = writer'[v].seen
  <2>1. CASE v = w
    BY <1>0, <2>1, Zenon DEF IdleWriter
  <2>2. CASE v # w
    <3>1. writer'[v] = writer[v]
      BY ONLY <1>0, <2>2, Zenon
    <3>2. ASSUME writer[v].msg # 0 PROVE commit' <= writer[v].seen /\ writer[v].seen # commit
      <4>1. PICK m : m = writer[v].msg
        BY Zenon
      <4>2. m \in Messages /\ writer[v].seen = Start(m) /\ m # k /\ commit <= writer[v].seen
        BY <1>0, <1>1, <2>2, <3>2, <4>1, Zenon DEF WriterInv, Owns, OrderInv
      <4>3. Start(m) \in Nat /\ log[m].end \in Nat /\ Start(m) <= log[m].pos
            /\ log[m].pos < log[m].end /\ log[m].pos \in Nat
        BY <4>2, Placed, Zenon
      <4>4. log[k].end <= Start(m)
        <5>1. log[m].end <= Start(k) \/ log[k].end <= Start(m)
          BY <1>2, <4>2, Zenon
        <5>2. Start(k) <= Start(m)
          BY <1>0, <1>2, <4>2, Zenon
        <5> QED
          BY ONLY <1>3, <4>3, <5>1, <5>2
      <4>5. Start(m) # Start(k)
        BY ONLY <1>3, <4>3, <4>4 DEF HeaderCells
      <4> QED
        BY <1>0, <1>2, <1>4, <4>2, <4>4, <4>5, Zenon
    <3>3. writer[v].pc = "commit" => writer[v].msg # 0 /\ commit = writer[v].seen
      BY Zenon DEF WriterInv, OrderInv
    <3> QED
      BY ONLY <3>1, <3>2, <3>3, Zenon
  <2> QED
    BY ONLY <2>1, <2>2, Zenon
<1> QED
  BY <1>5, <1>6, <1>7, Zenon DEF OrderInv

\* A step that neither reserves nor commits keeps the order.
LEMMA OthersKeepOrder ==
    ASSUME OrderInv, NEW w \in Writers, UNCHANGED <<log, reserve, commit>>, OthersStay(w),
           Continues(w) \/ Rests(w), writer'[w].pc = "commit" => commit = writer[w].seen
    PROVE  OrderInv'
<1>1. \E m \in 1..(Len(log') + 1) : commit' = Start(m)'
  BY Zenon DEF OrderInv, Start
<1>2. commit' <= reserve' /\ reserve' <= commit' + Size
  BY Zenon DEF OrderInv
<1>3. ASSUME NEW v \in Writers
      PROVE  /\ writer'[v].msg # 0 => commit' <= writer'[v].seen
             /\ writer'[v].pc = "commit" => commit' = writer'[v].seen
  <2>1. CASE v # w
    BY <2>1, Zenon DEF OrderInv, OthersStay
  <2>2. CASE v = w /\ Continues(w)
    BY <2>2, Zenon DEF OrderInv, Continues
  <2>3. CASE v = w /\ Rests(w)
    BY <2>3, Zenon DEF Rests
  <2> QED
    BY <2>1, <2>2, <2>3, Zenon
<1> QED
  BY <1>1, <1>2, <1>3, Zenon DEF OrderInv

\* A writer's step keeps the order and the memory as long as nothing is broken.
LEMMA WriterKeepsMemory ==
    ASSUME TypeInv, LogInv, WriterInv, OrderInv, MemoryInv, NEW w \in Writers, broken' = {},
           WriterStep(w) \/ Crash(w) \/ \E n \in Lengths : BeginWrite(w, n)
    PROVE  OrderInv' /\ MemoryInv'
<1>1. CASE Reserve(w)
  BY <1>1, ReserveKeepsOrder, ReserveKeepsMemory, Zenon
<1>2. CASE ~Reserve(w)
  <2>0. UNCHANGED <<log, reserve>> /\ OthersStay(w) /\ (Continues(w) \/ Rests(w))
    BY <1>2, StepContinues, Zenon
  <2>t. writer \in [Writers -> WriterState] /\ writer[w] \in WriterState
    BY Zenon DEF TypeInv
  <2>1. ASSUME NEW n \in Lengths, BeginWrite(w, n) PROVE OrderInv' /\ MemoryInv'
    <3>1. /\ UNCHANGED <<cell, commit>> /\ writer[w].msg = 0 /\ writer'[w].pc = "reserve"
      BY <2>1, <2>t, Zenon DEF BeginWrite, sharedVars, IdleWriter, WriterInv, WriterState
    <3> QED
      BY <2>0, <3>1, OthersKeepOrder, OthersKeepMemory, Zenon
  <2>2. CASE Crash(w)
    <3>1. UNCHANGED <<cell, commit>> /\ writer'[w].pc = "dead" /\ writer'[w].msg = writer[w].msg
      BY <2>2, <2>t, Zenon DEF Crash, sharedVars, WriterState
    <3> QED
      BY <2>0, <3>1, OthersKeepOrder, OthersKeepMemory, Zenon
  <2>3. CASE RetryReserve(w)
    <3>1. UNCHANGED <<cell, commit>> /\ writer[w].msg = 0
      BY <2>3, Zenon DEF RetryReserve, sharedVars, WriterInv
    <3>2. writer'[w].pc # "commit"
      <4>1. CASE writer' = [writer EXCEPT ![w] = IdleWriter]
        BY <2>t, <4>1, Zenon DEF IdleWriter
      <4>2. CASE writer' = [writer EXCEPT ![w] = [@ EXCEPT !.retries = writer[w].retries + 1, !.seen = reserve]]
        BY <2>3, <2>t, <4>2, Zenon DEF RetryReserve, WriterState
      <4> QED
        BY <2>3, <4>1, <4>2, Zenon DEF RetryReserve
    <3> QED
      BY <2>0, <3>1, <3>2, OthersKeepOrder, OthersKeepMemory, Zenon
  <2>4. CASE WriteMarker(w)
    <3>1. UNCHANGED commit /\ writer'[w].pc = "sequence"
      BY <2>4, <2>t, Zenon DEF WriteMarker, Steps, WriterState
    <3> QED
      BY <2>0, <2>4, <3>1, OthersKeepOrder, MarkerKeepsMemory, Zenon
  <2>5. CASE TakeSequence(w)
    <3>1. /\ UNCHANGED <<cell, commit>> /\ writer[w].pc = "sequence" /\ writer'[w].pc = "message"
          /\ writer'[w].msg = writer[w].msg
      BY <2>5, <2>t, Zenon DEF TakeSequence, WriterState
    <3> QED
      BY <2>0, <3>1, OthersKeepOrder, OthersKeepMemory, Zenon
  <2>6. CASE WriteMessage(w)
    <3>1. UNCHANGED commit /\ writer'[w].pc = "await"
      BY <2>6, <2>t, Zenon DEF WriteMessage, Steps, WriterState
    <3> QED
      BY <2>0, <2>6, <3>1, OthersKeepOrder, MessageKeepsMemory, Zenon
  <2>7. CASE AwaitTurn(w)
    <3>1. /\ UNCHANGED <<cell, commit>> /\ writer[w].pc = "await" /\ commit = writer[w].seen
      BY <2>7, Zenon DEF AwaitTurn, Steps, sharedVars, MyTurn
    <3> QED
      BY <2>0, <3>1, OthersKeepOrder, OthersKeepMemory, Zenon
  <2>8. CASE CommitTimeout(w)
    BY <2>8, Zenon DEF CommitTimeout
  <2>9. CASE Commit(w)
    <3>1. UNCHANGED cell /\ writer[w].pc = "commit"
      BY <2>9, Zenon DEF Commit
    <3> QED
      BY <2>0, <2>9, <3>1, CommitKeepsOrder, OthersKeepMemory, Zenon
  <2> QED
    BY <1>2, <2>1, <2>2, <2>3, <2>4, <2>5, <2>6, <2>7, <2>8, <2>9, Zenon DEF WriterStep
<1> QED
  BY ONLY <1>1, <1>2, Zenon

\* What is broken stays broken.
LEMMA BrokenStays ==
    ASSUME NEW w \in Writers,
           WriterStep(w) \/ Crash(w) \/ \E n \in Lengths : BeginWrite(w, n)
    PROVE  broken \subseteq broken'
  BY Zenon DEF WriterStep, Crash, BeginWrite, Reserve, RetryReserve, WriteMarker, TakeSequence,
         WriteMessage, AwaitTurn, CommitTimeout, Commit, ghostVars

----------------------------------------------------------------------------
(* The ring *)

LEMMA InitRing == Init => RingInv
<1> SUFFICES ASSUME Init PROVE RingInv
  BY Zenon
<1>0. Size \in Nat /\ Size >= 1
  BY ONLY RingAssumption
<1>1. log = <<>> /\ Len(log) = 0 /\ Messages = {} /\ reserve = 0 /\ commit = 0 /\ Start(1) = 0
  BY DEF Init, Messages, Start
<1>2. \A w \in Writers : writer[w] = IdleWriter
  BY Zenon DEF Init
<1>3. TypeInv
  <2>1. cell \in [0..(Size - 1) -> Cells]
    BY Zenon DEF Init, Cells
  <2>2. writer \in [Writers -> WriterState]
    BY Zenon DEF Init, WriterState, IdleWriter
  <2>3. reader \in [Readers -> ReaderState]
    BY Zenon DEF Init, ReaderState, NoReader, IdleReader
  <2>4. log \in Seq(Reservation) /\ got \in [Readers -> Seq(Nat)] /\ missed \in [Readers -> SUBSET Nat]
    BY DEF Init
  <2>5. reserve \in Nat /\ commit \in Nat /\ sequence \in Nat
    BY Zenon DEF Init
  <2> QED
    BY <2>1, <2>2, <2>3, <2>4, <2>5, Zenon DEF TypeInv
<1>4. LogInv
  BY ONLY <1>1 DEF LogInv
<1>5. WriterInv
  BY ONLY <1>2 DEF WriterInv, IdleWriter
<1>6. OrderInv
  BY ONLY <1>0, <1>1, <1>2 DEF OrderInv, IdleWriter
<1>7. MemoryInv
  BY <1>1, Zenon DEF MemoryInv
<1> QED
  BY <1>3, <1>4, <1>5, <1>6, <1>7, Zenon DEF RingInv

\* Readers change nothing that writers use.
LEMMA ReaderLeavesRing ==
    ASSUME NEW r \in Readers, ReaderStep(r) \/ NewReader(r)
    PROVE  UNCHANGED <<sharedVars, writer, log, lapped, broken>>
  BY Zenon DEF ReaderStep, NewReader, LoadCommit, CheckDistance, ReadHeader, CopyMessage, ghostVars

\* What is about the ring alone stays when the ring does.
LEMMA RingStays ==
    ASSUME RingInv, TypeInv', UNCHANGED <<sharedVars, writer, log, broken>>
    PROVE  RingInv'
<1>0. UNCHANGED <<reserve, commit, cell, writer, log, broken>>
  BY Zenon DEF sharedVars
<1>1. LogInv'
  BY <1>0, LogStays, Zenon DEF RingInv
<1>2. WriterInv'
  BY <1>0 DEF RingInv, WriterInv, Owns, Messages, Start
<1>3. OrderInv => OrderInv'
  BY <1>0, Zenon DEF OrderInv, Start
<1>4. MemoryInv => MemoryInv'
  BY <1>0 DEF MemoryInv, Messages, Start, Rest, Intact, Marked, Unwritten, Unmarked,
              Offset, Lens, Piece, HeaderCells
<1> QED
  BY <1>0, <1>1, <1>2, <1>3, <1>4, Zenon DEF RingInv

\* Every step keeps the invariant of the ring.
LEMMA NextKeepsRing == RingInv /\ [Next]_vars => RingInv'
<1> SUFFICES ASSUME RingInv, [Next]_vars PROVE RingInv'
  BY Zenon
<1>0. TypeInv /\ LogInv /\ WriterInv /\ (broken = {} => OrderInv /\ MemoryInv)
  BY Zenon DEF RingInv
<1>1. ASSUME NEW w \in Writers,
             WriterStep(w) \/ Crash(w) \/ \E n \in Lengths : BeginWrite(w, n)
      PROVE  RingInv'
  <2>1. TypeInv'
    BY ONLY <1>0, <1>1, WriterTypes, Zenon
  <2>2. LogInv' /\ WriterInv'
    <3>1. CASE Reserve(w)
      BY ONLY <1>0, <3>1, ReserveKeepsLog, ReserveKeepsWriters, Zenon
    <3>2. CASE ~Reserve(w)
      BY ONLY <1>0, <1>1, <3>2, StepContinues, LogStays, OthersKeepWriters, Zenon
    <3> QED
      BY ONLY <3>1, <3>2, Zenon
  <2>3. ASSUME broken' = {} PROVE OrderInv' /\ MemoryInv'
    <3>1. broken = {}
      BY ONLY <1>1, <2>3, BrokenStays, Zenon
    <3> QED
      BY ONLY <1>0, <1>1, <2>3, <3>1, WriterKeepsMemory, Zenon
  <2> QED
    BY <2>1, <2>2, <2>3, Zenon DEF RingInv
<1>2. ASSUME NEW r \in Readers, ReaderStep(r) \/ NewReader(r) PROVE RingInv'
  BY <1>0, <1>2, ReaderTypes, ReaderLeavesRing, RingStays, Zenon
<1>3. CASE UNCHANGED vars
  <2>1. TypeInv'
    BY <1>0, <1>3, Zenon DEF TypeInv, vars, sharedVars, ghostVars
  <2> QED
    BY <1>3, <2>1, RingStays, Zenon DEF vars, ghostVars
<1> QED
  BY <1>1, <1>2, <1>3, Zenon DEF Next

\* The invariant of the ring holds in every reachable state.
LEMMA RingInvariance == Spec => []RingInv
  BY InitRing, NextKeepsRing, PTL DEF Spec

\* Every variable of the ring has its type, and no message runs over the end of
\* the data area, for rings of every size and messages of every length.
THEOREM RingTypes == Spec => []TypeOK
<1>1. RingInv => TypeOK
  <2> SUFFICES ASSUME RingInv PROVE TypeOK
    BY Zenon
  <2>1. TypeInv /\ LogInv
    BY Zenon DEF RingInv
  <2>2. DOMAIN cell = 0..(Size - 1) /\ reserve \in Nat /\ commit \in Nat /\ sequence \in Nat
    BY <2>1, Zenon DEF TypeInv
  <2>3. \A w \in Writers : writer[w] \in WriterState
    BY <2>1, Zenon DEF TypeInv
  <2>4. \A r \in Readers : reader[r] \in ReaderState
    BY <2>1, Zenon DEF TypeInv
  <2>5. \A m \in 1..Len(log) : Offset(log[m].pos) + HeaderCells + log[m].len <= Size
    BY <2>1, Zenon DEF LogInv, Messages
  <2> QED
    BY <2>2, <2>3, <2>4, <2>5, Zenon DEF TypeOK, WriterState, ReaderState
<1> QED
  BY <1>1, RingInvariance, PTL

\* "Readers only see commit_pos, ensuring they never read incomplete data": as long
\* as no commit timed out and no writer ran into uncommitted messages, what lies
\* below commit_pos and is not reserved again is the message put there.
THEOREM CommitsAreWhole == Spec => []CommittedIsWritten
<1>1. RingInv => CommittedIsWritten
  <2> SUFFICES ASSUME RingInv, broken = {}, NEW m \in 1..Len(log), log[m].end <= commit,
                      reserve <= log[m].pos + Size
               PROVE  Intact(m)
    BY Zenon DEF CommittedIsWritten, Intact
  <2>1. TypeInv /\ LogInv /\ WriterInv /\ OrderInv /\ MemoryInv /\ m \in Messages
    BY Zenon DEF RingInv, Messages
  <2>2. /\ Start(m) \in Nat /\ log[m].pos \in Nat /\ log[m].end \in Nat /\ commit \in Nat
        /\ Start(m) <= log[m].pos /\ log[m].pos < log[m].end
    BY <2>1, Placed, Zenon DEF TypeInv
  <2>3. ~Unwritten(m)
    <3> SUFFICES ASSUME NEW w \in Writers, writer[w].msg = m PROVE FALSE
      BY Zenon DEF Unwritten
    <3>1. writer[w].msg # 0 /\ Owns(w)
      BY <2>1 DEF WriterInv, Messages
    <3>2. commit <= Start(m)
      BY <2>1, <3>1, Zenon DEF OrderInv, Owns
    <3> QED
      BY <2>2, <3>2
  <2> QED
    BY <2>1, <2>3, Zenon DEF MemoryInv
<1> QED
  BY <1>1, RingInvariance, PTL

----------------------------------------------------------------------------
(* Readers *)

\* No reservation lies across a boundary.
LEMMA BoundaryOrder ==
    ASSUME TypeInv, LogInv, NEW p, Boundary(p), NEW m \in Messages
    PROVE  p \in Nat /\ (p <= Start(m) \/ log[m].end <= p)
<1>1. PICK n : n = Len(log)
  BY Zenon
<1>2. n \in Nat /\ m \in 1..n /\ Messages = 1..n /\ reserve = Start(n + 1)
  BY <1>1, LogTypes, Zenon DEF Messages, LogInv
<1>3. PICK k \in 1..(n + 1) : p = Start(k)
  BY <1>1, Zenon DEF Boundary
<1>4. p \in Nat
  BY <1>1, <1>3, LogTypes, Zenon
<1>5. CASE k = n + 1
  <2>1. log[m].end <= reserve
    BY Placed, Zenon
  <2> QED
    BY ONLY <1>2, <1>3, <1>4, <1>5, <2>1, Zenon
<1>6. CASE k # n + 1
  <2>1. k \in Messages
    BY ONLY <1>2, <1>3, <1>6
  <2>2. CASE m < k
    BY <1>3, <1>4, <2>1, <2>2, Zenon DEF LogInv
  <2>3. CASE m = k
    BY ONLY <1>3, <1>4, <2>3
  <2>4. CASE k < m
    <3>1. log[k].end <= Start(m)
      BY <2>1, <2>4, Zenon DEF LogInv
    <3>2. Start(k) <= log[k].pos /\ log[k].pos < log[k].end /\ Start(k) \in Nat
          /\ log[k].pos \in Nat /\ log[k].end \in Nat /\ Start(m) \in Nat
      BY <2>1, Placed, Zenon
    <3> QED
      BY ONLY <1>3, <1>4, <3>1, <3>2
  <2> QED
    BY ONLY <1>2, <1>3, <2>2, <2>3, <2>4
<1> QED
  BY <1>4, <1>5, <1>6, Zenon

\* No message lies across a place.
LEMMA PlaceOrder ==
    ASSUME TypeInv, LogInv, NEW p, Place(p), NEW m \in Messages
    PROVE  p \in Nat /\ (p <= log[m].pos \/ log[m].end <= p)
<1>0. Start(m) <= log[m].pos /\ Start(m) \in Nat /\ log[m].pos \in Nat /\ log[m].end \in Nat
  BY Placed, Zenon
<1>1. CASE Boundary(p)
  BY <1>0, <1>1, BoundaryOrder
<1>2. CASE \E k \in Messages : p = log[k].pos
  <2>1. PICK k \in Messages : p = log[k].pos
    BY ONLY <1>2, Zenon
  <2>2. Start(k) <= log[k].pos /\ Start(k) \in Nat /\ log[k].pos \in Nat /\ log[k].end \in Nat
        /\ log[k].pos < log[k].end
    BY Placed, Zenon
  <2>3. CASE m < k
    <3>1. log[m].end <= Start(k)
      BY <2>3, Zenon DEF LogInv
    <3> QED
      BY ONLY <1>0, <2>1, <2>2, <3>1
  <2>4. CASE m = k
    BY ONLY <1>0, <2>1, <2>4
  <2>5. CASE k < m
    <3>1. log[k].end <= Start(m)
      BY <2>5, Zenon DEF LogInv
    <3> QED
      BY ONLY <1>0, <2>1, <2>2, <3>1
  <2>6. m < k \/ m = k \/ k < m
    BY DEF Messages
  <2> QED
    BY ONLY <2>3, <2>4, <2>5, <2>6, Zenon
<1> QED
  BY <1>1, <1>2, Zenon DEF Place

\* The bounds of the ring are boundaries, and a place.
LEMMA Boundaries ==
    ASSUME TypeInv, LogInv
    PROVE  /\ Boundary(reserve) /\ \A m \in Messages : Boundary(log[m].end) /\ Place(log[m].pos)
           /\ \A p : Boundary(p) => Place(p)
           /\ OrderInv => Boundary(commit)
<1>1. PICK n : n = Len(log)
  BY Zenon
<1>2. n \in Nat /\ Messages = 1..n /\ reserve = Start(n + 1)
  BY <1>1, LogTypes, Zenon DEF Messages, LogInv
<1>3. Boundary(reserve)
  BY ONLY <1>1, <1>2 DEF Boundary
<1>4. ASSUME NEW m \in Messages PROVE Boundary(log[m].end) /\ Place(log[m].pos)
  <2>1. m + 1 \in 1..(n + 1) /\ m + 1 # 1 /\ (m + 1) - 1 = m
    BY ONLY <1>2
  <2>2. Start(m + 1) = log[m].end
    BY <2>1, Zenon DEF Start
  <2> QED
    BY <1>1, <2>1, <2>2, Zenon DEF Boundary, Place
<1> QED
  BY <1>3, <1>4, Zenon DEF Place, Boundary, OrderInv

\* What begins below commit_pos is committed, and written.
LEMMA BelowCommit ==
    ASSUME TypeInv, LogInv, WriterInv, OrderInv, NEW m \in Messages, Start(m) < commit
    PROVE  log[m].end <= commit /\ ~Unwritten(m) /\ ~Unmarked(m)
<1>0. Start(m) \in Nat /\ commit \in Nat
  BY Placed, Zenon DEF TypeInv
<1>1. log[m].end <= commit
  BY <1>0, Boundaries, BoundaryOrder
<1>2. ASSUME NEW w \in Writers, writer[w].msg = m PROVE FALSE
  <2>1. writer[w].msg # 0
    BY ONLY <1>2 DEF Messages
  <2>2. writer[w].seen = Start(m) /\ commit <= writer[w].seen
    BY <1>2, <2>1, Zenon DEF WriterInv, Owns, OrderInv
  <2> QED
    BY <1>0, <2>2
<1> QED
  BY <1>1, <1>2, Zenon DEF Unwritten, Unmarked

\* A reader that goes on to a header is before a message or its wrap marker.
LEMMA AtHeader ==
    ASSUME TypeInv, LogInv, WriterInv, OrderInv, MemoryInv, RestsFit, NEW p, Place(p),
           p < commit, reserve <= p + Size
    PROVE  \E m \in Messages :
              /\ log[m].end <= commit
              /\ \/ p = log[m].pos /\ Intact(m)
                 \/ p = Start(m) /\ Rest(m) >= HeaderCells /\ Marked(m)
<1>1. PICK n : n = Len(log)
  BY Zenon
<1>2. /\ n \in Nat /\ Messages = 1..n /\ reserve = Start(n + 1) /\ commit <= reserve
      /\ commit \in Nat /\ reserve \in Nat
  BY <1>1, LogTypes, Zenon DEF Messages, LogInv, OrderInv, TypeInv
<1>3. PICK m \in Messages : p = Start(m) \/ p = log[m].pos
  <2>1. CASE Boundary(p)
    <3>1. PICK k \in 1..(n + 1) : p = Start(k)
      BY <1>1, <2>1, Zenon DEF Boundary
    <3>2. k # n + 1
      BY <1>2, <3>1
    <3> QED
      BY ONLY <1>2, <3>1, <3>2
  <2> QED
    BY <2>1, Zenon DEF Place
<1>4. /\ Start(m) \in Nat /\ log[m].pos \in Nat /\ Start(m) <= log[m].pos /\ Rest(m) \in Nat
      /\ Rest(m) = log[m].pos - Start(m)
  BY <1>3, Placed, Zenon DEF Rest
<1>5. Start(m) < commit
  BY <1>2, <1>3, <1>4
<1>6. log[m].end <= commit /\ ~Unwritten(m) /\ ~Unmarked(m)
  BY <1>5, BelowCommit, Zenon
<1>7. CASE p = log[m].pos
  BY <1>6, <1>7, Zenon DEF MemoryInv
<1>8. CASE p = Start(m) /\ p # log[m].pos
  <2>1. Rest(m) # 1 /\ Rest(m) # 0
    BY <1>4, <1>8 DEF RestsFit
  <2>2. Rest(m) >= HeaderCells
    BY ONLY <1>4, <2>1 DEF HeaderCells
  <2> QED
    BY <1>6, <1>8, <2>2, Zenon DEF MemoryInv
<1> QED
  BY <1>3, <1>7, <1>8, Zenon

\* The messages up to a place, and those from there on.
LEMMA SpanAdd ==
    ASSUME TypeInv, LogInv, NEW a \in Nat, NEW b, NEW c, Place(b), Place(c), a <= b, b <= c
    PROVE  Span(a, c) = Span(a, b) \cup Span(b, c)
<1>1. ASSUME NEW m \in Messages
      PROVE  a <= log[m].pos /\ log[m].end <= c
               <=> \/ a <= log[m].pos /\ log[m].end <= b
                   \/ b <= log[m].pos /\ log[m].end <= c
  <2>1. b \in Nat /\ c \in Nat /\ (b <= log[m].pos \/ log[m].end <= b)
    BY PlaceOrder, Zenon
  <2>2. log[m].pos \in Nat /\ log[m].end \in Nat /\ log[m].pos < log[m].end
    BY Placed, Zenon
  <2> QED
    BY <2>1, <2>2
<1> QED
  BY <1>1, Zenon DEF Span

\* Places and spans depend on the reservations only.
LEMMA PlaceStays ==
    ASSUME UNCHANGED log, NEW p, NEW q
    PROVE  (Place(p)' <=> Place(p)) /\ (Boundary(p)' <=> Boundary(p)) /\ Span(p, q)' = Span(p, q)
           /\ Messages' = Messages
  BY Zenon DEF Place, Boundary, Start, Messages, Span

\* What a reader is about after its step.
LEMMA PlaceAfter ==
    ASSUME NEW r \in Readers, UNCHANGED <<log, reserve, commit>>,
           NEW p, NEW s, p = reader'[r].pos, s = reader'[r].seen, reader'[r].pc # "none",
           Place(p), p <= commit, reader'[r].start <= p,
           reader'[r].pc \in {"distance", "header", "copy"}
             => Boundary(s) /\ p < s /\ s <= commit,
           reader'[r].pc \in {"header", "copy"} => reserve <= p + Size,
           reader'[r].pc = "copy" =>
             \E m \in Messages : /\ p = log[m].pos
                                 /\ reader'[r].lens = <<HeaderCells + log[m].len, log[m].len>>
    PROVE  PlaceInv(r)'
<1>1. Place(p)' /\ (Boundary(s) => Boundary(s)') /\ Messages' = Messages
  BY PlaceStays, Zenon
<1>2. Place(reader[r].pos)' /\ (Boundary(s) => Boundary(reader[r].seen)')
  BY <1>1, Zenon DEF Place, Boundary, Start, Messages
<1>3. reader'[r].pc = "copy" => \E m \in Messages' : Reads(r, m)'
  BY <1>1, Zenon DEF Reads, HeaderCells
<1> QED
  BY <1>2, <1>3, Zenon DEF PlaceInv

\* A reader's step that returns nothing.
LEMMA ReturnsNothing ==
    ASSUME NEW r \in Readers, Follows(r), PlaceInv(r)', UNCHANGED log, got'[r] = got[r],
           NEW a, NEW p, a = reader'[r].start, p = reader'[r].pos,
           reader'[r].pc # "none" => Returned(r) \cup missed'[r] = Span(a, p)
    PROVE  Follows(r)'
<1>1. Returned(r)' = Returned(r)
  BY Zenon DEF Returned
<1>2. Span(reader[r].start, reader[r].pos)' = Span(a, p)
  BY Zenon DEF Span, Messages
<1> QED
  BY <1>1, <1>2, Zenon DEF Follows

\* A new reader begins at the commit position.
LEMMA NewReaderFollows ==
    ASSUME TypeInv, LogInv, OrderInv, NEW r \in Readers, NewReader(r), Follows(r)
    PROVE  Follows(r)'
<1>0. /\ reader[r].pc = "none" /\ UNCHANGED <<log, reserve, commit, got, missed>>
      /\ reader'[r] = IdleReader(commit) /\ commit \in Nat
  BY Zenon DEF NewReader, sharedVars, ghostVars, TypeInv
<1>1. got[r] = <<>> /\ missed[r] = {}
  BY <1>0, Zenon DEF Follows, PlaceInv
<1>2. PICK p : p = commit
  BY Zenon
<1>3. /\ reader'[r].pc = "idle" /\ reader'[r].pos = p /\ reader'[r].start = p /\ p \in Nat
  BY ONLY <1>0, <1>2 DEF IdleReader
<1>4. Place(p)
  BY <1>2, Boundaries, Zenon
<1>5. PlaceInv(r)'
  <2>1. PICK s : s = reader'[r].seen
    BY Zenon
  <2> QED
    BY ONLY <1>0, <1>2, <1>3, <1>4, <2>1, PlaceAfter
<1>6. Span(p, p) = {}
  <2>1. ASSUME NEW m \in Messages, p <= log[m].pos, log[m].end <= p PROVE FALSE
    BY <1>3, <2>1, Placed
  <2> QED
    BY <2>1, Zenon DEF Span
<1>7. Returned(r) \cup missed'[r] = Span(p, p)
  <2>1. DOMAIN got[r] = {}
    BY ONLY <1>1
  <2>2. Returned(r) = {}
    BY <2>1, Zenon DEF Returned
  <2> QED
    BY <1>0, <1>1, <1>6, <2>2, Zenon
<1> QED
  BY <1>0, <1>3, <1>5, <1>7, ReturnsNothing, Zenon

\* The state of a reader that read is about.
LEMMA ReadingTypes ==
    ASSUME TypeInv, LogInv, NEW r \in Readers, Follows(r), reader[r].pc # "none"
    PROVE  /\ reader \in [Readers -> ReaderState] /\ reader[r] \in ReaderState
           /\ reader[r].start \in Nat /\ reader[r].pos \in Nat /\ reader[r].seen \in Nat
           /\ commit \in Nat /\ reserve \in Nat /\ Size \in Nat
           /\ Place(reader[r].pos) /\ reader[r].pos <= commit
           /\ reader[r].start <= reader[r].pos
           /\ Returned(r) \cup missed[r] = Span(reader[r].start, reader[r].pos)
<1>1. /\ reader \in [Readers -> ReaderState] /\ reader[r] \in ReaderState
      /\ commit \in Nat /\ reserve \in Nat /\ Size \in Nat
  BY RingAssumption, Zenon DEF TypeInv
<1>2. reader[r].start \in Nat /\ reader[r].pos \in Nat /\ reader[r].seen \in Nat
  BY <1>1, Zenon DEF ReaderState
<1> QED
  BY <1>1, <1>2, Zenon DEF Follows, PlaceInv

\* read loads the commit position.
LEMMA LoadCommitFollows ==
    ASSUME TypeInv, LogInv, OrderInv, NEW r \in Readers, LoadCommit(r), Follows(r)
    PROVE  Follows(r)'
<1>0. /\ reader[r].pc = "idle" /\ commit # reader[r].pos
      /\ UNCHANGED <<log, reserve, commit, got, missed>>
      /\ reader' = [reader EXCEPT ![r] = [@ EXCEPT !.pc = "distance", !.seen = commit]]
  BY Zenon DEF LoadCommit, sharedVars, ghostVars
<1>1. /\ reader \in [Readers -> ReaderState] /\ reader[r] \in ReaderState
      /\ reader[r].start \in Nat /\ reader[r].pos \in Nat /\ commit \in Nat
      /\ Place(reader[r].pos) /\ reader[r].pos <= commit /\ reader[r].start <= reader[r].pos
      /\ Returned(r) \cup missed[r] = Span(reader[r].start, reader[r].pos)
  BY <1>0, ReadingTypes, Zenon
<1>2. PICK a, p, s : a = reader[r].start /\ p = reader[r].pos /\ s = commit
  BY Zenon
<1>3. /\ reader'[r].pc = "distance" /\ reader'[r].pos = p /\ reader'[r].start = a
      /\ reader'[r].seen = s
  BY <1>0, <1>1, <1>2, Zenon DEF ReaderState
<1>4. Boundary(s) /\ p < s /\ s <= commit
  BY <1>0, <1>1, <1>2, Boundaries
<1>5. PlaceInv(r)'
  BY ONLY <1>0, <1>1, <1>2, <1>3, <1>4, PlaceAfter, Zenon
<1>6. Returned(r) \cup missed'[r] = Span(a, p)
  BY ONLY <1>0, <1>1, <1>2, Zenon
<1> QED
  BY <1>0, <1>3, <1>5, <1>6, ReturnsNothing, Zenon

\* A reader that is too far behind skips to the commit position it loaded.
LEMMA CheckDistanceFollows ==
    ASSUME TypeInv, LogInv, OrderInv, NEW r \in Readers, CheckDistance(r), Follows(r)
    PROVE  Follows(r)'
<1>0. /\ reader[r].pc = "distance" /\ UNCHANGED <<log, reserve, commit, got>>
  BY Zenon DEF CheckDistance, sharedVars
<1>1. /\ reader \in [Readers -> ReaderState] /\ reader[r] \in ReaderState
      /\ reader[r].start \in Nat /\ reader[r].pos \in Nat /\ commit \in Nat
      /\ reserve \in Nat /\ Size \in Nat /\ reader[r].seen \in Nat
      /\ Place(reader[r].pos) /\ reader[r].pos <= commit /\ reader[r].start <= reader[r].pos
      /\ Returned(r) \cup missed[r] = Span(reader[r].start, reader[r].pos)
  BY <1>0, ReadingTypes, Zenon
<1>2. PICK a, p, s : a = reader[r].start /\ p = reader[r].pos /\ s = reader[r].seen
  BY Zenon
<1>3. Boundary(s) /\ p < s /\ s <= commit
  BY <1>0, <1>2, Zenon DEF Follows, PlaceInv
<1>4. CASE TooFarBehind(r)
  <2>1. /\ reader' = [reader EXCEPT ![r] = [@ EXCEPT !.pc = "idle", !.pos = reader[r].seen]]
        /\ missed' = [missed EXCEPT ![r] = @ \cup Between(r)]
    BY <1>4, Zenon DEF CheckDistance
  <2>2. reader'[r].pc = "idle" /\ reader'[r].pos = s /\ reader'[r].start = a /\ reader'[r].seen = s
    BY <1>1, <1>2, <2>1, Zenon DEF ReaderState
  <2>3. Place(s) /\ Place(p) /\ a \in Nat /\ p \in Nat /\ s \in Nat /\ a <= p /\ p <= s /\ a <= s
    <3>1. Place(s) /\ Place(p)
      BY <1>1, <1>2, <1>3, Boundaries, Zenon
    <3>2. a \in Nat /\ p \in Nat /\ s \in Nat /\ a <= p /\ p < s
      BY <1>1, <1>2, <1>3, Zenon
    <3>3. p <= s /\ a <= s
      BY ONLY <3>2
    <3> QED
      BY <3>1, <3>2, <3>3, Zenon
  <2>4. PlaceInv(r)'
    BY <1>0, <1>3, <2>2, <2>3, PlaceAfter, Zenon
  <2>5. Between(r) = Span(p, s)
    <3>1. ASSUME NEW m \in Messages PROVE log[m].pos < s <=> log[m].end <= s
      <4>1. s <= Start(m) \/ log[m].end <= s
        BY <1>3, BoundaryOrder, Zenon
      <4>2. Start(m) \in Nat /\ log[m].pos \in Nat /\ log[m].end \in Nat
            /\ Start(m) <= log[m].pos /\ log[m].pos < log[m].end
        BY Placed, Zenon
      <4> QED
        BY ONLY <2>3, <4>1, <4>2
    <3> QED
      BY <1>2, <3>1, Zenon DEF Between, Span, Messages
  <2>6. Span(a, s) = Span(a, p) \cup Span(p, s)
    BY <2>3, SpanAdd
  <2>7. missed'[r] = missed[r] \cup Between(r)
    BY <2>1, Zenon DEF TypeInv
  <2>8. Returned(r) \cup missed'[r] = Span(a, s)
    BY <1>1, <1>2, <2>5, <2>6, <2>7, Zenon
  <2> QED
    BY <1>0, <2>2, <2>4, <2>8, ReturnsNothing, Zenon
<1>5. CASE ~TooFarBehind(r)
  <2>1. reader' = [reader EXCEPT ![r].pc = "header"] /\ missed' = missed
    BY <1>5, Zenon DEF CheckDistance
  <2>2. reader'[r].pc = "header" /\ reader'[r].pos = p /\ reader'[r].start = a /\ reader'[r].seen = s
    BY <1>1, <1>2, <2>1, Zenon DEF ReaderState
  <2>3. reserve <= p + Size
    BY ONLY <1>1, <1>2, <1>5 DEF TooFarBehind, Monus
  <2>4. PlaceInv(r)'
    BY <1>0, <1>1, <1>2, <1>3, <2>2, <2>3, PlaceAfter, Zenon
  <2>5. Returned(r) \cup missed'[r] = Span(a, p)
    BY ONLY <1>1, <1>2, <2>1, Zenon
  <2> QED
    BY <1>0, <2>2, <2>4, <2>5, ReturnsNothing, Zenon
<1> QED
  BY ONLY <1>4, <1>5, Zenon

\* What a reader makes of the header of a message, and of a wrap marker.
LEMMA HeaderRead ==
    ASSUME TypeInv, LogInv, NEW r \in Readers, NEW m \in Messages
    PROVE  /\ Intact(m) /\ reader[r].pos = log[m].pos =>
                /\ LengthsAt(cell[Offset(reader[r].pos)])
                     = {<<HeaderCells + log[m].len, log[m].len>>}
                /\ AfterHeader(r, HeaderCells + log[m].len, log[m].len) = reader[r].pos
           /\ Rest(m) >= HeaderCells /\ Marked(m) /\ reader[r].pos = Start(m) =>
                /\ LengthsAt(cell[Offset(reader[r].pos)]) = {<<Rest(m), 0>>}
                /\ AfterHeader(r, Rest(m), 0) = log[m].pos /\ ~Readable(Rest(m), 0)
<1>0. /\ log[m].len \in Nat /\ log[m].len >= 1 /\ Rest(m) \in Nat /\ Size \in Nat
      /\ Start(m) \in Nat /\ log[m].pos \in Nat
      /\ Rest(m) # 0 => Offset(Start(m)) + Rest(m) = Size
  BY Placed, Zenon
<1>1. ASSUME Intact(m), reader[r].pos = log[m].pos
      PROVE  /\ LengthsAt(cell[Offset(reader[r].pos)])
                  = {<<HeaderCells + log[m].len, log[m].len>>}
             /\ AfterHeader(r, HeaderCells + log[m].len, log[m].len) = reader[r].pos
  <2>1. cell[Offset(reader[r].pos)] = Lens(HeaderCells + log[m].len, log[m].len)
    BY <1>1, Zenon DEF Intact
  <2>2. PICK l : l = log[m].len
    BY Zenon
  <2>3. l \in Nat /\ l >= 1 /\ 2 + l <= Size
    <3>1. Offset(log[m].pos) \in Nat /\ Offset(log[m].pos) + (HeaderCells + log[m].len) <= Size
      BY PlacedCells, Zenon
    <3> QED
      BY ONLY <1>0, <2>2, <3>1 DEF HeaderCells
  <2>4. /\ 2 + l # 0 /\ ~(2 + l > Size) /\ l # 0 /\ ~(l > Monus(2 + l, 2))
    BY ONLY <1>0, <2>3 DEF Monus
  <2>5. AfterHeader(r, 2 + l, l) = reader[r].pos
    BY <2>4, Zenon DEF AfterHeader, HeaderCells
  <2> QED
    BY ONLY <2>1, <2>2, <2>5 DEF LengthsAt, Lens, HeaderCells
<1>2. ASSUME Rest(m) >= HeaderCells, Marked(m), reader[r].pos = Start(m)
      PROVE  /\ LengthsAt(cell[Offset(reader[r].pos)]) = {<<Rest(m), 0>>}
             /\ AfterHeader(r, Rest(m), 0) = log[m].pos /\ ~Readable(Rest(m), 0)
  <2>1. cell[Offset(reader[r].pos)] = Lens(Rest(m), 0)
    BY <1>2, Zenon DEF Marked
  <2>2. PICK t : t = Rest(m)
    BY Zenon
  <2>3. t \in Nat /\ t # 0 /\ t <= Size /\ reader[r].pos + t = log[m].pos
    <3>1. Offset(Start(m)) \in Nat
      BY ONLY <1>0, Division, Zenon
    <3>2. t \in Nat /\ t >= 2 /\ Offset(Start(m)) + t = Size
      BY ONLY <1>0, <1>2, <2>2 DEF HeaderCells
    <3>3. reader[r].pos + t = log[m].pos
      BY ONLY <1>0, <1>2, <2>2 DEF Rest
    <3> QED
      BY ONLY <1>0, <3>1, <3>2, <3>3
  <2>4. AfterHeader(r, t, 0) = reader[r].pos + t
    BY ONLY <1>0, <2>3 DEF AfterHeader
  <2>5. ~Readable(t, 0)
    BY DEF Readable
  <2> QED
    BY ONLY <2>1, <2>2, <2>3, <2>4, <2>5 DEF LengthsAt, Lens
<1> QED
  BY <1>1, <1>2, Zenon

\* Nothing lies between the beginning of a reservation and its message.
LEMMA SpanRest ==
    ASSUME TypeInv, LogInv, NEW m \in Messages
    PROVE  Span(Start(m), log[m].pos) = {} /\ Span(log[m].pos, log[m].end) = {m}
<1>0. /\ Start(m) \in Nat /\ log[m].pos \in Nat /\ log[m].end \in Nat
      /\ Start(m) <= log[m].pos /\ log[m].pos < log[m].end
  BY Placed, Zenon
<1>1. ASSUME NEW k \in Messages, Start(m) <= log[k].pos, log[k].end <= log[m].end PROVE k = m
  <2>1. /\ Start(k) \in Nat /\ log[k].pos \in Nat /\ log[k].end \in Nat
        /\ Start(k) <= log[k].pos /\ log[k].pos < log[k].end
    BY Placed, Zenon
  <2>2. k < m => log[k].end <= Start(m)
    BY Zenon DEF LogInv
  <2>3. m < k => log[m].end <= Start(k)
    BY Zenon DEF LogInv
  <2>4. k < m \/ k = m \/ m < k
    BY DEF Messages
  <2> QED
    BY ONLY <1>0, <1>1, <2>1, <2>2, <2>3, <2>4
<1>2. ASSUME NEW k \in Messages, Start(m) <= log[k].pos, log[k].end <= log[m].pos PROVE FALSE
  <2>1. log[k].end \in Nat
    BY Placed, Zenon
  <2>2. k = m
    BY ONLY <1>0, <1>1, <1>2, <2>1
  <2> QED
    BY ONLY <1>0, <1>2, <2>2
<1>3. ASSUME NEW k \in Messages, log[m].pos <= log[k].pos, log[k].end <= log[m].end PROVE k = m
  <2>1. log[k].pos \in Nat
    BY Placed, Zenon
  <2> QED
    BY ONLY <1>0, <1>1, <1>3, <2>1
<1>4. m \in Span(log[m].pos, log[m].end)
  BY ONLY <1>0 DEF Span
<1> QED
  BY <1>2, <1>3, <1>4, Zenon DEF Span

\* The header leads to the message, or past the wrap marker to it.
LEMMA ReadHeaderFollows ==
    ASSUME TypeInv, LogInv, WriterInv, OrderInv, MemoryInv, RestsFit, NEW r \in Readers,
           ReadHeader(r), Follows(r)
    PROVE  Follows(r)'
<1>0. /\ reader[r].pc = "header" /\ UNCHANGED <<log, reserve, commit, got, missed>>
  BY Zenon DEF ReadHeader, sharedVars, ghostVars
<1>1. /\ reader \in [Readers -> ReaderState] /\ reader[r] \in ReaderState
      /\ reader[r].start \in Nat /\ reader[r].pos \in Nat /\ commit \in Nat
      /\ reserve \in Nat /\ Size \in Nat /\ reader[r].seen \in Nat
      /\ Place(reader[r].pos) /\ reader[r].pos <= commit /\ reader[r].start <= reader[r].pos
      /\ Returned(r) \cup missed[r] = Span(reader[r].start, reader[r].pos)
  BY <1>0, ReadingTypes, Zenon
<1>2. PICK a, p, s : a = reader[r].start /\ p = reader[r].pos /\ s = reader[r].seen
  BY Zenon
<1>3. Boundary(s) /\ p < s /\ s <= commit /\ reserve <= p + Size
  BY <1>0, <1>2, Zenon DEF Follows, PlaceInv
<1>4. PICK m \in Messages : /\ log[m].end <= commit
                            /\ \/ p = log[m].pos /\ Intact(m)
                               \/ p = Start(m) /\ Rest(m) >= HeaderCells /\ Marked(m)
  <2>1. Place(p) /\ p < commit
    BY ONLY <1>1, <1>2, <1>3
  <2> QED
    BY <1>3, <2>1, AtHeader, Zenon
<1>5. PICK l \in LengthsAt(cell[Offset(reader[r].pos)]) :
         reader' = IF Readable(l[1], l[2])
                   THEN [reader EXCEPT ![r] =
                           [@ EXCEPT !.pc = "copy", !.lens = l,
                                     !.seq = SequenceAt(Offset(reader[r].pos) + 1)]]
                   ELSE [reader EXCEPT ![r] =
                           [@ EXCEPT !.pc = "idle", !.pos = AfterHeader(r, l[1], l[2])]]
  BY Zenon DEF ReadHeader
<1>6. CASE p = log[m].pos /\ Intact(m)
  <2>1. /\ l = <<HeaderCells + log[m].len, log[m].len>>
        /\ AfterHeader(r, l[1], l[2]) = p
    <3>1. reader[r].pos = log[m].pos
      BY <1>2, <1>6, Zenon
    <3>2. /\ LengthsAt(cell[Offset(reader[r].pos)]) = {<<HeaderCells + log[m].len, log[m].len>>}
          /\ AfterHeader(r, HeaderCells + log[m].len, log[m].len) = reader[r].pos
      BY <1>6, <3>1, HeaderRead, Zenon
    <3>3. l = <<HeaderCells + log[m].len, log[m].len>>
      BY ONLY <1>5, <3>2, Zenon
    <3>4. l[1] = HeaderCells + log[m].len /\ l[2] = log[m].len
      BY <3>3, Zenon
    <3> QED
      BY <1>2, <3>2, <3>3, <3>4, Zenon
  <2>2. /\ reader'[r].pos = p /\ reader'[r].start = a /\ reader'[r].seen = s
        /\ reader'[r].pc \in {"idle", "copy"} /\ (reader'[r].pc = "copy" => reader'[r].lens = l)
    <3>1. CASE Readable(l[1], l[2])
      BY <1>1, <1>2, <1>5, <3>1, Zenon DEF ReaderState
    <3>2. CASE ~Readable(l[1], l[2])
      BY <1>1, <1>2, <1>5, <2>1, <3>2, Zenon DEF ReaderState
    <3> QED
      BY <3>1, <3>2, Zenon
  <2>3. PlaceInv(r)'
    BY <1>0, <1>1, <1>2, <1>3, <1>6, <2>1, <2>2, PlaceAfter, Zenon
  <2>4. Returned(r) \cup missed'[r] = Span(a, p)
    BY <1>0, <1>1, <1>2, Zenon
  <2> QED
    BY <1>0, <2>2, <2>3, <2>4, ReturnsNothing, Zenon
<1>7. CASE p = Start(m) /\ Rest(m) >= HeaderCells /\ Marked(m)
  <2>1. PICK q : q = log[m].pos
    BY Zenon
  <2>2. l = <<Rest(m), 0>> /\ AfterHeader(r, l[1], l[2]) = q /\ ~Readable(l[1], l[2])
    <3>1. reader[r].pos = Start(m)
      BY ONLY <1>2, <1>7, Zenon
    <3>2. /\ LengthsAt(cell[Offset(reader[r].pos)]) = {<<Rest(m), 0>>}
          /\ AfterHeader(r, Rest(m), 0) = log[m].pos /\ ~Readable(Rest(m), 0)
      BY <1>7, <3>1, HeaderRead, Zenon
    <3>3. l = <<Rest(m), 0>>
      BY ONLY <1>5, <3>2, Zenon
    <3>4. l[1] = Rest(m) /\ l[2] = 0
      BY ONLY <3>3, Zenon
    <3> QED
      BY <2>1, <3>2, <3>3, <3>4, Zenon
  <2>3. reader'[r].pc = "idle" /\ reader'[r].pos = q /\ reader'[r].start = a
    BY <1>1, <1>2, <1>5, <2>2, Zenon DEF ReaderState
  <2>4. /\ Place(q) /\ q <= commit /\ a <= p /\ p <= q /\ a <= q
    <3>1. /\ Start(m) <= log[m].pos /\ log[m].pos < log[m].end /\ Start(m) \in Nat
          /\ log[m].pos \in Nat /\ log[m].end \in Nat
      BY Placed, Zenon
    <3>2. Place(q)
      BY <2>1, Boundaries, Zenon
    <3>3. /\ a \in Nat /\ p \in Nat /\ q \in Nat /\ commit \in Nat /\ a <= p
          /\ p = Start(m) /\ q = log[m].pos /\ log[m].end <= commit
      BY <1>1, <1>2, <1>4, <1>7, <2>1, <3>1, Zenon
    <3>4. q <= commit /\ p <= q /\ a <= q
      BY ONLY <3>1, <3>3
    <3> QED
      BY <3>2, <3>3, <3>4, Zenon
  <2>5. PlaceInv(r)'
    <3>1. PICK z : z = reader'[r].seen
      BY Zenon
    <3> QED
      BY <1>0, <2>3, <2>4, <3>1, PlaceAfter, Zenon
  <2>6. Span(a, q) = Span(a, p) \cup Span(p, q)
    BY <1>1, <1>2, <2>4, SpanAdd
  <2>7. Span(p, q) = {}
    BY <1>7, <2>1, SpanRest, Zenon
  <2>8. Returned(r) \cup missed'[r] = Span(a, q)
    BY <1>0, <1>1, <1>2, <2>6, <2>7, Zenon
  <2> QED
    BY <1>0, <2>3, <2>5, <2>8, ReturnsNothing, Zenon
<1> QED
  BY <1>4, <1>6, <1>7, Zenon

\* A reader before a message that is whole copies it.
LEMMA CopiedIs ==
    ASSUME TypeInv, LogInv, NEW r \in Readers, NEW m \in Messages, Intact(m), Reads(r, m)
    PROVE  Copied(r) = m
<1> DEFINE from == Offset(reader[r].pos) + HeaderCells
           len  == reader[r].lens[2]
           Whole(k) == /\ log[k].len = len
                       /\ \A i \in 1..len : /\ from + i - 1 \in DOMAIN cell
                                            /\ cell[from + i - 1] = Piece(k, i)
<1>1. reader[r].pos = log[m].pos /\ len = log[m].len
  BY DEF Reads
<1>2. /\ log[m].len \in Nat /\ log[m].len >= 1 /\ Size \in Nat /\ DOMAIN cell = 0..(Size - 1)
  BY Placed, Zenon DEF TypeInv
<1>3. Offset(log[m].pos) \in Nat /\ Offset(log[m].pos) + (HeaderCells + log[m].len) <= Size
  BY PlacedCells, Zenon
<1>4. PICK o, l : o = Offset(log[m].pos) /\ l = log[m].len
  BY Zenon
<1>5. o \in Nat /\ l \in Nat /\ l >= 1 /\ o + (2 + l) <= Size /\ from = o + 2 /\ len = l
  BY <1>1, <1>2, <1>3, <1>4, Zenon DEF HeaderCells
<1>6. ASSUME NEW i \in 1..l PROVE (o + 2) + i - 1 \in 0..(Size - 1)
  BY ONLY <1>2, <1>5
<1>7. ASSUME NEW i \in 1..l PROVE cell[(o + 2) + i - 1] = Piece(m, i)
  <2>1. cell[o + HeaderCells + i - 1] = Piece(m, i)
    BY <1>4, <1>7, Zenon DEF Intact
  <2>2. o + HeaderCells + i - 1 = (o + 2) + i - 1
    BY <1>5, Zenon DEF HeaderCells
  <2> QED
    BY ONLY <2>1, <2>2, Zenon
<1>8. Whole(m)
  BY <1>2, <1>4, <1>5, <1>6, <1>7, Zenon
<1>9. ASSUME NEW k \in Messages, Whole(k) PROVE k = m
  <2>1. 1 \in 1..l
    BY ONLY <1>5
  <2>2. cell[from + 1 - 1] = Piece(k, 1) /\ cell[from + 1 - 1] = Piece(m, 1)
    BY <1>5, <1>8, <1>9, <2>1, Zenon
  <2> QED
    BY ONLY <2>2 DEF Piece
<1>10. Copied(r) = IF \E k \in 1..Len(log) : Whole(k) THEN CHOOSE k \in 1..Len(log) : Whole(k) ELSE 0
  BY Zenon DEF Copied
<1> HIDE DEF Whole
<1>11. m \in 1..Len(log) /\ \A k \in 1..Len(log) : Whole(k) => k = m
  BY <1>9, Zenon DEF Messages
<1> QED
  BY ONLY <1>8, <1>10, <1>11, Zenon

\* The message is handed out, behind all that were handed out before.
LEMMA CopyMessageFollows ==
    ASSUME TypeInv, LogInv, WriterInv, OrderInv, MemoryInv, NEW r \in Readers,
           CopyMessage(r), Follows(r)
    PROVE  Follows(r)'
<1>0. /\ reader[r].pc = "copy" /\ UNCHANGED <<log, reserve, commit, missed>>
  BY Zenon DEF CopyMessage, sharedVars
<1>1. /\ reader \in [Readers -> ReaderState] /\ reader[r] \in ReaderState
      /\ reader[r].start \in Nat /\ reader[r].pos \in Nat /\ commit \in Nat
      /\ reserve \in Nat /\ Size \in Nat /\ reader[r].seen \in Nat
      /\ Place(reader[r].pos) /\ reader[r].pos <= commit /\ reader[r].start <= reader[r].pos
      /\ Returned(r) \cup missed[r] = Span(reader[r].start, reader[r].pos)
  BY <1>0, ReadingTypes, Zenon
<1>2. PICK a, p, g : a = reader[r].start /\ p = reader[r].pos /\ g = got[r]
  BY Zenon
<1>3. /\ p < reader[r].seen /\ reader[r].seen <= commit /\ reserve <= p + Size
  BY <1>0, <1>2, Zenon DEF Follows, PlaceInv
<1>4. PICK m \in Messages : Reads(r, m)
  BY <1>0, Zenon DEF Follows, PlaceInv
<1>5. p = log[m].pos /\ reader[r].lens = <<HeaderCells + log[m].len, log[m].len>>
  BY <1>2, <1>4, Zenon DEF Reads
<1>6. /\ Start(m) \in Nat /\ log[m].pos \in Nat /\ log[m].end \in Nat /\ log[m].len \in Nat
      /\ Start(m) <= log[m].pos /\ log[m].pos < log[m].end
      /\ log[m].pos + HeaderCells + log[m].len = log[m].end
  BY Placed, Zenon
<1>7. log[m].end <= commit /\ Intact(m)
  <2>1. Start(m) < commit
    BY ONLY <1>1, <1>2, <1>3, <1>5, <1>6
  <2>2. log[m].end <= commit /\ ~Unwritten(m)
    BY <2>1, BelowCommit, Zenon
  <2> QED
    BY <1>3, <1>5, <2>2, Zenon DEF MemoryInv
<1>8. Copied(r) = m
  BY <1>4, <1>7, CopiedIs, Zenon
<1>9. PICK e : e = log[m].end
  BY Zenon
<1>10. reader'[r].pc = "idle" /\ reader'[r].pos = e /\ reader'[r].start = a
  <2>1. /\ reader'[r].pc = "idle" /\ reader'[r].start = a
        /\ reader'[r].pos = p + reader[r].lens[1]
    BY <1>1, <1>2, Zenon DEF CopyMessage, ReaderState
  <2>2. reader[r].lens[1] = HeaderCells + log[m].len
    BY ONLY <1>5
  <2> QED
    BY ONLY <1>5, <1>6, <1>9, <2>1, <2>2 DEF HeaderCells
<1>11. Place(e) /\ e <= commit /\ a <= e /\ p <= e /\ a <= p /\ a \in Nat /\ e \in Nat
  <2>1. Place(e)
    BY <1>9, Boundaries, Zenon
  <2>2. /\ a \in Nat /\ p \in Nat /\ a <= p /\ p = log[m].pos /\ e = log[m].end
        /\ log[m].end <= commit
    BY <1>1, <1>2, <1>5, <1>6, <1>7, <1>9, Zenon
  <2>3. log[m].pos < log[m].end /\ log[m].end \in Nat
    BY Placed, Zenon
  <2>4. p <= e /\ a <= e
    BY ONLY <2>2, <2>3
  <2> QED
    BY <2>1, <2>2, <2>3, <2>4, Zenon
<1>12. PlaceInv(r)'
  <2>1. PICK s : s = reader'[r].seen
    BY Zenon
  <2> QED
    BY <1>0, <1>10, <1>11, <2>1, PlaceAfter, Zenon
<1>13. /\ got'[r] = Append(g, m) /\ g \in Seq(Nat) /\ m \in Nat /\ m # 0
  BY <1>2, <1>8 DEF CopyMessage, TypeInv, Messages
<1>14. PICK h : h = got'[r]
  BY Zenon
<1>15. /\ Len(g) \in Nat /\ DOMAIN h = 1..(Len(g) + 1) /\ DOMAIN g = 1..Len(g)
       /\ \A i \in 1..Len(g) : h[i] = g[i]
       /\ h[Len(g) + 1] = m
  BY ONLY <1>13, <1>14
<1>16. Returned(r)' = Returned(r) \cup {m}
  <2>1. Returned(r)' = {h[i] : i \in DOMAIN h}
    BY <1>14, Zenon DEF Returned
  <2>2. Returned(r) = {g[i] : i \in DOMAIN g}
    BY <1>2, Zenon DEF Returned
  <2> QED
    BY ONLY <1>15, <2>1, <2>2
<1>17. Span(a, e) = Span(a, p) \cup {m}
  <2>1. Span(a, e) = Span(a, p) \cup Span(p, e)
    BY <1>1, <1>2, <1>11, SpanAdd
  <2>2. Span(p, e) = {m}
    BY <1>5, <1>9, SpanRest, Zenon
  <2> QED
    BY ONLY <2>1, <2>2, Zenon
<1>18. Returned(r)' \cup missed'[r] = Span(reader[r].start, reader[r].pos)'
  <2>1. Span(reader[r].start, reader[r].pos)' = Span(a, e)
    BY <1>0, <1>10, Zenon DEF Span, Messages
  <2> QED
    BY <1>0, <1>1, <1>2, <1>16, <1>17, <2>1, Zenon
<1>19. ASSUME NEW i \in 1..Len(g) PROVE g[i] \in Nat /\ g[i] # 0 /\ g[i] < m
  <2>1. PICK k : k = g[i]
    BY Zenon
  <2>2. k \in Returned(r)
    BY <1>2, <1>15, <2>1, Zenon DEF Returned
  <2>3. k \in Messages /\ log[k].end <= log[m].pos
    BY <1>1, <1>2, <1>5, <2>2, Zenon DEF Span
  <2>4. ~(m < k) /\ m # k
    <3>1. m < k => log[m].end <= Start(k)
      BY <2>3, Zenon DEF LogInv
    <3>2. /\ Start(k) \in Nat /\ log[k].pos \in Nat /\ log[k].end \in Nat
          /\ Start(k) <= log[k].pos /\ log[k].pos < log[k].end
      BY <2>3, Placed, Zenon
    <3>3. PICK k0, k1, k2, m1, m2 : /\ k0 = Start(k) /\ k1 = log[k].pos /\ k2 = log[k].end
                                    /\ m1 = log[m].pos /\ m2 = log[m].end
      BY Zenon
    <3>4. /\ k0 \in Nat /\ k1 \in Nat /\ k2 \in Nat /\ m1 \in Nat /\ m2 \in Nat
          /\ k0 <= k1 /\ k1 < k2 /\ m1 < m2 /\ k2 <= m1 /\ (m < k => m2 <= k0)
      BY <2>3, <3>1, <3>2, <3>3, Placed, Zenon
    <3>5. ~(m < k) /\ k2 # m2
      BY ONLY <3>4
    <3> QED
      BY <3>3, <3>5, Zenon
  <2>5. k \in Nat /\ k # 0 /\ k < m
    BY ONLY <1>13, <2>3, <2>4 DEF Messages
  <2> QED
    BY ONLY <2>1, <2>5, Zenon
<1>20. \A i \in DOMAIN h : h[i] # 0
  BY ONLY <1>13, <1>15, <1>19
<1>21. ASSUME NEW i \in DOMAIN h, NEW j \in DOMAIN h, i < j PROVE h[i] < h[j]
  <2>1. i \in 1..Len(g)
    BY ONLY <1>15, <1>21
  <2>2. CASE j = Len(g) + 1
    BY ONLY <1>15, <1>19, <2>1, <2>2, Zenon
  <2>3. CASE j # Len(g) + 1
    <3>1. j \in 1..Len(g)
      BY ONLY <1>15, <2>3
    <3>2. g[i] < g[j]
      BY <1>2, <1>15, <1>21, <2>1, <3>1, Zenon DEF Follows
    <3> QED
      BY ONLY <1>15, <2>1, <3>1, <3>2, Zenon
  <2> QED
    BY ONLY <2>2, <2>3, Zenon
<1> QED
  BY <1>12, <1>14, <1>18, <1>20, <1>21, Zenon DEF Follows

\* Commits only move forward.
LEMMA CommitGrows ==
    ASSUME TypeInv, WriterInv, OrderInv, NEW w \in Writers,
           WriterStep(w) \/ Crash(w) \/ \E n \in Lengths : BeginWrite(w, n)
    PROVE  commit \in Nat /\ commit' \in Nat /\ commit <= commit'
<1>0. commit \in Nat
  BY Zenon DEF TypeInv
<1>1. CASE Commit(w)
  <2>1. commit' = MessageAt(w) + TotalSize(w) /\ commit = writer[w].seen
    BY <1>1, Zenon DEF Commit, OrderInv
  <2>2. writer[w].seen \in Nat /\ writer[w].pad \in Nat /\ writer[w].len \in Nat
    BY Zenon DEF TypeInv, WriterState
  <2>3. PICK s, q, l : s = writer[w].seen /\ q = writer[w].pad /\ l = writer[w].len
    BY Zenon
  <2>4. commit' = (s + q) + (2 + l) /\ s \in Nat /\ q \in Nat /\ l \in Nat /\ commit = s
    BY <2>1, <2>2, <2>3, Zenon DEF MessageAt, TotalSize, HeaderCells
  <2> QED
    BY ONLY <2>4
<1>2. CASE ~Commit(w)
  <2>1. UNCHANGED commit
    BY <1>2, Zenon DEF WriterStep, Crash, BeginWrite, Reserve, RetryReserve, WriteMarker,
           TakeSequence, WriteMessage, AwaitTurn, CommitTimeout, sharedVars
  <2> QED
    BY ONLY <1>0, <2>1
<1> QED
  BY ONLY <1>1, <1>2, Zenon

\* Writers do not touch readers.
LEMMA WriterLeavesReaders ==
    ASSUME NEW w \in Writers,
           WriterStep(w) \/ Crash(w) \/ \E n \in Lengths : BeginWrite(w, n)
    PROVE  UNCHANGED <<reader, got, missed>> /\ lapped \subseteq lapped'
  BY Zenon DEF WriterStep, Crash, BeginWrite, Reserve, RetryReserve, WriteMarker, TakeSequence,
         WriteMessage, AwaitTurn, CommitTimeout, Commit, ghostVars

\* A reservation leaves the places where they are.
LEMMA ReserveKeepsPlaces ==
    ASSUME TypeInv, LogInv, WriterInv, NEW w \in Writers, Reserve(w), NEW p, NEW a
    PROVE  /\ Place(p) => Place(p)'
           /\ Boundary(p) => Boundary(p)'
           /\ p \in Nat /\ p <= reserve => Span(a, p)' = Span(a, p)
           /\ \A m \in Messages : m \in Messages' /\ log'[m] = log[m] /\ Rest(m)' = Rest(m)
<1>1. PICK n : n = Len(log) + 1
  BY Zenon
<1>2. /\ n \in Nat /\ Messages' = 1..n /\ Len(log') = n
      /\ \A m \in Messages : log'[m] = log[m]
      /\ \A m \in 1..n : Start(m)' = Start(m)
      /\ reserve' = log'[n].end
  BY <1>1, ReserveAppends, Zenon
<1>3. Messages = 1..(n - 1) /\ n >= 1
  BY ONLY <1>1, LogTypes DEF Messages
<1>4. Boundary(p) => Boundary(p)'
  <2> SUFFICES ASSUME NEW k \in 1..n, p = Start(k) PROVE Boundary(p)'
    BY <1>1, Zenon DEF Boundary
  <2>1. k \in 1..(Len(log') + 1) /\ p = Start(k)'
    BY <1>2
  <2> QED
    BY <2>1, Zenon DEF Boundary
<1>5. ASSUME NEW m \in Messages PROVE m \in Messages' /\ log'[m] = log[m] /\ Rest(m)' = Rest(m)
  BY ONLY <1>2, <1>3 DEF Rest
<1>6. Place(p) => Place(p)'
  BY <1>4, <1>5, Zenon DEF Place
<1>7. ASSUME p \in Nat, p <= reserve PROVE Span(a, p)' = Span(a, p)
  <2>1. reserve < reserve'
    <3>1. reserve' = writer[w].seen + Padding(w) + TotalSize(w) /\ writer[w].seen = reserve
          /\ Padding(w) \in Nat
      BY <1>1, ReserveAppends, Zenon DEF Reserve
    <3>2. PICK l, q : l = writer[w].len /\ q = Padding(w)
      BY Zenon
    <3>3. l \in Nat /\ q \in Nat /\ reserve \in Nat /\ reserve' = reserve + q + (2 + l)
      BY <3>1, <3>2, Zenon DEF TotalSize, HeaderCells, TypeInv, WriterState
    <3> QED
      BY ONLY <3>3
  <2>2. reserve \in Nat /\ reserve' \in Nat
    <3>1. TypeInv'
      BY WriterTypes, Zenon DEF WriterStep
    <3> QED
      BY <3>1, Zenon DEF TypeInv
  <2>3. ~(log'[n].end <= p)
    BY ONLY <1>2, <1>7, <2>1, <2>2
  <2>4. ASSUME NEW m \in Messages', m # n PROVE m \in Messages
    BY ONLY <1>2, <1>3, <2>4
  <2> QED
    BY <1>5, <2>3, <2>4, Zenon DEF Span
<1> QED
  BY <1>4, <1>5, <1>6, <1>7, Zenon

\* A reader that is not overtaken is where it was, whatever a writer does.
LEMMA WriterLetsFollow ==
    ASSUME TypeInv, LogInv, WriterInv, OrderInv, NEW w \in Writers, NEW r \in Readers,
           WriterStep(w) \/ Crash(w) \/ \E n \in Lengths : BeginWrite(w, n),
           r \notin lapped', Follows(r)
    PROVE  Follows(r)'
<1>0. /\ UNCHANGED <<reader, got, missed>> /\ commit \in Nat /\ commit' \in Nat
      /\ commit <= commit' /\ commit <= reserve /\ reserve \in Nat
  BY CommitGrows, WriterLeavesReaders, Zenon DEF OrderInv, TypeInv
<1>1. PICK a, p, s : a = reader[r].start /\ p = reader[r].pos /\ s = reader[r].seen
  BY Zenon
<1>2. a \in Nat /\ p \in Nat /\ s \in Nat
  BY <1>1, Zenon DEF TypeInv, ReaderState
<1>3. a = reader'[r].start /\ p = reader'[r].pos /\ s = reader'[r].seen
  BY ONLY <1>0, <1>1, Zenon
<1>4. /\ Place(p) => Place(p)'
      /\ Boundary(s) => Boundary(s)'
      /\ p <= reserve => Span(a, p)' = Span(a, p)
      /\ \A m \in Messages : m \in Messages' /\ log'[m] = log[m]
  <2>1. CASE Reserve(w)
    BY <1>2, <2>1, ReserveKeepsPlaces, Zenon
  <2>2. CASE ~Reserve(w)
    <3>1. UNCHANGED log
      BY <2>2, StepContinues, Zenon
    <3> QED
      BY <3>1, PlaceStays, Zenon
  <2> QED
    BY <2>1, <2>2, Zenon
<1>5. ASSUME reader[r].pc \in {"header", "copy"}, reserve <= p + Size PROVE reserve' <= p + Size
  <2>1. CASE Reserve(w)
    <3>1. reserve' = writer[w].seen + Padding(w) + TotalSize(w)
          /\ ~(reserve' > reader[r].pos + Size)
      BY <1>5, <2>1, Zenon DEF Reserve
    <3>2. reserve' \in Nat /\ Size \in Nat
      <4>1. TypeInv'
        BY WriterTypes, Zenon
      <4> QED
        BY <4>1, RingAssumption, Zenon DEF TypeInv
    <3> QED
      BY ONLY <1>1, <1>2, <3>1, <3>2
  <2>2. CASE ~Reserve(w)
    BY <1>5, <2>2, StepContinues, Zenon
  <2> QED
    BY ONLY <2>1, <2>2, Zenon
<1>6. PlaceInv(r)
  BY Zenon DEF Follows
<1>7. PlaceInv(r)'
  <2>1. reader'[r].pc # "none" =>
          Place(reader[r].pos)' /\ reader'[r].pos <= commit' /\ reader'[r].start <= reader'[r].pos
    <3> SUFFICES ASSUME reader[r].pc # "none"
                 PROVE  Place(reader[r].pos)' /\ p <= commit' /\ a <= p
      BY <1>0, <1>3, Zenon
    <3>1. Place(p) /\ p <= commit /\ a <= p
      BY <1>1, <1>6, Zenon DEF PlaceInv
    <3>2. Place(reader[r].pos)'
      BY <1>3, <1>4, <3>1, Zenon DEF Place, Boundary
    <3> QED
      BY ONLY <1>0, <1>2, <3>1, <3>2
  <2>2. reader'[r].pc \in {"distance", "header", "copy"} =>
          Boundary(reader[r].seen)' /\ reader'[r].pos < reader'[r].seen /\ reader'[r].seen <= commit'
    <3> SUFFICES ASSUME reader[r].pc \in {"distance", "header", "copy"}
                 PROVE  Boundary(reader[r].seen)' /\ p < s /\ s <= commit'
      BY <1>0, <1>3, Zenon
    <3>1. Boundary(s) /\ p < s /\ s <= commit
      BY <1>1, <1>6, Zenon DEF PlaceInv
    <3>2. Boundary(reader[r].seen)'
      BY <1>3, <1>4, <3>1, Zenon DEF Boundary
    <3> QED
      BY ONLY <1>0, <1>2, <3>1, <3>2
  <2>3. reader'[r].pc \in {"header", "copy"} => reserve' <= reader'[r].pos + Size
    BY <1>0, <1>1, <1>3, <1>5, <1>6, Zenon DEF PlaceInv
  <2>4. reader'[r].pc = "copy" => \E m \in Messages' : Reads(r, m)'
    <3> SUFFICES ASSUME reader[r].pc = "copy" PROVE \E m \in Messages' : Reads(r, m)'
      BY <1>0, Zenon
    <3>1. PICK m \in Messages : Reads(r, m)
      BY <1>6, Zenon DEF PlaceInv
    <3>2. m \in Messages' /\ Reads(r, m)'
      BY <1>0, <1>4, <3>1, Zenon DEF Reads, HeaderCells
    <3> QED
      BY <3>2, Zenon
  <2>5. reader'[r].pc = "none" => got'[r] = <<>> /\ missed'[r] = {}
    BY <1>0, <1>6, Zenon DEF PlaceInv
  <2> QED
    BY <2>1, <2>2, <2>3, <2>4, <2>5, Zenon DEF PlaceInv
<1>8. reader'[r].pc # "none" =>
        Returned(r)' \cup missed'[r] = Span(reader[r].start, reader[r].pos)'
  <2> SUFFICES ASSUME reader[r].pc # "none"
               PROVE  Returned(r)' \cup missed'[r] = Span(reader[r].start, reader[r].pos)'
    BY <1>0, Zenon
  <2>1. Returned(r) \cup missed[r] = Span(a, p) /\ p <= commit
    BY <1>1, <1>6, Zenon DEF Follows, PlaceInv
  <2>2. Span(a, p)' = Span(a, p)
    BY ONLY <1>0, <1>2, <1>4, <2>1
  <2>3. Span(reader[r].start, reader[r].pos)' = Span(a, p)'
    BY <1>3, Zenon DEF Span
  <2>4. Returned(r)' = Returned(r)
    BY <1>0, Zenon DEF Returned
  <2> QED
    BY <1>0, <2>1, <2>2, <2>3, <2>4, Zenon
<1> QED
  BY <1>0, <1>7, <1>8, Zenon DEF Follows

\* A reader's step does not concern the other readers.
LEMMA ReaderLetsFollow ==
    ASSUME TypeInv, NEW q \in Readers, ReaderStep(q) \/ NewReader(q),
           NEW r \in Readers, r # q, Follows(r)
    PROVE  Follows(r)'
<1>1. /\ UNCHANGED <<log, reserve, commit>> /\ reader'[r] = reader[r] /\ got'[r] = got[r]
      /\ missed'[r] = missed[r]
  <2>0. /\ reader \in [Readers -> ReaderState] /\ got \in [Readers -> Seq(Nat)]
        /\ missed \in [Readers -> SUBSET Nat]
    BY Zenon DEF TypeInv
  <2>1. UNCHANGED <<log, reserve, commit>>
    BY ReaderLeavesRing, Zenon DEF sharedVars
  <2>2. CASE NewReader(q)
    BY <2>0, <2>1, <2>2, Zenon DEF NewReader, ghostVars
  <2>3. CASE LoadCommit(q)
    BY <2>0, <2>1, <2>3, Zenon DEF LoadCommit, ghostVars
  <2>4. CASE CheckDistance(q)
    BY <2>0, <2>1, <2>4, Zenon DEF CheckDistance
  <2>5. CASE ReadHeader(q)
    BY <2>0, <2>1, <2>5, Zenon DEF ReadHeader, ghostVars
  <2>6. CASE CopyMessage(q)
    BY <2>0, <2>1, <2>6, Zenon DEF CopyMessage
  <2> QED
    BY <2>2, <2>3, <2>4, <2>5, <2>6, Zenon DEF ReaderStep
<1>2. PlaceInv(r)'
  BY <1>1, Zenon DEF Follows, PlaceInv, Place, Boundary, Start, Messages, Reads, HeaderCells
<1>3. Span(reader[r].start, reader[r].pos)' = Span(reader[r].start, reader[r].pos)
  BY <1>1, Zenon DEF Span, Messages
<1>4. Returned(r)' = Returned(r)
  BY <1>1, Zenon DEF Returned
<1> QED
  BY <1>1, <1>2, <1>3, <1>4, Zenon DEF Follows

\* Rests that fit did so before.
LEMMA RestsFitted ==
    ASSUME TypeInv, LogInv, WriterInv, NEW w \in Writers,
           WriterStep(w) \/ Crash(w) \/ (\E n \in Lengths : BeginWrite(w, n)), RestsFit'
    PROVE  RestsFit
<1>1. CASE Reserve(w)
  <2>1. \A m \in Messages : m \in Messages' /\ Rest(m)' = Rest(m)
    BY <1>1, ReserveKeepsPlaces, Zenon
  <2> QED
    BY <2>1, Zenon DEF RestsFit
<1>2. CASE ~Reserve(w)
  BY <1>2, StepContinues, Zenon DEF RestsFit, Messages, Rest, Start
<1> QED
  BY ONLY <1>1, <1>2, Zenon

\* Every step keeps what holds of the readers.
LEMMA NextKeepsReaders == RingInv /\ ReaderInv /\ [Next]_vars => ReaderInv'
<1> SUFFICES ASSUME RingInv, ReaderInv, [Next]_vars, RestsFit', NEW r \in Readers, Trusted(r)'
             PROVE  Follows(r)'
  BY Zenon DEF ReaderInv
<1>0. TypeInv /\ LogInv /\ WriterInv /\ (broken = {} => OrderInv /\ MemoryInv)
  BY Zenon DEF RingInv
<1>1. ASSUME NEW w \in Writers,
             WriterStep(w) \/ Crash(w) \/ \E n \in Lengths : BeginWrite(w, n)
      PROVE  Follows(r)'
  <2>1. broken = {} /\ r \notin lapped' /\ Trusted(r)
    BY <1>1, BrokenStays, WriterLeavesReaders, Zenon DEF Trusted
  <2>2. RestsFit
    BY <1>0, <1>1, RestsFitted, Zenon
  <2>3. Follows(r)
    BY <2>1, <2>2, Zenon DEF ReaderInv
  <2> QED
    BY ONLY <1>0, <1>1, <2>1, <2>3, WriterLetsFollow, Zenon
<1>2. ASSUME NEW q \in Readers, ReaderStep(q) \/ NewReader(q) PROVE Follows(r)'
  <2>1. UNCHANGED <<log, lapped, broken>>
    BY ONLY <1>2, ReaderLeavesRing, Zenon
  <2>2. RestsFit /\ Trusted(r) /\ broken = {}
    BY <2>1, Zenon DEF RestsFit, Trusted, Messages, Rest, Start
  <2>3. Follows(r) /\ OrderInv /\ MemoryInv
    BY <1>0, <2>2, Zenon DEF ReaderInv
  <2>4. CASE r # q
    BY ONLY <1>0, <1>2, <2>3, <2>4, ReaderLetsFollow, Zenon
  <2>5. CASE r = q
    <3>1. CASE NewReader(r)
      BY ONLY <1>0, <2>3, <3>1, NewReaderFollows, Zenon
    <3>2. CASE LoadCommit(r)
      BY ONLY <1>0, <2>3, <3>2, LoadCommitFollows, Zenon
    <3>3. CASE CheckDistance(r)
      BY ONLY <1>0, <2>3, <3>3, CheckDistanceFollows, Zenon
    <3>4. CASE ReadHeader(r)
      BY ONLY <1>0, <2>2, <2>3, <3>4, ReadHeaderFollows, Zenon
    <3>5. CASE CopyMessage(r)
      BY ONLY <1>0, <2>3, <3>5, CopyMessageFollows, Zenon
    <3> QED
      BY <1>2, <2>5, <3>1, <3>2, <3>3, <3>4, <3>5, Zenon DEF ReaderStep
  <2> QED
    BY ONLY <2>4, <2>5, Zenon
<1>3. CASE UNCHANGED vars
  <2>1. UNCHANGED <<log, reserve, commit, reader, got, missed, lapped, broken>>
    BY <1>3, Zenon DEF vars, sharedVars, ghostVars
  <2>2. RestsFit /\ Trusted(r)
    BY <2>1, Zenon DEF RestsFit, Trusted, Messages, Rest, Start
  <2>3. Follows(r)
    BY <2>2, Zenon DEF ReaderInv
  <2>4. PlaceInv(r)'
    BY <2>1, <2>3, Zenon DEF Follows, PlaceInv, Place, Boundary, Start, Messages, Reads, HeaderCells
  <2>5. Span(reader[r].start, reader[r].pos)' = Span(reader[r].start, reader[r].pos)
        /\ Returned(r)' = Returned(r)
    BY <2>1, Zenon DEF Span, Messages, Returned
  <2> QED
    BY <2>1, <2>3, <2>4, <2>5, Zenon DEF Follows
<1> QED
  BY <1>1, <1>2, <1>3, Zenon DEF Next

LEMMA InitReaders == Init => ReaderInv
<1> SUFFICES ASSUME Init, NEW r \in Readers PROVE Follows(r)
  BY Zenon DEF ReaderInv
<1>1. reader[r] = NoReader /\ got[r] = <<>> /\ missed[r] = {}
  BY Zenon DEF Init
<1>2. reader[r].pc = "none"
  BY <1>1, Zenon DEF NoReader, IdleReader
<1> QED
  BY ONLY <1>1, <1>2 DEF Follows, PlaceInv

\* What holds of the ring and its readers holds in every reachable state.
LEMMA ReaderInvariance == Spec => [](RingInv /\ ReaderInv)
  BY InitRing, InitReaders, NextKeepsRing, NextKeepsReaders, PTL DEF Spec

\* What the readers return, from the invariant.
LEMMA FollowersRead == ReaderInv /\ RestsFit => IntactReads /\ NothingMissed
<1> SUFFICES ASSUME ReaderInv, RestsFit PROVE IntactReads /\ NothingMissed
  BY Zenon
<1>1. \A r \in Readers : Trusted(r) => Follows(r)
  BY Zenon DEF ReaderInv
<1>2. IntactReads
  BY <1>1, Zenon DEF IntactReads, Follows
<1>3. NothingMissed
  BY <1>1, Zenon DEF NothingMissed, Follows, Returned, Span, Messages
<1> QED
  BY ONLY <1>2, <1>3, Zenon

\* As long as what is left of the ring before each message could take the header of a
\* wrap marker, a reader that is not overtaken returns whole messages in the order of
\* the reservations, none twice, and misses none that it did not skip knowingly. This
\* is for messages of every length.
THEOREM ReadsWhileRestsFit == Spec => [](RestsFit => IntactReads /\ NothingMissed)
<1>1. RingInv /\ ReaderInv => (RestsFit => IntactReads /\ NothingMissed)
  BY ONLY FollowersRead, Zenon
<1> QED
  BY <1>1, ReaderInvariance, PTL

=============================================================================
