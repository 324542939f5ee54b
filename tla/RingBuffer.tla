------------------------------ MODULE RingBuffer ------------------------------
(***************************************************************************)
(* The ring buffer of the shared memory transport (ring_buffer.rs): any     *)
(* number of writers in any number of processes reserve space with a        *)
(* compare-and-swap, copy a message into it and commit it in the order of   *)
(* the reservations; each reader follows with a position of its own.        *)
(*                                                                          *)
(* Memory is counted in cells of eight bytes, the alignment of messages, so *)
(* that align_up is the identity on the sizes used here. A cell holds a     *)
(* pair of lengths or a sequence number (the two cells of a MessageHeader)  *)
(* or a piece of a message.                                                 *)
(***************************************************************************)
EXTENDS Naturals, Sequences, FiniteSets

CONSTANTS
    Writers,      \* threads that hold a RingBufferWriter, in any process
    Readers,      \* listeners that hold a RingBufferReader
    Size,         \* buffer_size
    Lengths,      \* sizes of messages
    MaxMessage,   \* max_message_size, also the size of a listener's buffer
    MaxRetries,   \* MAX_CAS_RETRIES
    MaxWrites     \* bound on the number of reservations

ASSUME RingAssumption ==
    /\ Size \in Nat \ {0} /\ MaxMessage \in Nat \ {0}
    /\ MaxRetries \in Nat \ {0} /\ MaxWrites \in Nat
    /\ Lengths \subseteq Nat \ {0}

VARIABLES
    reserve,      \* reserve_pos
    commit,       \* commit_pos
    sequence,     \* the global sequence counter
    cell,         \* the data area
    writer,       \* what each writer is about
    reader,       \* each RingBufferReader and what it is about
    log,          \* history: the reservations, in order
    got,          \* history: the messages each reader returned
    missed,       \* history: the messages each reader skipped knowingly
    lapped,       \* history: readers overtaken between check and copy
    broken        \* history: "timeout", a writer committed out of turn;
                  \* "overrun", one reserved space of an uncommitted message

sharedVars == <<reserve, commit, sequence, cell>>
ghostVars  == <<got, missed, lapped, broken>>
vars == <<sharedVars, writer, reader, log, ghostVars>>

----------------------------------------------------------------------------
(* Memory *)

HeaderCells == 2

Zero          == [kind |-> "zero"]
Lens(t, d)    == [kind |-> "lens", total |-> t, data |-> d]
Seqn(n)       == [kind |-> "seq", n |-> n]
Piece(m, i)   == [kind |-> "piece", msg |-> m, i |-> i]

\* The cells of message m: its header, then its data.
Contents(m, len, seq) ==
    <<Lens(HeaderCells + len, len), Seqn(seq)>> \o [i \in 1..len |-> Piece(m, i)]

Offset(pos) == pos % Size

\* Copying values into the data area from an offset on.
Stored(off, values) ==
    [c \in DOMAIN cell |-> IF c \in off..(off + Len(values) - 1) THEN values[c - off + 1]
                                                                 ELSE cell[c]]

\* What a reader makes of a cell that should hold the lengths of a header:
\* anything, if the cell holds something else.
LengthsAt(c) ==
    CASE c.kind = "lens"  -> {<<c.total, c.data>>}
      [] c.kind = "zero"  -> {<<0, 0>>}
      [] OTHER            -> (0..(Size + 1)) \X (0..(MaxMessage + 1))

\* What a reader makes of the cell behind it; outside the data area there is nothing.
SequenceAt(off) ==
    IF off \in DOMAIN cell /\ cell[off].kind = "seq" THEN cell[off].n ELSE 0

Monus(a, b) == IF a < b THEN 0 ELSE a - b

----------------------------------------------------------------------------
(* Writers *)

IdleWriter == [pc |-> "idle", len |-> 0, seen |-> 0, pad |-> 0, retries |-> 0,
               seq |-> 0, msg |-> 0]

TotalSize(w) == HeaderCells + writer[w].len

\* Where the message of a writer begins, behind the padding at the end of the ring.
MessageAt(w) == writer[w].seen + writer[w].pad

Steps(w, from, to) ==
    /\ writer[w].pc = from
    /\ writer' = [writer EXCEPT ![w].pc = to]

\* write: a message that fits, and the first load of reserve_pos.
BeginWrite(w, n) ==
    /\ writer[w].pc = "idle"
    /\ Len(log) + Cardinality({v \in Writers : writer[v].pc = "reserve"}) < MaxWrites
    /\ n <= MaxMessage /\ HeaderCells + n <= Size
    /\ writer' = [writer EXCEPT ![w] = [IdleWriter EXCEPT !.pc = "reserve", !.len = n,
                                                          !.seen = reserve]]
    /\ UNCHANGED <<sharedVars, reader, log, ghostVars>>

\* Only the data has to fit, not its header.
PaddingForData(w) ==
    LET remaining == Size - Offset(writer[w].seen)
    IN  IF writer[w].len > remaining THEN remaining ELSE 0

\* What remains of the ring, if the message does not fit before its end.
Padding(w) ==
    LET remaining == Size - Offset(writer[w].seen)
    IN  IF TotalSize(w) > remaining THEN remaining ELSE 0

\* The compare-and-swap succeeds: space for padding and message.
Reserve(w) ==
    LET pad == Padding(w)
        end == writer[w].seen + pad + TotalSize(w)
    IN  /\ writer[w].pc = "reserve" /\ reserve = writer[w].seen
        /\ reserve' = end
        /\ log' = Append(log, [pos |-> writer[w].seen + pad, len |-> writer[w].len, end |-> end])
        /\ writer' = [writer EXCEPT ![w] = [@ EXCEPT !.pc = "marker", !.pad = pad,
                                                     !.msg = Len(log) + 1]]
        /\ lapped' = lapped \cup {r \in Readers : /\ reader[r].pc \in {"header", "copy"}
                                                  /\ end > reader[r].pos + Size}
        /\ broken' = broken \cup {b \in {"overrun"} : end > commit + Size}
        /\ UNCHANGED <<commit, sequence, cell, reader, got, missed>>

\* It fails: try again from the new position, or give up with BufferFull.
RetryReserve(w) ==
    /\ writer[w].pc = "reserve" /\ reserve # writer[w].seen
    /\ writer' = IF writer[w].retries + 1 >= MaxRetries
                 THEN [writer EXCEPT ![w] = IdleWriter]
                 ELSE [writer EXCEPT ![w] = [@ EXCEPT !.retries = writer[w].retries + 1,
                                                    !.seen = reserve]]
    /\ UNCHANGED <<sharedVars, reader, log, ghostVars>>

\* The wrap marker, if there is room for its header.
WriteMarker(w) ==
    /\ Steps(w, "marker", "sequence")
    /\ cell' = IF writer[w].pad >= HeaderCells
               THEN Stored(Offset(writer[w].seen), <<Lens(writer[w].pad, 0), Seqn(0)>>)
               ELSE cell
    /\ UNCHANGED <<reserve, commit, sequence, reader, log, ghostVars>>

TakeSequence(w) ==
    /\ writer[w].pc = "sequence"
    /\ writer' = [writer EXCEPT ![w] = [@ EXCEPT !.pc = "message", !.seq = sequence]]
    /\ sequence' = sequence + 1
    /\ UNCHANGED <<reserve, commit, cell, reader, log, ghostVars>>

\* Header and data. Copying them takes a while; a reader that looks at the same
\* time was overtaken, or reads what is not committed.
WriteMessage(w) ==
    /\ Steps(w, "message", "await")
    /\ cell' = Stored(Offset(MessageAt(w)), Contents(writer[w].msg, writer[w].len, writer[w].seq))
    /\ UNCHANGED <<reserve, commit, sequence, reader, log, ghostVars>>

\* Nobody waits for earlier writers.
AnyTurn(w) == TRUE

\* All earlier reservations are committed.
MyTurn(w) == commit = writer[w].seen

AwaitTurn(w) ==
    /\ MyTurn(w)
    /\ Steps(w, "await", "commit")
    /\ UNCHANGED <<sharedVars, reader, log, ghostVars>>

\* Give up only behind a commit position that has gone past.
CommitTimeoutBehind(w) ==
    /\ commit > writer[w].seen
    /\ Steps(w, "await", "commit")
    /\ broken' = broken \cup {"timeout"}
    /\ UNCHANGED <<sharedVars, reader, log, got, missed, lapped>>

\* MAX_COMMIT_SPIN looks at commit_pos did not find it: commit all the same.
CommitTimeout(w) ==
    /\ ~MyTurn(w)
    /\ Steps(w, "await", "commit")
    /\ broken' = broken \cup {"timeout"}
    /\ UNCHANGED <<sharedVars, reader, log, got, missed, lapped>>

Commit(w) ==
    /\ writer[w].pc = "commit"
    /\ commit' = MessageAt(w) + TotalSize(w)
    /\ writer' = [writer EXCEPT ![w] = IdleWriter]
    /\ UNCHANGED <<reserve, sequence, cell, reader, log, ghostVars>>

\* The process of a writer ends within write.
Crash(w) ==
    /\ writer[w].pc \notin {"idle", "dead"}
    /\ writer' = [writer EXCEPT ![w].pc = "dead"]
    /\ UNCHANGED <<sharedVars, reader, log, ghostVars>>

----------------------------------------------------------------------------
(* Readers *)

IdleReader(pos) == [pc |-> "idle", start |-> pos, pos |-> pos, seen |-> 0, lens |-> <<0, 0>>,
                    seq |-> 0, last |-> 0, lost |-> 0]
NoReader == [IdleReader(0) EXCEPT !.pc = "none"]

\* new: a reader starts at the commit position.
NewReader(r) ==
    /\ reader[r].pc = "none"
    /\ reader' = [reader EXCEPT ![r] = IdleReader(commit)]
    /\ UNCHANGED <<sharedVars, writer, log, ghostVars>>

\* What holds of the messages a reader returns is claimed as long as no commit timed
\* out, no writer ran into uncommitted messages, and no writer overtook the reader
\* between the check of the distance and the copy. A reader touches nothing that is
\* shared, so that a reader beyond that point is not followed any further.
Trusted(r) == broken = {} /\ r \notin lapped

\* read: something is committed that this reader has not seen.
LoadCommit(r) ==
    /\ reader[r].pc = "idle" /\ commit # reader[r].pos
    /\ Trusted(r)
    /\ reader' = [reader EXCEPT ![r] = [@ EXCEPT !.pc = "distance", !.seen = commit]]
    /\ UNCHANGED <<sharedVars, writer, log, ghostVars>>

\* The distance to what is committed rather than to what is reserved.
TooFarBehindCommit(r) == Monus(commit, reader[r].pos) > Size

TooFarBehind(r) == Monus(reserve, reader[r].pos) > Size

\* The messages between the position of a reader and the commit position it loaded.
Between(r) == {m \in 1..Len(log) : reader[r].pos <= log[m].pos /\ log[m].pos < reader[r].seen}

\* The distance to the writers: go on to the header, or skip what was overwritten
\* and begin again.
CheckDistance(r) ==
    /\ reader[r].pc = "distance"
    /\ IF TooFarBehind(r)
         THEN /\ reader' = [reader EXCEPT ![r] = [@ EXCEPT !.pc = "idle",
                                                             !.pos = reader[r].seen]]
              /\ missed' = [missed EXCEPT ![r] = @ \cup Between(r)]
         ELSE /\ reader' = [reader EXCEPT ![r].pc = "header"]
              /\ missed' = missed
    /\ UNCHANGED <<sharedVars, writer, log, got, lapped, broken>>

\* A wrap marker is skipped as far as its header goes.
AfterHeaderOnly(r, total, data) ==
    IF total = 0 \/ total > Size THEN reader[r].seen ELSE reader[r].pos + HeaderCells

\* The position of a reader after the lengths <<total, data>>: behind a corrupted
\* header at the commit position, behind a wrap marker or an invalid message at
\* its end, and unchanged before a message that the listener's buffer cannot take.
AfterHeader(r, total, data) ==
    CASE total = 0 \/ total > Size               -> reader[r].seen
      [] data = 0                                -> reader[r].pos + total
      [] data > Monus(total, HeaderCells)        -> reader[r].pos + total
      [] OTHER                                   -> reader[r].pos

Readable(total, data) ==
    /\ total \in 1..Size
    /\ data \in 1..Monus(total, HeaderCells)
    /\ data <= MaxMessage

ReadHeader(r) ==
    /\ reader[r].pc = "header"
    /\ \E l \in LengthsAt(cell[Offset(reader[r].pos)]) :
         reader' = IF Readable(l[1], l[2])
                   THEN [reader EXCEPT ![r] =
                           [@ EXCEPT !.pc = "copy", !.lens = l,
                                     !.seq = SequenceAt(Offset(reader[r].pos) + 1)]]
                   ELSE [reader EXCEPT ![r] =
                           [@ EXCEPT !.pc = "idle", !.pos = AfterHeader(r, l[1], l[2])]]
    /\ UNCHANGED <<sharedVars, writer, log, ghostVars>>

\* The message whose pieces are copied, 0 if they are not those of one message.
Copied(r) ==
    LET from == Offset(reader[r].pos) + HeaderCells
        len  == reader[r].lens[2]
        Whole(m) == /\ log[m].len = len
                    /\ \A i \in 1..len : /\ from + i - 1 \in DOMAIN cell
                                         /\ cell[from + i - 1] = Piece(m, i)
    IN  IF \E m \in 1..Len(log) : Whole(m) THEN CHOOSE m \in 1..Len(log) : Whole(m) ELSE 0

\* The gap in the sequence before the message copied counts as loss, except behind
\* a last sequence of 0.
LostBefore(r) == IF reader[r].last = 0 THEN 0 ELSE Monus(reader[r].seq, reader[r].last + 1)

\* The message is copied and handed out.
CopyMessage(r) ==
    /\ reader[r].pc = "copy"
    /\ got' = [got EXCEPT ![r] = Append(@, Copied(r))]
    /\ reader' = [reader EXCEPT ![r] =
          [@ EXCEPT !.pc = "idle", !.pos = reader[r].pos + reader[r].lens[1],
                    !.last = reader[r].seq, !.lost = reader[r].lost + LostBefore(r)]]
    /\ UNCHANGED <<sharedVars, writer, log, missed, lapped, broken>>

----------------------------------------------------------------------------

Init ==
    /\ reserve = 0 /\ commit = 0 /\ sequence = 0
    /\ cell = [c \in 0..(Size - 1) |-> Zero]
    /\ writer = [w \in Writers |-> IdleWriter]
    /\ reader = [r \in Readers |-> NoReader]
    /\ log = <<>>
    /\ got = [r \in Readers |-> <<>>]
    /\ missed = [r \in Readers |-> {}]
    /\ lapped = {} /\ broken = {}

WriterStep(w) ==
    \/ Reserve(w) \/ RetryReserve(w) \/ WriteMarker(w) \/ TakeSequence(w)
    \/ WriteMessage(w) \/ AwaitTurn(w) \/ CommitTimeout(w) \/ Commit(w)

ReaderStep(r) == LoadCommit(r) \/ CheckDistance(r) \/ ReadHeader(r) \/ CopyMessage(r)

Next ==
    \/ \E w \in Writers : WriterStep(w) \/ Crash(w) \/ \E n \in Lengths : BeginWrite(w, n)
    \/ \E r \in Readers : ReaderStep(r) \/ NewReader(r)

Spec == Init /\ [][Next]_vars

\* Threads go on once they have begun; a process may still end.
FairSpec == Spec /\ \A w \in Writers : WF_vars(WriterStep(w))

----------------------------------------------------------------------------
(* Properties *)

\* Every variable has its type, and no message runs over the end of the ring.
TypeOK ==
    /\ reserve \in Nat /\ commit \in Nat /\ sequence \in Nat
    /\ DOMAIN cell = 0..(Size - 1)
    /\ \A w \in Writers : writer[w].pc \in {"idle", "reserve", "marker", "sequence",
                                             "message", "await", "commit", "dead"}
    /\ \A r \in Readers : reader[r].pc \in {"none", "idle", "distance", "header", "copy"}
    /\ \A m \in 1..Len(log) : Offset(log[m].pos) + HeaderCells + log[m].len <= Size

\* As long as no commit timed out and no writer ran into uncommitted messages,
\* "readers only see commit_pos, ensuring they never read incomplete data": what
\* lies below commit_pos and is not reserved again is the message put there,
\* header and pieces, whichever way the writers interleave.
CommittedIsWritten ==
    broken = {} =>
      \A m \in 1..Len(log) :
         LET off == Offset(log[m].pos) IN
         log[m].end <= commit /\ reserve <= log[m].pos + Size =>
            /\ cell[off] = Lens(HeaderCells + log[m].len, log[m].len)
            /\ \A i \in 1..log[m].len : cell[off + HeaderCells + i - 1] = Piece(m, i)

\* A reader returns whole messages, in the order of the reservations, none twice.
IntactReads ==
    \A r \in Readers : Trusted(r) =>
        /\ \A i \in DOMAIN got[r] : got[r][i] # 0
        /\ \A i, j \in DOMAIN got[r] : i < j => got[r][i] < got[r][j]

\* Every message between the place where a reader began and its position was
\* returned or skipped because the reader was too far behind: wrap markers,
\* padding and the restart of read lose none.
NothingMissed ==
    \A r \in Readers : Trusted(r) /\ reader[r].pc # "none" =>
        {got[r][i] : i \in DOMAIN got[r]} \cup missed[r]
          = {m \in 1..Len(log) : reader[r].start <= log[m].pos /\ log[m].end <= reader[r].pos}

\* A write returns even if the process of an earlier writer ended before its commit.
WriteReturns ==
    \A w \in Writers : writer[w].pc # "idle" ~> writer[w].pc \in {"idle", "dead"}

=============================================================================
