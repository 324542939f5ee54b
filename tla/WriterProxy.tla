---------------------------- MODULE WriterProxy ----------------------------
(***************************************************************************)
(* The state a reliable reader keeps for one matched writer, and the       *)
(* operations on it: rtps/entities/reader/writer_proxy.rs together with    *)
(* the parts of the receive handlers of rtps/logic/user_logic.rs that work *)
(* on it under the writer_proxies lock.  A proxy is a record                *)
(*                                                                         *)
(*   expected  the delivery cursor expected_sn                             *)
(*   ledger    changes_from_writer: what is known of each sequence number  *)
(*   buffered  buffered_change: samples held for in-order delivery         *)
(*                                                                         *)
(* Samples are unfragmented here, and all of one size, so that             *)
(* buffered_bytes is the number of buffered samples.                       *)
(***************************************************************************)
EXTENDS Integers, FiniteSets, FiniteSetsExt

CONSTANTS MaxSN,          \* bound on sequence numbers
          InOrderBuffer   \* IN_ORDER_BUFFER_BYTES, in samples

ASSUME ProxyAssumption == MaxSN \in Nat /\ InOrderBuffer \in Nat \ {0}

SN == 1..MaxSN

\* SequenceNumber::UNKNOWN, below every sequence number a writer assigns.
Unknown == -1

(***************************************************************************)
(* A ledger entry: no entry at all, outstanding, arrived, or declared       *)
(* irrelevant by a GAP (status Received with is_relevant false).  The       *)
(* statuses Unknown and NotAvailable are never assigned by the code.       *)
(***************************************************************************)
Status == {"none", "missing", "received", "irrelevant"}

Proxy == [expected : Int, ledger : [SN -> Status], buffered : SUBSET SN]

NewProxy == [expected |-> Unknown, ledger |-> [n \in SN |-> "none"], buffered |-> {}]

LargerOf(a, b) == IF a >= b THEN a ELSE b

Entries(w) == {n \in SN : w.ledger[n] # "none"}

\* is_settled, for a sample that is not fragmented.
IsSettled(w, n) == n \in SN /\ w.ledger[n] \in {"received", "irrelevant"}

(***************************************************************************)
(* first_unsettled_from: the walk over the entries stops at the first       *)
(* sequence number that is outstanding or has no entry.                     *)
(***************************************************************************)
FirstUnsettledFrom(w, start) ==
    Min({n \in start..LargerOf(start, MaxSN + 1) : ~IsSettled(w, n)})

\* A base above the highest entry, whatever is outstanding below it.
CalculateBitmapBaseAboveAll(w) ==
    IF Entries(w) = {} THEN 1 ELSE Max(Entries(w)) + 1

\* calculate_bitmap_base, the base of an ACKNACK.
CalculateBitmapBase(w) ==
    IF Entries(w) = {} THEN 1 ELSE FirstUnsettledFrom(w, Min(Entries(w)))

ChangesFromWriterMax(w) == IF Entries(w) = {} THEN Unknown ELSE Max(Entries(w))

MissingChanges(w, first, last) ==
    {n \in SN : n \in first..last /\ w.ledger[n] \in {"none", "missing"}}

\* A flush that forgets that each sample popped moves the cursor.
FlushedChangesFixedCursor(w) == {b \in w.buffered : b <= w.expected}

(***************************************************************************)
(* flush_buffered_changes pops the lowest buffered sample while it is not   *)
(* above the cursor and advances the cursor by one for each sample popped.  *)
(* A sample is popped iff it and every lower one is reached by the cursor   *)
(* after the pops below it.                                                 *)
(***************************************************************************)
BufferedBelow(w, c) == {d \in w.buffered : d < c}

Reached(w, c) == c <= w.expected + Cardinality(BufferedBelow(w, c))

FlushedChanges(w) == {b \in w.buffered : \A c \in w.buffered : c <= b => Reached(w, c)}

FlushBufferedChanges(w) ==
    [w EXCEPT !.expected = @ + Cardinality(FlushedChanges(w)),
              !.buffered = @ \ FlushedChanges(w)]

\* What a handler leaves behind: the proxy, the samples it delivers, and the
\* number of SAMPLE_LOST reports it makes.
Result(w, out, lost) == [wp |-> w, out |-> out, lost |-> lost]

FlushResult(w, lost) == Result(FlushBufferedChanges(w), FlushedChanges(w), lost)

MarkChangeReceived(w, sn) ==
    [w EXCEPT !.ledger[sn] = IF @ = "irrelevant" THEN @ ELSE "received"]

DropChangesBelow(w, first) ==
    [w EXCEPT !.expected = LargerOf(@, first),
              !.ledger   = [n \in SN |-> IF n < first THEN "none" ELSE @[n]]]

(***************************************************************************)
(* give_up_oldest_hole_if_full: a full buffer gives up every hole below its *)
(* lowest sample.  report_abandoned_samples counts what is given up, less   *)
(* what a GAP declared irrelevant; its cap of 4096 is out of reach here.    *)
(***************************************************************************)
AbandonedSamples(w, first) ==
    IF w.expected = Unknown
    THEN 0
    ELSE LargerOf(0, (first - w.expected)
                     - Cardinality({n \in SN : /\ n \in w.expected..(first - 1)
                                               /\ w.ledger[n] = "irrelevant"}))

\* A limit that is only acted on once it is exceeded.
GiveUpOldestHoleIfOver(w) ==
    IF Cardinality(w.buffered) <= InOrderBuffer
    THEN Result(w, {}, 0)
    ELSE LET first == Min(w.buffered)
         IN  FlushResult(DropChangesBelow(w, first), AbandonedSamples(w, first))

GiveUpOldestHoleIfFull(w) ==
    IF Cardinality(w.buffered) < InOrderBuffer
    THEN Result(w, {}, 0)
    ELSE LET first == Min(w.buffered)
         IN  FlushResult(DropChangesBelow(w, first), AbandonedSamples(w, first))

(***************************************************************************)
(* deliver_change_to_reader: DATA in order is delivered with everything it  *)
(* releases, DATA ahead of the cursor is buffered, DATA behind the cursor   *)
(* is dropped.                                                              *)
(***************************************************************************)
DeliverInOrder(w, sn) ==
    LET v == [w EXCEPT !.expected = @ + 1]
    IN  Result(FlushBufferedChanges(v), {sn} \cup FlushedChanges(v), 0)

\* Variants: DATA ahead of the cursor, or behind it, is delivered at once; the first
\* DATA, not the first HEARTBEAT, sets the cursor.
DeliverChangeToReaderUnordered(w, sn) ==
    LET m == MarkChangeReceived(w, sn)
    IN  IF sn = m.expected THEN DeliverInOrder(m, sn) ELSE Result(m, {sn}, 0)

DeliverChangeToReaderFromFirst(w, sn) ==
    LET m == MarkChangeReceived([w EXCEPT !.expected = IF @ = Unknown THEN sn ELSE @], sn)
    IN  CASE sn = m.expected -> DeliverInOrder(m, sn)
          [] sn > m.expected -> GiveUpOldestHoleIfFull([m EXCEPT !.buffered = @ \cup {sn}])
          [] OTHER           -> Result(m, {}, 0)

DeliverChangeToReader(w, sn) ==
    LET m == MarkChangeReceived(w, sn)
    IN  CASE sn = m.expected -> DeliverInOrder(m, sn)
          [] sn > m.expected -> GiveUpOldestHoleIfFull([m EXCEPT !.buffered = @ \cup {sn}])
          [] OTHER           -> Result(m, {}, 0)

\* A count of all that is given up, whether it had arrived or not.
LostChangesOfAnyStatus(w, first) == Cardinality({n \in Entries(w) : n < first})

(***************************************************************************)
(* process_heartbeat: lost_changes_update gives up what the writer no       *)
(* longer holds, then every sequence number from the cursor to last that    *)
(* has no entry becomes outstanding.                                        *)
(***************************************************************************)
LostChanges(w, first) == Cardinality({n \in SN : n < first /\ w.ledger[n] = "missing"})

UpdateChangesForHeartbeatRange(w, first, last) ==
    [w EXCEPT !.ledger =
        [n \in SN |-> IF n \in first..last /\ @[n] = "none" THEN "missing" ELSE @[n]]]

ProcessHeartbeat(w, first, last) ==
    LET d == DropChangesBelow(w, first)
    IN  UpdateChangesForHeartbeatRange(d, LargerOf(first, d.expected), last)

HeartbeatHandler(w, first, last) ==
    FlushResult(ProcessHeartbeat(w, first, last), LostChanges(w, first))

(***************************************************************************)
(* The GAP handler: if the GAP reaches the cursor, the cursor moves past    *)
(* the last irrelevant number and the buffer is flushed; then every         *)
(* irrelevant number is recorded.                                           *)
(***************************************************************************)
IrrelevantChangeSet(w, sns) ==
    [w EXCEPT !.ledger = [n \in SN |-> IF n \in sns THEN "irrelevant" ELSE @[n]]]

GapHandler(w, sns) ==
    LET last == Max(sns)
        j    == [w EXCEPT !.expected = last + 1]
    IN  IF last >= w.expected
        THEN Result(IrrelevantChangeSet(FlushBufferedChanges(j), sns), FlushedChanges(j), 0)
        ELSE Result(IrrelevantChangeSet(w, sns), {}, 0)
=============================================================================
