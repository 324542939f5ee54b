----------------------- MODULE ReliableProtocol_proofs -----------------------
(***************************************************************************)
(* Proofs about ReliableProtocol for any readers, threads, instances,      *)
(* history depth, buffer size and number of samples.  First what the       *)
(* receive handlers do to a WriterProxy; then every variable keeps its     *)
(* type, each reader is given samples in order, once, with a bounded       *)
(* in-order buffer, and SAMPLE_LOST is reported at most once for a sample, *)
(* whatever the network does to the datagrams.                             *)
(***************************************************************************)
EXTENDS ReliableProtocol, FiniteSetTheorems, WellFoundedInduction, TLAPS

----------------------------------------------------------------------------
(* Minima and finite sets of sequence numbers *)

\* A set of natural numbers that is not empty has a least element.
LEMMA MinNat ==
    ASSUME NEW S \in SUBSET Nat, S # {}
    PROVE  Min(S) \in S /\ \A y \in S : Min(S) <= y
<1>1. PICK x \in S : \A y \in S : ~(<<y, x>> \in OpToRel(<, Nat))
  BY NatLessThanWellFounded, WFMin, Zenon
<1>2. \A y \in S : x <= y
  <2> SUFFICES ASSUME NEW y \in S PROVE x <= y
    BY Zenon
  <2>1. ~(<<y, x>> \in OpToRel(<, Nat))
    BY <1>1, Zenon
  <2>2. x \in Nat /\ y \in Nat
    BY Zenon
  <2>3. ~(y < x)
    BY <2>1, <2>2, Zenon DEF OpToRel
  <2> QED
    BY <2>2, <2>3
<1> QED
  BY <1>2, Zenon DEF Min

\* Sequence numbers are positive and finitely many.
LEMMA SNType == SN \subseteq Nat \ {0} /\ IsFiniteSet(SN)
  BY ProxyAssumption, FS_Interval DEF SN

\* Sequence numbers are positive.
LEMMA SNInt == \A n \in SN : n \in Nat /\ n \in Int /\ n >= 1 /\ n <= MaxSN
BY ProxyAssumption DEF SN

\* Natural numbers are integers, for leaves that Zenon proves.
LEMMA NatIsInt == \A n \in Nat : n \in Int
OBVIOUS

\* A set of sequence numbers that is not empty has a greatest element.
LEMMA MaxSNs ==
    ASSUME NEW S \in SUBSET SN, S # {}
    PROVE  Max(S) \in S /\ \A y \in S : Max(S) >= y
<1> DEFINE T == {MaxSN - n : n \in S}
<1>1. T \in SUBSET Nat /\ T # {}
  <2>1. PICK n \in S : TRUE
    BY Zenon
  <2>2. MaxSN - n \in T
    BY <2>1, Zenon
  <2>3. \A k \in S : MaxSN - k \in Nat
    BY ProxyAssumption DEF SN
  <2> QED
    BY <2>2, <2>3, Zenon
<1>2. PICK n \in S : Min(T) = MaxSN - n
  BY <1>1, MinNat, Zenon
<1>3. \A y \in S : n >= y
  <2> SUFFICES ASSUME NEW y \in S PROVE n >= y
    BY Zenon
  <2>1. MaxSN - y \in T
    BY Zenon
  <2>2. MaxSN - n <= MaxSN - y
    BY <1>1, <1>2, <2>1, MinNat, Zenon
  <2> QED
    BY <2>2, ProxyAssumption DEF SN
<1> QED
  BY <1>3, Zenon DEF Max

\* A set of sequence numbers is finite, and its size is a natural number.
LEMMA SubsetOfSN ==
    ASSUME NEW S \in SUBSET SN
    PROVE  IsFiniteSet(S) /\ Cardinality(S) \in Nat
  BY SNType, FS_Subset, FS_CardinalityType, Zenon

----------------------------------------------------------------------------
(* flush_buffered_changes *)

\* The flush releases a set of buffered samples that all lie below the cursor
\* it leaves, and keeps only samples above that cursor.
LEMMA FlushSeparates ==
    ASSUME NEW w \in Proxy
    PROVE  LET F == FlushedChanges(w)
           IN  /\ F \subseteq w.buffered
               /\ Cardinality(F) \in Nat
               /\ \A c \in F : c < w.expected + Cardinality(F)
               /\ \A b \in w.buffered \ F : w.expected + Cardinality(F) < b
<1> DEFINE F == FlushedChanges(w)
<1>1. /\ w.buffered \in SUBSET SN
      /\ w.expected \in Int
  BY Zenon DEF Proxy
<1>2. F \in SUBSET w.buffered
  BY Zenon DEF FlushedChanges
<1>3. F \in SUBSET SN /\ IsFiniteSet(F) /\ Cardinality(F) \in Nat
  BY <1>1, <1>2, SubsetOfSN, Zenon
<1>4. ASSUME NEW c \in w.buffered
      PROVE  /\ c \in Nat
             /\ BufferedBelow(w, c) \in SUBSET SN
             /\ IsFiniteSet(BufferedBelow(w, c))
             /\ Cardinality(BufferedBelow(w, c)) \in Nat
  <2>1. BufferedBelow(w, c) \in SUBSET SN
    BY <1>1, Zenon DEF BufferedBelow
  <2> QED
    BY <1>1, <2>1, SubsetOfSN, SNType, Zenon
<1>5. ASSUME NEW c \in F
      PROVE  c < w.expected + Cardinality(F)
  <2>0. c \in w.buffered /\ c \in Nat /\ Cardinality(BufferedBelow(w, c)) \in Nat
    BY <1>2, <1>4, Zenon
  <2>1. c <= w.expected + Cardinality(BufferedBelow(w, c))
    BY <2>0 DEF FlushedChanges, Reached
  <2>2. BufferedBelow(w, c) \in SUBSET F
    <3> SUFFICES ASSUME NEW d \in w.buffered, d < c PROVE d \in F
      BY Zenon DEF BufferedBelow
    <3>1. \A k \in w.buffered : k <= d => k <= c
      BY <1>4, <2>0
    <3> QED
      BY <3>1, Zenon DEF FlushedChanges
  <2>3. c \notin BufferedBelow(w, c)
    BY <2>0 DEF BufferedBelow
  <2>4. /\ Cardinality(BufferedBelow(w, c)) <= Cardinality(F)
        /\ Cardinality(F) = Cardinality(BufferedBelow(w, c)) => F = BufferedBelow(w, c)
    BY <2>2, <1>3, FS_Subset, Zenon
  <2>5. Cardinality(BufferedBelow(w, c)) # Cardinality(F)
    BY <2>3, <2>4, Zenon
  <2> QED
    BY <2>0, <2>1, <2>4, <2>5, <1>1, <1>3
<1>6. ASSUME NEW b \in w.buffered \ F
      PROVE  w.expected + Cardinality(F) < b
  <2>1. PICK c \in w.buffered : c <= b /\ ~Reached(w, c)
    BY Zenon DEF FlushedChanges
  <2>2. F \in SUBSET BufferedBelow(w, c)
    <3> SUFFICES ASSUME NEW d \in F PROVE d \in BufferedBelow(w, c)
      BY Zenon
    <3>1. ~(c <= d)
      BY <2>1, Zenon DEF FlushedChanges
    <3>2. d \in w.buffered /\ d \in Nat /\ c \in Nat
      BY <1>2, <1>4, Zenon
    <3> QED
      BY <3>1, <3>2 DEF BufferedBelow
  <2>3. Cardinality(F) <= Cardinality(BufferedBelow(w, c))
    BY <2>2, <1>4, FS_Subset, Zenon
  <2> QED
    BY <2>1, <2>3, <1>1, <1>3, <1>4 DEF Reached
<1> QED
  BY <1>2, <1>3, <1>5, <1>6, Zenon

\* The proxy a flush leaves.
LEMMA FlushType ==
    ASSUME NEW w \in Proxy
    PROVE  /\ FlushBufferedChanges(w) \in Proxy
           /\ FlushBufferedChanges(w).expected = w.expected + Cardinality(FlushedChanges(w))
           /\ FlushBufferedChanges(w).buffered = w.buffered \ FlushedChanges(w)
           /\ FlushBufferedChanges(w).ledger = w.ledger
<1>1. Cardinality(FlushedChanges(w)) \in Nat
  BY FlushSeparates, Zenon
<1> DEFINE e == w.expected + Cardinality(FlushedChanges(w))
           b == w.buffered \ FlushedChanges(w)
<1>2. e \in Int /\ b \in SUBSET SN
  BY <1>1 DEF Proxy
<1> HIDE DEF e, b
<1>3. /\ [w EXCEPT !.expected = e, !.buffered = b] \in Proxy
      /\ [w EXCEPT !.expected = e, !.buffered = b].expected = e
      /\ [w EXCEPT !.expected = e, !.buffered = b].buffered = b
      /\ [w EXCEPT !.expected = e, !.buffered = b].ledger = w.ledger
  BY <1>2, Zenon DEF Proxy
<1> QED
  BY <1>3, Zenon DEF FlushBufferedChanges, e, b

----------------------------------------------------------------------------
(* The receive handlers *)

\* What holds of a proxy between two messages.
Separated(w) ==
    /\ w \in Proxy
    /\ \A b \in w.buffered : w.expected < b
    /\ Cardinality(w.buffered) < InOrderBuffer

\* What holds of the result of handling a message: what is delivered lies
\* between the old cursor and the new one.
SafeResult(w, res) ==
    /\ Separated(res.wp)
    /\ res.out \subseteq SN
    /\ res.lost \in Nat
    /\ w.expected <= res.wp.expected
    /\ \A o \in res.out : w.expected <= o /\ o < res.wp.expected

\* flush_buffered_changes delivers only what lies between the cursors it starts and ends with.
LEMMA FlushSafe ==
    ASSUME NEW w \in Proxy, NEW v \in Proxy, NEW l \in Nat,
           w.expected <= v.expected,
           \A b \in v.buffered : w.expected <= b,
           \/ Cardinality(v.buffered) < InOrderBuffer
           \/ Cardinality(v.buffered) = InOrderBuffer /\ FlushedChanges(v) # {}
    PROVE  SafeResult(w, FlushResult(v, l))
<1> DEFINE F == FlushedChanges(v)
           r == FlushBufferedChanges(v)
<1>1. /\ F \subseteq v.buffered
      /\ Cardinality(F) \in Nat
      /\ \A c \in F : c < v.expected + Cardinality(F)
      /\ \A b \in v.buffered \ F : v.expected + Cardinality(F) < b
  BY FlushSeparates, Zenon
<1>2. /\ r \in Proxy
      /\ r.expected = v.expected + Cardinality(F)
      /\ r.buffered = v.buffered \ F
  BY FlushType, Zenon
<1>3. /\ FlushResult(v, l).wp = r
      /\ FlushResult(v, l).out = F
      /\ FlushResult(v, l).lost = l
  BY Zenon DEF FlushResult, Result
<1>4. /\ w.expected \in Int /\ v.expected \in Int
      /\ v.buffered \in SUBSET SN
      /\ F \in SUBSET SN
  BY <1>1, Zenon DEF Proxy
<1>5. Cardinality(r.buffered) < InOrderBuffer
  <2>1. IsFiniteSet(v.buffered) /\ Cardinality(v.buffered) \in Nat
    BY <1>4, SubsetOfSN, Zenon
  <2>2. /\ Cardinality(r.buffered) <= Cardinality(v.buffered)
        /\ Cardinality(v.buffered) = Cardinality(r.buffered) => v.buffered = r.buffered
        /\ Cardinality(r.buffered) \in Nat
    <3>1. r.buffered \in SUBSET v.buffered
      BY <1>2, Zenon
    <3>2. r.buffered \in SUBSET SN
      BY <1>4, <3>1, Zenon
    <3> QED
      BY <2>1, <3>1, <3>2, FS_Subset, SubsetOfSN, Zenon
  <2>3. F # {} => v.buffered # r.buffered
    BY <1>1, <1>2, Zenon
  <2> QED
    BY <2>1, <2>2, <2>3, ProxyAssumption
<1>6. \A b \in r.buffered : r.expected < b
  BY <1>1, <1>2, Zenon
<1>7. w.expected <= r.expected
  BY <1>1, <1>2, <1>4
<1>8. \A o \in F : w.expected <= o /\ o < r.expected
  BY <1>1, <1>2, Zenon
<1> HIDE DEF F, r
<1> QED
  BY <1>2, <1>3, <1>4, <1>5, <1>6, <1>7, <1>8, Zenon DEF SafeResult, Separated

\* The larger of two integers is one of them and not below either.
LEMMA LargerOfType ==
    ASSUME NEW a \in Int, NEW b \in Int
    PROVE  LargerOf(a, b) \in Int /\ LargerOf(a, b) >= a /\ LargerOf(a, b) >= b
  BY DEF LargerOf

\* Marking a DATA received touches neither the cursor nor the buffer.
LEMMA MarkType ==
    ASSUME NEW w \in Proxy, NEW sn \in SN
    PROVE  /\ MarkChangeReceived(w, sn) \in Proxy
           /\ MarkChangeReceived(w, sn).expected = w.expected
           /\ MarkChangeReceived(w, sn).buffered = w.buffered
  BY Zenon DEF MarkChangeReceived, Proxy, Status

\* drop_changes_below never moves the cursor back.
LEMMA DropType ==
    ASSUME NEW w \in Proxy, NEW first \in Int
    PROVE  /\ DropChangesBelow(w, first) \in Proxy
           /\ DropChangesBelow(w, first).expected = LargerOf(w.expected, first)
           /\ DropChangesBelow(w, first).buffered = w.buffered
<1> DEFINE e == LargerOf(w.expected, first)
           f == [n \in SN |-> IF n < first THEN "none" ELSE w.ledger[n]]
<1>1. e \in Int
  BY LargerOfType, Zenon DEF Proxy
<1>2. f \in [SN -> Status]
  BY Zenon DEF Proxy, Status
<1> HIDE DEF e, f
<1> QED
  BY <1>1, <1>2, Zenon DEF DropChangesBelow, Proxy, e, f

\* The number of abandoned samples is never negative.
LEMMA AbandonedType ==
    ASSUME NEW w \in Proxy, NEW first \in Int
    PROVE  AbandonedSamples(w, first) \in Nat
<1> DEFINE S == {n \in SN : n \in w.expected..(first - 1) /\ w.ledger[n] = "irrelevant"}
<1>1. Cardinality(S) \in Nat
  BY SubsetOfSN, Zenon
<1>2. w.expected \in Int
  BY Zenon DEF Proxy
<1> QED
  BY <1>1, <1>2 DEF AbandonedSamples, LargerOf

\* A buffer that has reached its limit always gives up enough to go below it.
LEMMA GiveUpSafe ==
    ASSUME NEW w \in Proxy, NEW v \in Proxy,
           v.expected = w.expected,
           \A b \in v.buffered : w.expected < b,
           Cardinality(v.buffered) <= InOrderBuffer
    PROVE  SafeResult(w, GiveUpOldestHoleIfFull(v))
<1>0. /\ w.expected \in Int /\ v.expected \in Int
      /\ v.buffered \in SUBSET SN /\ v.buffered \in SUBSET Nat
      /\ Cardinality(v.buffered) \in Nat /\ InOrderBuffer \in Nat \ {0}
  BY SubsetOfSN, SNType, ProxyAssumption, Zenon DEF Proxy
<1>1. CASE Cardinality(v.buffered) < InOrderBuffer
  <2>1. GiveUpOldestHoleIfFull(v) = Result(v, {}, 0)
    BY <1>1, Zenon DEF GiveUpOldestHoleIfFull
  <2>2. Separated(v)
    BY <1>0, <1>1, Zenon DEF Separated
  <2> QED
    BY <1>0, <2>1, <2>2 DEF SafeResult, Result
<1>2. CASE ~(Cardinality(v.buffered) < InOrderBuffer)
  <2> DEFINE first == Min(v.buffered)
             d == DropChangesBelow(v, first)
  <2>1. v.buffered # {}
    BY <1>0, <1>2, FS_EmptySet
  <2>2. first \in v.buffered /\ \A y \in v.buffered : first <= y
    BY <1>0, <2>1, MinNat, Zenon
  <2>3. first \in Int
    BY <1>0, <2>2
  <2>4. /\ d \in Proxy
        /\ d.expected = LargerOf(v.expected, first)
        /\ d.buffered = v.buffered
    BY <2>3, DropType, Zenon
  <2>5. d.expected \in Int /\ d.expected >= v.expected /\ d.expected >= first
    BY <1>0, <2>3, <2>4, LargerOfType, Zenon
  <2>6. first \in FlushedChanges(d)
    <3> SUFFICES ASSUME NEW c \in v.buffered, c <= first PROVE Reached(d, c)
      BY <2>2, <2>4, Zenon DEF FlushedChanges
    <3>1. c = first
      BY <1>0, <2>2
    <3>2. BufferedBelow(d, c) \in SUBSET SN
      BY <1>0, <2>4, Zenon DEF BufferedBelow
    <3>3. Cardinality(BufferedBelow(d, c)) \in Nat
      BY <3>2, SubsetOfSN, Zenon
    <3> QED
      BY <2>3, <2>5, <3>1, <3>3 DEF Reached
  <2>7. AbandonedSamples(v, first) \in Nat
    BY <2>3, AbandonedType, Zenon
  <2>8. /\ w.expected <= d.expected
        /\ \A b \in d.buffered : w.expected <= b
        /\ Cardinality(d.buffered) = InOrderBuffer /\ FlushedChanges(d) # {}
    BY <1>0, <1>2, <2>4, <2>5, <2>6
  <2>9. SafeResult(w, FlushResult(d, AbandonedSamples(v, first)))
    <3> HIDE DEF d, first
    <3> QED
      BY <2>4, <2>7, <2>8, FlushSafe, Zenon
  <2> QED
    BY <1>2, <2>9, Zenon DEF GiveUpOldestHoleIfFull
<1> QED
  BY <1>1, <1>2, Zenon

\* What is buffered are sequence numbers above the cursor.
LEMMA BufferedAbove ==
    ASSUME NEW w, Separated(w)
    PROVE  \A b \in w.buffered : b \in Int /\ w.expected < b
<1> SUFFICES ASSUME NEW b \in w.buffered PROVE b \in Int /\ w.expected < b
  BY Zenon
<1>1. b \in SN
  BY Zenon DEF Separated, Proxy
<1>2. b \in Nat
  BY <1>1, SNType, Zenon
<1> QED
  BY <1>2 DEF Separated

\* DATA, in order, ahead of the cursor or behind it.
LEMMA DataSafe ==
    ASSUME NEW w, Separated(w), NEW sn \in SN
    PROVE  SafeResult(w, DeliverChangeToReader(w, sn))
<1> DEFINE m == MarkChangeReceived(w, sn)
<1>0. /\ w \in Proxy /\ w.expected \in Int
      /\ w.buffered \in SUBSET SN /\ IsFiniteSet(w.buffered)
      /\ Cardinality(w.buffered) \in Nat /\ InOrderBuffer \in Nat
      /\ sn \in Nat
  BY SubsetOfSN, SNType, ProxyAssumption, Zenon DEF Separated, Proxy
<1>1. m \in Proxy /\ m.expected = w.expected /\ m.buffered = w.buffered
  BY <1>0, MarkType, Zenon
<1> HIDE DEF m
<1>2. CASE sn = m.expected
  <2> DEFINE v == [m EXCEPT !.expected = @ + 1]
  <2>1. v \in Proxy /\ v.expected = w.expected + 1 /\ v.buffered = w.buffered
    BY <1>0, <1>1 DEF Proxy
  <2>2. SafeResult(w, FlushResult(v, 0))
    <3> HIDE DEF v
    <3>1. /\ w.expected <= v.expected
          /\ Cardinality(v.buffered) < InOrderBuffer
      BY <1>0, <2>1 DEF Separated
    <3>2. \A b \in v.buffered : w.expected <= b
      <4>1. \A b \in w.buffered : b \in Int /\ w.expected < b
        BY BufferedAbove, Zenon
      <4> QED
        BY <1>0, <2>1, <4>1
    <3> QED
      BY <1>0, <2>1, <3>1, <3>2, FlushSafe, Zenon
  <2>3. /\ FlushBufferedChanges(v).expected = v.expected + Cardinality(FlushedChanges(v))
        /\ Cardinality(FlushedChanges(v)) \in Nat
    <3> HIDE DEF v
    <3> QED
      BY <2>1, FlushType, FlushSeparates, Zenon
  <2>4. sn < FlushBufferedChanges(v).expected
    BY <1>0, <1>1, <1>2, <2>1, <2>3
  <2>5. DeliverInOrder(m, sn) = Result(FlushBufferedChanges(v), {sn} \cup FlushedChanges(v), 0)
    BY Zenon DEF DeliverInOrder
  <2>6. SafeResult(w, DeliverInOrder(m, sn))
    <3> HIDE DEF v
    <3> QED
      BY <1>0, <1>1, <1>2, <2>2, <2>4, <2>5 DEF SafeResult, FlushResult, Result
  <2>7. DeliverChangeToReader(w, sn) = DeliverInOrder(m, sn)
    BY <1>0, <1>1, <1>2 DEF DeliverChangeToReader, m
  <2> QED
    BY <2>6, <2>7, Zenon
<1>3. CASE sn > m.expected
  <2> DEFINE v == [m EXCEPT !.buffered = @ \cup {sn}]
  <2>1. v \in Proxy /\ v.expected = w.expected /\ v.buffered = w.buffered \cup {sn}
    BY <1>0, <1>1, Zenon DEF Proxy
  <2>2. \A b \in v.buffered : w.expected < b
    BY <1>1, <1>3, <2>1, Zenon DEF Separated
  <2>3. Cardinality(v.buffered) <= InOrderBuffer
    <3>1. \/ Cardinality(w.buffered \cup {sn}) = Cardinality(w.buffered)
          \/ Cardinality(w.buffered \cup {sn}) = Cardinality(w.buffered) + 1
      BY <1>0, FS_AddElement, Zenon
    <3> HIDE DEF v
    <3> QED
      BY <1>0, <2>1, <3>1 DEF Separated
  <2>4. SafeResult(w, GiveUpOldestHoleIfFull(v))
    <3> HIDE DEF v
    <3> QED
      BY <1>0, <2>1, <2>2, <2>3, GiveUpSafe, Zenon
  <2>5. DeliverChangeToReader(w, sn) = GiveUpOldestHoleIfFull(v)
    BY <1>0, <1>1, <1>3 DEF DeliverChangeToReader, m
  <2> QED
    BY <2>4, <2>5, Zenon
<1>4. CASE sn < m.expected
  <2>1. DeliverChangeToReader(w, sn) = Result(m, {}, 0)
    BY <1>0, <1>1, <1>4 DEF DeliverChangeToReader, m
  <2>2. Separated(m)
    BY <1>1, Zenon DEF Separated
  <2> QED
    BY <1>0, <1>1, <2>1, <2>2 DEF SafeResult, Result
<1> QED
  BY <1>0, <1>1, <1>2, <1>3, <1>4

\* process_heartbeat leaves the buffer alone and never moves the cursor back.
LEMMA ProcessHeartbeatType ==
    ASSUME NEW w \in Proxy, NEW first \in Nat, NEW last \in Nat
    PROVE  /\ ProcessHeartbeat(w, first, last) \in Proxy
           /\ ProcessHeartbeat(w, first, last).expected \in Int
           /\ ProcessHeartbeat(w, first, last).expected = LargerOf(w.expected, first)
           /\ w.expected <= ProcessHeartbeat(w, first, last).expected
           /\ ProcessHeartbeat(w, first, last).buffered = w.buffered
<1> DEFINE d == DropChangesBelow(w, first)
           p == ProcessHeartbeat(w, first, last)
           l == [n \in SN |-> IF n \in LargerOf(first, d.expected)..last /\ d.ledger[n] = "none"
                              THEN "missing" ELSE d.ledger[n]]
<1>0. w.expected \in Int /\ first \in Int
  BY DEF Proxy
<1>1. d \in Proxy /\ d.expected = LargerOf(w.expected, first) /\ d.buffered = w.buffered
  BY <1>0, DropType, Zenon
<1>2. LargerOf(w.expected, first) \in Int /\ LargerOf(w.expected, first) >= w.expected
  BY <1>0, LargerOfType, Zenon
<1>3. p = [d EXCEPT !.ledger = l]
  BY Zenon DEF ProcessHeartbeat, UpdateChangesForHeartbeatRange
<1> HIDE DEF d, p
<1>4. l \in [SN -> Status]
  BY <1>1, Zenon DEF Proxy, Status
<1> HIDE DEF l
<1>5. p \in Proxy /\ p.expected = d.expected /\ p.buffered = d.buffered
  BY <1>1, <1>3, <1>4, Zenon DEF Proxy
<1>6. p.expected \in Int /\ w.expected <= p.expected
  BY <1>0, <1>1, <1>2, <1>5, Zenon
<1> QED
  BY <1>1, <1>5, <1>6, Zenon DEF p

\* HEARTBEAT: the cursor skips what the writer no longer holds.
LEMMA HeartbeatSafe ==
    ASSUME NEW w, Separated(w), NEW first \in Nat, NEW last \in Nat
    PROVE  SafeResult(w, HeartbeatHandler(w, first, last))
<1> DEFINE p == ProcessHeartbeat(w, first, last)
<1>0. w \in Proxy /\ w.expected \in Int
  BY Zenon DEF Separated, Proxy
<1>1. p \in Proxy /\ w.expected <= p.expected /\ p.buffered = w.buffered
  BY <1>0, ProcessHeartbeatType, Zenon
<1>2. LostChanges(w, first) \in Nat
  <2>1. {n \in SN : n < first /\ w.ledger[n] = "missing"} \in SUBSET SN
    BY Zenon
  <2> QED
    BY <2>1, SubsetOfSN, Zenon DEF LostChanges
<1> HIDE DEF p
<1>3. \A b \in p.buffered : w.expected <= b
  BY <1>0, <1>1, BufferedAbove
<1>4. Cardinality(p.buffered) < InOrderBuffer
  BY <1>1, Zenon DEF Separated
<1>5. SafeResult(w, FlushResult(p, LostChanges(w, first)))
  BY <1>0, <1>1, <1>2, <1>3, <1>4, FlushSafe, Zenon
<1> QED
  BY <1>5, Zenon DEF HeartbeatHandler, p

\* The walk for the base of an ACKNACK ends, at a natural number.
LEMMA BitmapBaseType ==
    ASSUME NEW w \in Proxy
    PROVE  CalculateBitmapBase(w) \in Nat
<1>1. CASE Entries(w) = {}
  BY <1>1, Zenon DEF CalculateBitmapBase
<1>2. CASE Entries(w) # {}
  <2> DEFINE start == Min(Entries(w))
             S == {n \in start..LargerOf(start, MaxSN + 1) : ~IsSettled(w, n)}
  <2>1. Entries(w) \in SUBSET SN
    BY Zenon DEF Entries
  <2>2. Entries(w) \in SUBSET Nat
    BY <2>1, SNType, Zenon
  <2>3. start \in Entries(w)
    BY <1>2, <2>2, MinNat, Zenon
  <2>4. start \in SN /\ start \in Nat
    BY <2>1, <2>2, <2>3, Zenon
  <2> HIDE DEF start
  <2>5. LargerOf(start, MaxSN + 1) = MaxSN + 1
    BY <2>4, ProxyAssumption DEF SN, LargerOf
  <2>6. S \in SUBSET Nat
    BY <2>4
  <2>7. MaxSN + 1 \in S
    BY <2>4, <2>5, ProxyAssumption DEF SN, IsSettled
  <2> HIDE DEF S
  <2>8. Min(S) \in Nat
    <3>1. Min(S) \in S
      BY <2>6, <2>7, MinNat, Zenon
    <3> QED
      BY <2>6, <3>1, Zenon
  <2> QED
    BY <1>2, <2>8, Zenon DEF CalculateBitmapBase, FirstUnsettledFrom, S, start
<1> QED
  BY <1>1, <1>2, Zenon

\* Recording irrelevance touches neither the cursor nor the buffer.
LEMMA IrrelevantType ==
    ASSUME NEW w \in Proxy, NEW sns
    PROVE  /\ IrrelevantChangeSet(w, sns) \in Proxy
           /\ IrrelevantChangeSet(w, sns).expected = w.expected
           /\ IrrelevantChangeSet(w, sns).buffered = w.buffered
<1>1. [n \in SN |-> IF n \in sns THEN "irrelevant" ELSE w.ledger[n]] \in [SN -> Status]
  BY Zenon DEF Proxy, Status
<1> QED
  BY <1>1, Zenon DEF IrrelevantChangeSet, Proxy

\* GAP: the cursor jumps past the last irrelevant number.
LEMMA GapSafe ==
    ASSUME NEW w, Separated(w), NEW sns \in SUBSET SN, sns # {}
    PROVE  SafeResult(w, GapHandler(w, sns))
<1> DEFINE last == Max(sns)
           j == [w EXCEPT !.expected = last + 1]
<1>0. w \in Proxy /\ w.expected \in Int /\ w.buffered \in SUBSET SN
  BY Zenon DEF Separated, Proxy
<1>1. last \in Int
  <2>1. last \in SN
    BY MaxSNs, Zenon
  <2> HIDE DEF last
  <2> QED
    BY <2>1, SNInt, NatIsInt, Zenon
<1>2. CASE last >= w.expected
  <2> HIDE DEF last
  <2>1. j \in Proxy /\ j.expected = last + 1 /\ j.buffered = w.buffered
    BY <1>0, <1>1 DEF Proxy
  <2>2. \A b \in w.buffered : b \in Int /\ w.expected < b
    BY BufferedAbove, Zenon
  <2>3. /\ \A b \in j.buffered : w.expected <= b
        /\ Cardinality(j.buffered) < InOrderBuffer
        /\ w.expected <= j.expected
    <3> HIDE DEF j
    <3> QED
      BY <1>0, <1>1, <1>2, <2>1, <2>2 DEF Separated
  <2>4. SafeResult(w, FlushResult(j, 0))
    <3> HIDE DEF j
    <3> QED
      BY <1>0, <2>1, <2>3, FlushSafe, Zenon
  <2> DEFINE f == FlushBufferedChanges(j)
             g == IrrelevantChangeSet(f, sns)
  <2>5. f \in Proxy
    BY <2>4, Zenon DEF SafeResult, FlushResult, Result, Separated
  <2>6. g \in Proxy /\ g.expected = f.expected /\ g.buffered = f.buffered
    <3> HIDE DEF f
    <3> QED
      BY <2>5, IrrelevantType, Zenon
  <2>7. SafeResult(w, Result(g, FlushedChanges(j), 0))
    <3>1. SafeResult(w, Result(f, FlushedChanges(j), 0))
      BY <2>4, Zenon DEF FlushResult
    <3> HIDE DEF g, f, j
    <3> QED
      BY <2>6, <3>1, Zenon DEF SafeResult, Result, Separated
  <2> QED
    BY <1>2, <2>7, Zenon DEF GapHandler, last
<1>3. CASE ~(last >= w.expected)
  <2>1. GapHandler(w, sns) = Result(IrrelevantChangeSet(w, sns), {}, 0)
    BY <1>3, Zenon DEF GapHandler
  <2>2. Separated(IrrelevantChangeSet(w, sns))
    BY <1>0, IrrelevantType, Zenon DEF Separated
  <2> QED
    BY <1>0, <2>1, <2>2, IrrelevantType DEF SafeResult, Result
<1> QED
  BY <1>2, <1>3, Zenon

----------------------------------------------------------------------------
(* The ledger *)

\* Marking a DATA received settles its entry and no other.
LEMMA MarkLedger ==
    ASSUME NEW w \in Proxy, NEW sn \in SN
    PROVE  /\ IsSettled(MarkChangeReceived(w, sn), sn)
           /\ \A n \in SN \ {sn} : MarkChangeReceived(w, sn).ledger[n] = w.ledger[n]
  BY Zenon DEF MarkChangeReceived, Proxy, Status, IsSettled

\* drop_changes_below forgets the entries below its bound and no other.
LEMMA DropLedger ==
    ASSUME NEW w \in Proxy, NEW first \in Int
    PROVE  \A n \in SN : DropChangesBelow(w, first).ledger[n]
                         = IF n < first THEN "none" ELSE w.ledger[n]
  BY Zenon DEF DropChangesBelow, Proxy

\* A heartbeat forgets what lies below its range and makes outstanding what the
\* reader has no entry for from its cursor on.
LEMMA HeartbeatLedger ==
    ASSUME NEW w \in Proxy, NEW first \in Nat, NEW last \in Nat, NEW n \in SN
    PROVE  LET e == LargerOf(w.expected, first)
               l == ProcessHeartbeat(w, first, last).ledger[n]
           IN  /\ n < first => l = "none"
               /\ first <= n /\ w.ledger[n] # "none" => l = w.ledger[n]
               /\ first <= n /\ w.ledger[n] = "none" =>
                    l = IF e <= n /\ n <= last THEN "missing" ELSE "none"
<1> DEFINE d == DropChangesBelow(w, first)
           e == LargerOf(w.expected, first)
           k == [x \in SN |-> IF x \in LargerOf(first, d.expected)..last /\ d.ledger[x] = "none"
                              THEN "missing" ELSE d.ledger[x]]
<1>0. w.expected \in Int /\ first \in Int /\ n \in Int
  BY SNInt, NatIsInt, Zenon DEF Proxy
<1>1. d \in Proxy /\ d.expected = e
  BY <1>0, DropType, Zenon
<1>2. d.ledger[n] = IF n < first THEN "none" ELSE w.ledger[n]
  BY <1>0, DropLedger, Zenon
<1>3. e \in Int /\ e >= first /\ LargerOf(first, e) = e
  BY <1>0 DEF LargerOf
<1>4. ProcessHeartbeat(w, first, last) = [d EXCEPT !.ledger = k]
  BY Zenon DEF ProcessHeartbeat, UpdateChangesForHeartbeatRange
<1> HIDE DEF d, e
<1>5. ProcessHeartbeat(w, first, last).ledger = k
  BY <1>1, <1>4, Zenon DEF Proxy
<1>6. k[n] = IF n \in e..last /\ d.ledger[n] = "none" THEN "missing" ELSE d.ledger[n]
  BY <1>1, <1>3, Zenon
<1> HIDE DEF k
<1> QED
  BY <1>0, <1>2, <1>3, <1>5, <1>6 DEF e

\* Recording irrelevance changes the entries it names and no other.
LEMMA IrrelevantLedger ==
    ASSUME NEW w \in Proxy, NEW sns
    PROVE  \A n \in SN : IrrelevantChangeSet(w, sns).ledger[n]
                         = IF n \in sns THEN "irrelevant" ELSE w.ledger[n]
  BY Zenon DEF IrrelevantChangeSet, Proxy

----------------------------------------------------------------------------
(* The handlers and the count of lost samples *)

\* A cursor that a message has set is a sequence number.
CursorSet(w) == w.expected = Unknown \/ w.expected >= 1

\* G are the samples given so far.  None of them counts as outstanding, and what
\* is held back has arrived.
Tidy(w, G) ==
    /\ Separated(w) /\ CursorSet(w)
    /\ G \subseteq SN
    /\ \A n \in G : n < w.expected /\ w.ledger[n] # "missing"
    /\ \A n \in w.buffered : IsSettled(w, n)

\* Samples the cursor passed that can no longer be reported as lost.
Passed(w, G) == {n \in SN : n < w.expected /\ n \notin G /\ w.ledger[n] # "missing"}

\* A handler reports no more losses than samples that it makes pass for good.
Counted(w, G, res) ==
    /\ Tidy(res.wp, G \cup res.out)
    /\ Cardinality(Passed(w, G)) + res.lost <= Cardinality(Passed(res.wp, G \cup res.out))

\* X are the samples a handler gives up: none of them was passed for good before.
LEMMA CountedResult ==
    ASSUME NEW w, NEW G, Tidy(w, G), NEW res, SafeResult(w, res), CursorSet(res.wp),
           \A n \in SN : n < w.expected /\ w.ledger[n] # "missing" => res.wp.ledger[n] # "missing",
           \A n \in res.out : res.wp.ledger[n] # "missing",
           \A n \in res.wp.buffered : IsSettled(res.wp, n),
           NEW X \in SUBSET SN, res.lost <= Cardinality(X),
           \A n \in X : /\ n < res.wp.expected /\ res.wp.ledger[n] # "missing"
                        /\ n \notin G /\ n \notin res.out
                        /\ w.expected <= n \/ w.ledger[n] = "missing"
    PROVE  Counted(w, G, res)
<1> DEFINE H == G \cup res.out
           P == Passed(w, G)
           Q == Passed(res.wp, H)
<1>0. /\ w \in Proxy /\ res.wp \in Proxy /\ w.expected \in Int /\ res.wp.expected \in Int
      /\ res.lost \in Nat /\ w.expected <= res.wp.expected /\ Separated(res.wp)
      /\ res.out \subseteq SN /\ G \subseteq SN
      /\ \A o \in res.out : w.expected <= o /\ o < res.wp.expected
  BY Zenon DEF Tidy, SafeResult, Separated, Proxy
<1>1. \A n \in H : n < res.wp.expected /\ res.wp.ledger[n] # "missing"
  <2>1. ASSUME NEW n \in G PROVE n < res.wp.expected /\ res.wp.ledger[n] # "missing"
    <3>1. n \in SN /\ n \in Int /\ n < w.expected /\ w.ledger[n] # "missing"
      BY <1>0, SNInt, NatIsInt, Zenon DEF Tidy
    <3> QED
      BY <1>0, <3>1
  <2>2. ASSUME NEW n \in res.out PROVE n < res.wp.expected /\ res.wp.ledger[n] # "missing"
    BY <1>0, Zenon
  <2> QED
    BY <2>1, <2>2, Zenon
<1>2. Tidy(res.wp, H)
  BY <1>0, <1>1, Zenon DEF Tidy
<1>3. P \in SUBSET SN /\ Q \in SUBSET SN
  BY Zenon DEF Passed
<1>4. P \subseteq Q
  <2> SUFFICES ASSUME NEW n \in P PROVE n \in Q
    BY Zenon
  <2>1. n \in SN /\ n \in Int /\ n < w.expected /\ n \notin G /\ w.ledger[n] # "missing"
    BY SNInt, NatIsInt, Zenon DEF Passed
  <2>2. n \notin res.out
    BY <1>0, <2>1
  <2>3. n < res.wp.expected
    BY <1>0, <2>1
  <2> QED
    BY <2>1, <2>2, <2>3, Zenon DEF Passed
<1>5. X \subseteq Q
  BY Zenon DEF Passed
<1>6. P \cap X = {}
  <2> SUFFICES ASSUME NEW n \in X, n \in P PROVE FALSE
    BY Zenon
  <2>1. n \in Int /\ n < w.expected /\ w.ledger[n] # "missing"
    BY SNInt, NatIsInt, Zenon DEF Passed
  <2> QED
    BY <1>0, <2>1
<1> HIDE DEF P, Q, H
<1>7. /\ IsFiniteSet(P) /\ IsFiniteSet(X) /\ IsFiniteSet(Q)
      /\ Cardinality(P) \in Nat /\ Cardinality(X) \in Nat /\ Cardinality(Q) \in Nat
  BY <1>3, SubsetOfSN, Zenon
<1>8. Cardinality(P \cup X) = Cardinality(P) + Cardinality(X) - Cardinality(P \cap X)
  BY <1>7, FS_Union, Zenon
<1>9. Cardinality(P \cap X) = 0
  BY <1>6, FS_EmptySet, Zenon
<1>10. Cardinality(P \cup X) <= Cardinality(Q)
  <2>1. P \cup X \in SUBSET Q
    BY <1>4, <1>5, Zenon
  <2> QED
    BY <1>7, <2>1, FS_Subset, Zenon
<1>11. Cardinality(P) + res.lost <= Cardinality(Q)
  BY <1>0, <1>7, <1>8, <1>9, <1>10
<1> QED
  BY <1>2, <1>11, Zenon DEF Counted, P, Q, H

\* DATA in order, with all it releases, loses nothing.
LEMMA InOrderCounted ==
    ASSUME NEW w, NEW G, Tidy(w, G), NEW sn \in SN, sn = w.expected
    PROVE  Counted(w, G, DeliverChangeToReader(w, sn))
<1> DEFINE res == DeliverChangeToReader(w, sn)
           m == MarkChangeReceived(w, sn)
           v == [m EXCEPT !.expected = @ + 1]
<1>0. w \in Proxy /\ w.expected \in Int /\ sn \in Nat /\ sn >= 1
  BY SNInt, NatIsInt, Zenon DEF Tidy, Separated, Proxy
<1>1. /\ m \in Proxy /\ m.expected = w.expected /\ m.buffered = w.buffered
      /\ IsSettled(m, sn) /\ \A n \in SN \ {sn} : m.ledger[n] = w.ledger[n]
  BY <1>0, MarkType, MarkLedger, Zenon
<1> HIDE DEF m
<1>2. v \in Proxy /\ v.buffered = w.buffered /\ v.ledger = m.ledger
  BY <1>0, <1>1 DEF Proxy
<1>3. res = Result(FlushBufferedChanges(v), {sn} \cup FlushedChanges(v), 0)
  <2>1. res = DeliverInOrder(m, sn)
    BY <1>0, <1>1 DEF DeliverChangeToReader, m
  <2> QED
    BY <2>1, Zenon DEF DeliverInOrder
<1> HIDE DEF v
<1>4. FlushedChanges(v) \subseteq w.buffered /\ w.buffered \subseteq SN
  BY <1>0, <1>2, FlushSeparates, Zenon DEF Proxy
<1>5. /\ FlushBufferedChanges(v).buffered \subseteq w.buffered
      /\ FlushBufferedChanges(v).ledger = m.ledger
  BY <1>2, FlushType, Zenon
<1>6. /\ res.wp.ledger = m.ledger /\ res.wp.buffered \subseteq w.buffered
      /\ res.out \subseteq {sn} \cup w.buffered /\ res.lost = 0
  BY <1>3, <1>4, <1>5 DEF Result
<1>7. SafeResult(w, res)
  BY DataSafe, Zenon DEF Tidy
<1> HIDE DEF res
<1>8. \A n \in w.buffered : IsSettled(res.wp, n)
  BY <1>1, <1>4, <1>6 DEF Tidy, IsSettled
<1>9. \A n \in res.out : res.wp.ledger[n] # "missing"
  BY <1>1, <1>6, <1>8, Zenon DEF IsSettled
<1>10. \A n \in SN : w.ledger[n] # "missing" => res.wp.ledger[n] # "missing"
  BY <1>1, <1>6, Zenon DEF IsSettled
<1>11. res.wp.expected \in Int /\ res.wp.expected >= 1
  BY <1>0, <1>7 DEF SafeResult, Separated, Proxy
<1>12. {} \in SUBSET SN /\ res.lost <= Cardinality({})
  BY <1>6, FS_EmptySet
<1> QED
  BY <1>6, <1>7, <1>8, <1>9, <1>10, <1>11, <1>12, CountedResult, Zenon DEF CursorSet, res

\* DATA behind the cursor is dropped.
LEMMA BehindCounted ==
    ASSUME NEW w, NEW G, Tidy(w, G), NEW sn \in SN, sn < w.expected
    PROVE  Counted(w, G, DeliverChangeToReader(w, sn))
<1> DEFINE res == DeliverChangeToReader(w, sn)
           m == MarkChangeReceived(w, sn)
<1>0. w \in Proxy /\ w.expected \in Int /\ sn \in Nat /\ w.buffered \subseteq SN
  BY SNType, Zenon DEF Tidy, Separated, Proxy
<1>1. /\ m \in Proxy /\ m.expected = w.expected /\ m.buffered = w.buffered
      /\ IsSettled(m, sn) /\ \A n \in SN \ {sn} : m.ledger[n] = w.ledger[n]
  BY <1>0, MarkType, MarkLedger, Zenon
<1> HIDE DEF m
<1>2. res = Result(m, {}, 0)
  BY <1>0, <1>1 DEF DeliverChangeToReader, m
<1>3. res.wp = m /\ res.out = {} /\ res.lost = 0
  BY <1>2 DEF Result
<1>4. SafeResult(w, res)
  BY DataSafe, Zenon DEF Tidy
<1> HIDE DEF res
<1>5. \A n \in w.buffered : IsSettled(m, n)
  BY <1>0, <1>1, Zenon DEF Tidy, IsSettled
<1>6. \A n \in SN : w.ledger[n] # "missing" => m.ledger[n] # "missing"
  BY <1>1, Zenon DEF IsSettled
<1>7. CursorSet(m)
  BY <1>1, Zenon DEF Tidy, CursorSet
<1>8. {} \in SUBSET SN /\ res.lost <= Cardinality({})
  BY <1>3, FS_EmptySet
<1> QED
  BY <1>1, <1>3, <1>4, <1>5, <1>6, <1>7, <1>8, CountedResult, Zenon DEF res

\* DATA ahead of the cursor is buffered; a full buffer gives up what lies between
\* the cursor and its lowest sample, and reports no more than that.
LEMMA AheadCounted ==
    ASSUME NEW w, NEW G, Tidy(w, G), NEW sn \in SN, sn > w.expected
    PROVE  Counted(w, G, DeliverChangeToReader(w, sn))
<1> DEFINE res == DeliverChangeToReader(w, sn)
           m == MarkChangeReceived(w, sn)
           v == [m EXCEPT !.buffered = @ \cup {sn}]
           first == Min(v.buffered)
           d == DropChangesBelow(v, first)
<1>0. /\ w \in Proxy /\ w.expected \in Int /\ sn \in Nat /\ w.buffered \subseteq SN
      /\ \A b \in w.buffered : b \in Int /\ w.expected < b
  BY SNType, BufferedAbove, Zenon DEF Tidy, Separated, Proxy
<1>1. /\ m \in Proxy /\ m.expected = w.expected /\ m.buffered = w.buffered
      /\ IsSettled(m, sn) /\ \A n \in SN \ {sn} : m.ledger[n] = w.ledger[n]
  BY <1>0, MarkType, MarkLedger, Zenon
<1> HIDE DEF m
<1>2. /\ v \in Proxy /\ v.buffered = w.buffered \cup {sn}
      /\ v.expected = w.expected /\ v.ledger = m.ledger
  BY <1>0, <1>1, Zenon DEF Proxy
<1>3. res = GiveUpOldestHoleIfFull(v)
  BY <1>0, <1>1 DEF DeliverChangeToReader, m
<1> HIDE DEF v
<1>4. SafeResult(w, res)
  BY DataSafe, Zenon DEF Tidy
<1>5. \A n \in v.buffered : IsSettled(v, n)
  BY <1>0, <1>1, <1>2, Zenon DEF Tidy, IsSettled
<1>6. \A n \in SN : w.ledger[n] # "missing" => v.ledger[n] # "missing"
  BY <1>1, <1>2, Zenon DEF IsSettled
<1>7. CASE Cardinality(v.buffered) < InOrderBuffer
  <2>1. res = Result(v, {}, 0)
    BY <1>3, <1>7, Zenon DEF GiveUpOldestHoleIfFull
  <2>2. res.wp = v /\ res.out = {} /\ res.lost = 0
    BY <2>1 DEF Result
  <2>3. CursorSet(v)
    BY <1>2, Zenon DEF Tidy, CursorSet
  <2>4. {} \in SUBSET SN /\ res.lost <= Cardinality({})
    BY <2>2, FS_EmptySet
  <2> HIDE DEF res
  <2> QED
    BY <1>4, <1>5, <1>6, <2>2, <2>3, <2>4, CountedResult, Zenon DEF res
<1>8. CASE ~(Cardinality(v.buffered) < InOrderBuffer)
  <2>1. res = FlushResult(d, AbandonedSamples(v, first))
    BY <1>3, <1>8, Zenon DEF GiveUpOldestHoleIfFull
  <2>2. first \in v.buffered /\ \A y \in v.buffered : first <= y
    <3>1. v.buffered \in SUBSET Nat /\ v.buffered # {}
      BY <1>0, <1>2, SNType, Zenon
    <3> QED
      BY <3>1, MinNat, Zenon
  <2>3. first \in SN /\ first \in Nat /\ first > w.expected
    BY <1>0, <1>2, <2>2, SNType, Zenon
  <2> HIDE DEF first
  <2>4. /\ d \in Proxy /\ d.buffered = v.buffered /\ d.expected = first
        /\ \A n \in SN : d.ledger[n] = IF n < first THEN "none" ELSE v.ledger[n]
    <3>1. LargerOf(v.expected, first) = first
      BY <1>0, <1>2, <2>3 DEF LargerOf
    <3>2. first \in Int
      BY <2>3
    <3>3. d \in Proxy /\ d.buffered = v.buffered /\ d.expected = first
      BY <1>2, <3>1, <3>2, DropType, Zenon
    <3>4. \A n \in SN : d.ledger[n] = IF n < first THEN "none" ELSE v.ledger[n]
      BY <1>2, <3>2, DropLedger, Zenon
    <3> QED
      BY <3>3, <3>4, Zenon
  <2> HIDE DEF d
  <2>5. /\ FlushedChanges(d) \subseteq v.buffered
        /\ FlushBufferedChanges(d) \in Proxy
        /\ FlushBufferedChanges(d).buffered \subseteq v.buffered
        /\ FlushBufferedChanges(d).ledger = d.ledger
        /\ FlushBufferedChanges(d).expected >= first
    BY <2>3, <2>4, FlushSeparates, FlushType
  <2>6. /\ res.wp = FlushBufferedChanges(d) /\ res.out = FlushedChanges(d)
        /\ res.lost = AbandonedSamples(v, first)
    BY <2>1 DEF FlushResult, Result
  <2> HIDE DEF res
  <2>7. /\ res.wp \in Proxy /\ res.wp.expected \in Int /\ res.wp.expected >= first
        /\ \A n \in SN : res.wp.ledger[n] = IF n < first THEN "none" ELSE v.ledger[n]
        /\ res.wp.buffered \subseteq v.buffered /\ res.out \subseteq v.buffered
        /\ v.buffered \subseteq SN
    BY <1>0, <1>2, <2>4, <2>5, <2>6 DEF Proxy
  <2>8. \A n \in v.buffered : n \in Int /\ ~(n < first) /\ IsSettled(res.wp, n)
    <3> SUFFICES ASSUME NEW n \in v.buffered
                 PROVE  n \in Int /\ ~(n < first) /\ IsSettled(res.wp, n)
      BY Zenon
    <3>1. n \in SN /\ n \in Int /\ first <= n /\ IsSettled(v, n)
      BY <1>5, <2>2, <2>7, SNInt, Zenon
    <3> QED
      BY <2>3, <2>7, <3>1 DEF IsSettled
  <2>9. \A n \in res.out : res.wp.ledger[n] # "missing"
    BY <2>7, <2>8, Zenon DEF IsSettled
  <2>10. \A n \in SN : w.ledger[n] # "missing" => res.wp.ledger[n] # "missing"
    BY <1>6, <2>7, Zenon
  <2>11. CursorSet(res.wp)
    BY <2>3, <2>7, SNType DEF CursorSet
  <2>12. CASE w.expected = Unknown
    <3>1. res.lost = 0
      BY <1>2, <2>6, <2>12, Zenon DEF AbandonedSamples
    <3>2. {} \in SUBSET SN /\ res.lost <= Cardinality({})
      BY <3>1, FS_EmptySet
    <3> QED
      BY <1>4, <2>7, <2>8, <2>9, <2>10, <2>11, <3>2, CountedResult, Zenon DEF res
  <2>13. CASE w.expected # Unknown
    <3> DEFINE X == w.expected..(first - 1)
               I == {n \in SN : n \in v.expected..(first - 1) /\ v.ledger[n] = "irrelevant"}
    <3>1. w.expected >= 1
      BY <2>13, Zenon DEF Tidy, CursorSet
    <3>2. X \in SUBSET SN
      BY <1>0, <2>3, <3>1, ProxyAssumption DEF SN
    <3>3. Cardinality(X) = first - w.expected
      <4>1. ~(w.expected > first - 1)
        BY <1>0, <2>3
      <4>2. first - 1 \in Int /\ (first - 1) - w.expected + 1 = first - w.expected
        BY <1>0, <2>3
      <4> QED
        BY <1>0, <4>1, <4>2, FS_Interval, Zenon
    <3>4. Cardinality(I) \in Nat
      BY SubsetOfSN, Zenon
    <3>5. res.lost = LargerOf(0, (first - v.expected) - Cardinality(I))
      BY <1>2, <2>6, <2>13, Zenon DEF AbandonedSamples
    <3>6. res.lost <= Cardinality(X)
      <4> HIDE DEF I, X
      <4> QED
        BY <1>0, <1>2, <2>3, <3>3, <3>4, <3>5 DEF LargerOf
    <3>7. ASSUME NEW n \in X
          PROVE  /\ n < res.wp.expected /\ res.wp.ledger[n] # "missing"
                 /\ n \notin G /\ n \notin res.out /\ w.expected <= n
      <4>1. n \in SN /\ n \in Int /\ n < first /\ w.expected <= n
        BY <1>0, <2>3, <3>2
      <4>2. n < res.wp.expected /\ res.wp.ledger[n] = "none"
        BY <2>3, <2>7, <4>1
      <4>3. n \notin G
        BY <1>0, <4>1 DEF Tidy
      <4>4. n \notin res.out
        BY <2>7, <2>8, <4>1, Zenon
      <4> QED
        BY <4>1, <4>2, <4>3, <4>4, Zenon
    <3> HIDE DEF X
    <3> QED
      BY <1>4, <2>7, <2>8, <2>9, <2>10, <2>11, <3>2, <3>6, <3>7, CountedResult, Zenon DEF res
  <2> QED
    BY <2>12, <2>13, Zenon
<1> QED
  BY <1>7, <1>8, Zenon

\* DATA, wherever it falls.
LEMMA DataCounted ==
    ASSUME NEW w, NEW G, Tidy(w, G), NEW sn \in SN
    PROVE  Counted(w, G, DeliverChangeToReader(w, sn))
<1>1. w.expected \in Int /\ sn \in Int
  BY SNInt, NatIsInt, Zenon DEF Tidy, Separated, Proxy
<1> QED
  BY <1>1, InOrderCounted, AheadCounted, BehindCounted

\* HEARTBEAT: lost_changes_update reports what was outstanding below the range, and
\* the ledger forgets it.
LEMMA HeartbeatCounted ==
    ASSUME NEW w, NEW G, Tidy(w, G), NEW first \in Nat \ {0}, NEW last \in Nat
    PROVE  Counted(w, G, HeartbeatHandler(w, first, last))
<1> DEFINE res == HeartbeatHandler(w, first, last)
           p == ProcessHeartbeat(w, first, last)
           X == {n \in SN : n < first /\ w.ledger[n] = "missing"}
<1>0. w \in Proxy /\ w.expected \in Int /\ w.buffered \subseteq SN /\ first \in Nat
  BY Zenon DEF Tidy, Separated, Proxy
<1>1. /\ p \in Proxy /\ p.buffered = w.buffered /\ p.expected \in Int
      /\ p.expected = LargerOf(w.expected, first)
  BY <1>0, ProcessHeartbeatType
<1>2. p.expected >= first /\ p.expected >= w.expected
  <2> HIDE DEF p
  <2> QED
    BY <1>0, <1>1 DEF LargerOf
<1>3. ASSUME NEW n \in SN
      PROVE  /\ n < first => p.ledger[n] = "none"
             /\ first <= n /\ w.ledger[n] # "none" => p.ledger[n] = w.ledger[n]
             /\ n < w.expected => p.ledger[n] \in {"none", w.ledger[n]}
  <2>1. /\ n < first => p.ledger[n] = "none"
        /\ first <= n /\ w.ledger[n] # "none" => p.ledger[n] = w.ledger[n]
        /\ first <= n /\ w.ledger[n] = "none" =>
             p.ledger[n] = IF p.expected <= n /\ n <= last THEN "missing" ELSE "none"
    BY <1>0, <1>1, HeartbeatLedger
  <2>2. n \in Int
    BY SNInt, NatIsInt, Zenon
  <2> HIDE DEF p
  <2> QED
    BY <1>0, <1>1, <1>2, <2>1, <2>2
<1>4. res = FlushResult(p, LostChanges(w, first))
  BY Zenon DEF HeartbeatHandler
<1> HIDE DEF p
<1>5. /\ FlushedChanges(p) \subseteq w.buffered
      /\ FlushBufferedChanges(p) \in Proxy
      /\ FlushBufferedChanges(p).buffered \subseteq w.buffered
      /\ FlushBufferedChanges(p).ledger = p.ledger
      /\ FlushBufferedChanges(p).expected \in Int
      /\ FlushBufferedChanges(p).expected >= first
  BY <1>0, <1>1, <1>2, FlushSeparates, FlushType
<1>6. /\ res.wp = FlushBufferedChanges(p) /\ res.out = FlushedChanges(p)
      /\ res.lost = Cardinality(X)
  BY <1>4 DEF FlushResult, Result, LostChanges
<1>7. SafeResult(w, res)
  BY HeartbeatSafe, Zenon DEF Tidy
<1> HIDE DEF res
<1>8. CursorSet(res.wp)
  BY <1>0, <1>5, <1>6 DEF CursorSet
<1>9. ASSUME NEW n \in w.buffered
      PROVE  res.wp.ledger[n] # "missing" /\ (first <= n => IsSettled(res.wp, n))
  <2>1. n \in SN /\ IsSettled(w, n)
    BY <1>0, Zenon DEF Tidy
  <2>a. n \in Int
    BY <2>1, SNInt, NatIsInt, Zenon
  <2>2. n < first \/ first <= n
    BY <1>0, <2>a
  <2> QED
    BY <1>3, <1>5, <1>6, <2>1, <2>2, Zenon DEF IsSettled
<1>10. \A n \in res.wp.buffered : IsSettled(res.wp, n)
  <2> SUFFICES ASSUME NEW n \in res.wp.buffered PROVE IsSettled(res.wp, n)
    BY Zenon
  <2>1. n \in w.buffered /\ n \in Int /\ res.wp.expected < n
    BY <1>5, <1>6, <1>7, BufferedAbove, Zenon DEF SafeResult
  <2>2. first <= n
    BY <1>0, <1>5, <1>6, <2>1
  <2> QED
    BY <1>9, <2>1, <2>2
<1>11. \A n \in res.out : res.wp.ledger[n] # "missing"
  BY <1>5, <1>6, <1>9, Zenon
<1>12. \A n \in SN : n < w.expected /\ w.ledger[n] # "missing" => res.wp.ledger[n] # "missing"
  BY <1>3, <1>5, <1>6, Zenon
<1>13. ASSUME NEW n \in X
       PROVE  /\ n < res.wp.expected /\ res.wp.ledger[n] # "missing"
              /\ n \notin G /\ n \notin res.out /\ w.ledger[n] = "missing"
  <2>1. n \in SN /\ n < first /\ w.ledger[n] = "missing"
    BY Zenon
  <2>a. n \in Int
    BY <2>1, SNInt, NatIsInt, Zenon
  <2>2. n \notin G /\ n \notin w.buffered
    BY <2>1, Zenon DEF Tidy, IsSettled
  <2> QED
    BY <1>0, <1>3, <1>5, <1>6, <2>1, <2>a, <2>2
<1>14. X \in SUBSET SN /\ Cardinality(X) \in Nat
  BY SubsetOfSN, Zenon
<1> HIDE DEF X
<1> QED
  BY <1>6, <1>7, <1>8, <1>10, <1>11, <1>12, <1>13, <1>14, CountedResult DEF res

\* GAP: nothing irrelevant is reported as lost.
LEMMA GapCounted ==
    ASSUME NEW w, NEW G, Tidy(w, G), NEW sns \in SUBSET SN, sns # {}
    PROVE  Counted(w, G, GapHandler(w, sns))
<1> DEFINE res == GapHandler(w, sns)
           last == Max(sns)
           j == [w EXCEPT !.expected = last + 1]
<1>0. w \in Proxy /\ w.expected \in Int /\ w.buffered \subseteq SN
  BY Zenon DEF Tidy, Separated, Proxy
<1>1. last \in SN /\ last \in Nat /\ last >= 1
  <2>1. last \in SN
    BY MaxSNs, Zenon
  <2> HIDE DEF last
  <2> QED
    BY <2>1, SNInt, NatIsInt, Zenon
<1>2. SafeResult(w, res)
  BY GapSafe, Zenon DEF Tidy
<1>3. /\ CursorSet(res.wp) /\ res.out \subseteq w.buffered /\ res.wp.buffered \subseteq w.buffered
      /\ res.lost = 0
      /\ \A n \in SN : res.wp.ledger[n] = IF n \in sns THEN "irrelevant" ELSE w.ledger[n]
  <2>1. CASE last >= w.expected
    <3> HIDE DEF last
    <3>1. j \in Proxy /\ j.expected = last + 1 /\ j.buffered = w.buffered /\ j.ledger = w.ledger
      BY <1>0, <1>1 DEF Proxy
    <3> HIDE DEF j
    <3>2. /\ FlushedChanges(j) \subseteq w.buffered
          /\ FlushBufferedChanges(j) \in Proxy
          /\ FlushBufferedChanges(j).buffered \subseteq w.buffered
          /\ FlushBufferedChanges(j).ledger = w.ledger
          /\ FlushBufferedChanges(j).expected \in Int
          /\ FlushBufferedChanges(j).expected >= 1
      BY <1>1, <3>1, FlushSeparates, FlushType
    <3> DEFINE f == FlushBufferedChanges(j)
    <3>3. res = Result(IrrelevantChangeSet(f, sns), FlushedChanges(j), 0)
      BY <2>1, Zenon DEF GapHandler, last, j
    <3> HIDE DEF f
    <3>4. /\ IrrelevantChangeSet(f, sns).expected = f.expected
          /\ IrrelevantChangeSet(f, sns).buffered = f.buffered
          /\ \A n \in SN : IrrelevantChangeSet(f, sns).ledger[n]
                           = IF n \in sns THEN "irrelevant" ELSE f.ledger[n]
      BY <3>2, IrrelevantType, IrrelevantLedger, Zenon DEF f
    <3>5. /\ res.wp = IrrelevantChangeSet(f, sns) /\ res.out = FlushedChanges(j) /\ res.lost = 0
      BY <3>3 DEF Result
    <3> HIDE DEF res
    <3> QED
      BY <3>2, <3>4, <3>5, Zenon DEF CursorSet, f
  <2>2. CASE ~(last >= w.expected)
    <3>1. res = Result(IrrelevantChangeSet(w, sns), {}, 0)
      BY <2>2, Zenon DEF GapHandler
    <3>2. res.wp = IrrelevantChangeSet(w, sns) /\ res.out = {} /\ res.lost = 0
      BY <3>1 DEF Result
    <3>3. CursorSet(IrrelevantChangeSet(w, sns))
      BY <1>0, IrrelevantType, Zenon DEF Tidy, CursorSet
    <3> HIDE DEF res
    <3> QED
      BY <1>0, <3>2, <3>3, IrrelevantType, IrrelevantLedger
  <2> QED
    BY <2>1, <2>2, Zenon
<1> HIDE DEF res
<1>4. \A n \in w.buffered : IsSettled(res.wp, n)
  BY <1>0, <1>3, Zenon DEF Tidy, IsSettled
<1>5. \A n \in res.out : res.wp.ledger[n] # "missing"
  BY <1>3, <1>4, Zenon DEF IsSettled
<1>6. \A n \in SN : w.ledger[n] # "missing" => res.wp.ledger[n] # "missing"
  BY <1>3, Zenon
<1>7. {} \in SUBSET SN /\ res.lost <= Cardinality({})
  BY <1>3, FS_EmptySet
<1> QED
  BY <1>2, <1>3, <1>4, <1>5, <1>6, <1>7, CountedResult, Zenon DEF res

----------------------------------------------------------------------------
(* The handlers and what the cursor passes *)

\* A number the reader has passed or has an entry for.
Knows(w, n) == n < w.expected \/ w.ledger[n] # "none"

\* The cursor has passed only numbers up to L, which are irrelevant to the reader,
\* and samples in G, which it was given; what arrived ahead of the cursor is buffered.
Faithful(w, G, L) ==
    /\ \A n \in SN : n < w.expected => n <= L \/ n \in G
    /\ \A n \in SN : IsSettled(w, n) /\ w.expected <= n => n \in w.buffered
    /\ \A n \in w.buffered : n > L

\* A flush that starts at or below every buffered sample releases one run of samples,
\* without a hole.
LEMMA FlushedRun ==
    ASSUME NEW v \in Proxy, \A b \in v.buffered : v.expected <= b, NEW n \in Int,
           v.expected <= n, n < v.expected + Cardinality(FlushedChanges(v))
    PROVE  n \in FlushedChanges(v)
<1> DEFINE F == FlushedChanges(v)
           k == Cardinality(F)
           I == v.expected..(v.expected + k - 1)
<1>1. /\ F \subseteq v.buffered /\ k \in Nat
      /\ \A c \in F : c < v.expected + k
  BY FlushSeparates, Zenon
<1>2. v.expected \in Int /\ \A c \in F : c \in Int /\ v.expected <= c
  <2>1. v.expected \in Int /\ v.buffered \subseteq SN
    BY Zenon DEF Proxy
  <2>2. ASSUME NEW c \in F PROVE c \in Int /\ v.expected <= c
    <3>1. c \in v.buffered
      BY <1>1, Zenon
    <3>2. c \in SN
      BY <2>1, <3>1, Zenon
    <3> QED
      BY <3>1, <3>2, SNInt, NatIsInt, Zenon
  <2> QED
    BY <2>1, <2>2, Zenon
<1> HIDE DEF F, k
<1>3. F \in SUBSET I
  BY <1>1, <1>2
<1>4. IsFiniteSet(I) /\ Cardinality(I) = k
  <2>1. v.expected + k - 1 \in Int
    BY <1>1, <1>2
  <2>2. /\ v.expected > v.expected + k - 1 => k = 0
        /\ (v.expected + k - 1) - v.expected + 1 = k
    BY <1>1, <1>2
  <2>3. /\ IsFiniteSet(I)
        /\ Cardinality(I) = IF v.expected > v.expected + k - 1 THEN 0
                            ELSE (v.expected + k - 1) - v.expected + 1
    BY <1>2, <2>1, FS_Interval, Zenon
  <2> HIDE DEF I
  <2> QED
    BY <2>2, <2>3, Zenon
<1>5. F = I
  <2> HIDE DEF I
  <2> QED
    BY <1>3, <1>4, FS_Subset, Zenon DEF k
<1>6. n \in I
  BY <1>1, <1>2 DEF k, F
<1> QED
  BY <1>5, <1>6, Zenon DEF F

\* A flush that starts at or below every buffered sample passes only what it releases.
LEMMA FlushFaithful ==
    ASSUME NEW v \in Proxy, NEW G, NEW L \in Int, Faithful(v, G, L),
           \A b \in v.buffered : v.expected <= b
    PROVE  Faithful(FlushBufferedChanges(v), G \cup FlushedChanges(v), L)
<1> DEFINE F == FlushedChanges(v)
           f == FlushBufferedChanges(v)
<1>1. /\ F \subseteq v.buffered /\ Cardinality(F) \in Nat
      /\ \A c \in F : c < v.expected + Cardinality(F)
  BY FlushSeparates, Zenon
<1>2. /\ f \in Proxy /\ f.expected = v.expected + Cardinality(F)
      /\ f.buffered = v.buffered \ F /\ f.ledger = v.ledger
  BY FlushType, Zenon
<1>3. v.expected \in Int
  BY Zenon DEF Proxy
<1>4. ASSUME NEW n \in SN, n < f.expected PROVE n <= L \/ n \in G \cup F
  <2>1. n \in Int
    BY SNInt, Zenon
  <2>2. CASE n < v.expected
    BY <2>2, Zenon DEF Faithful
  <2>3. CASE ~(n < v.expected)
    <3>1. v.expected <= n /\ n < v.expected + Cardinality(F)
      BY <1>2, <1>3, <1>4, <2>1, <2>3
    <3> QED
      BY <2>1, <3>1, FlushedRun, Zenon
  <2> QED
    BY <2>2, <2>3, Zenon
<1> HIDE DEF F, f
<1>5. ASSUME NEW n \in SN, IsSettled(f, n), f.expected <= n PROVE n \in f.buffered
  <2>1. n \in Int /\ v.expected <= n
    <3>1. n \in Int
      BY SNInt, Zenon
    <3> QED
      BY <1>1, <1>2, <1>3, <1>5, <3>1
  <2>2. n \in v.buffered
    BY <1>2, <1>5, <2>1, Zenon DEF Faithful, IsSettled
  <2>3. n \notin F
    BY <1>1, <1>2, <1>3, <1>5, <2>1
  <2> QED
    BY <1>2, <2>2, <2>3, Zenon
<1>6. \A n \in f.buffered : n > L
  BY <1>2, Zenon DEF Faithful
<1> QED
  BY <1>4, <1>5, <1>6, Zenon DEF Faithful, F, f

\* DATA, with room left in the buffer: the cursor passes it when all before it were
\* passed.
LEMMA DataFaithful ==
    ASSUME NEW w, Separated(w), NEW G, NEW L \in Int, Faithful(w, G, L),
           NEW sn \in SN, sn > L, Cardinality(w.buffered) + 1 < InOrderBuffer
    PROVE  LET res == DeliverChangeToReader(w, sn)
           IN  Faithful(res.wp, G \cup res.out, L)
<1> DEFINE res == DeliverChangeToReader(w, sn)
           m == MarkChangeReceived(w, sn)
<1>0. /\ w \in Proxy /\ w.expected \in Int /\ sn \in Int /\ w.buffered \subseteq SN
      /\ \A b \in w.buffered : b \in Int /\ w.expected < b
  BY SNInt, NatIsInt, BufferedAbove, Zenon DEF Separated, Proxy
<1>1. /\ m \in Proxy /\ m.expected = w.expected /\ m.buffered = w.buffered
      /\ \A n \in SN \ {sn} : m.ledger[n] = w.ledger[n]
  BY <1>0, MarkType, MarkLedger, Zenon
<1> HIDE DEF m
<1>2. CASE sn = w.expected
  <2> DEFINE v == [m EXCEPT !.expected = @ + 1]
  <2>1. v \in Proxy /\ v.expected = sn + 1 /\ v.buffered = w.buffered /\ v.ledger = m.ledger
    BY <1>0, <1>1, <1>2 DEF Proxy
  <2>2. res = DeliverInOrder(m, sn)
    BY <1>0, <1>1, <1>2 DEF DeliverChangeToReader, m
  <2>3. /\ res.wp = FlushBufferedChanges(v)
        /\ G \cup res.out = (G \cup {sn}) \cup FlushedChanges(v)
    BY <2>2 DEF DeliverInOrder, Result
  <2> HIDE DEF v
  <2>4. Faithful(v, G \cup {sn}, L)
    <3>1. ASSUME NEW n \in SN, n < v.expected PROVE n <= L \/ n \in G \cup {sn}
      <4>1. n = sn \/ n < w.expected
        <5>1. n \in Int
          BY SNInt, Zenon
        <5>2. v.expected = sn + 1
          BY <2>1, Zenon
        <5> QED
          BY <1>0, <1>2, <3>1, <5>1, <5>2
      <4> QED
        BY <4>1, Zenon DEF Faithful
    <3>2. ASSUME NEW n \in SN, IsSettled(v, n), v.expected <= n PROVE n \in v.buffered
      <4>1. n # sn /\ w.expected <= n
        <5>1. n \in Int
          BY SNInt, Zenon
        <5> QED
          BY <1>0, <1>2, <2>1, <3>2, <5>1
      <4>2. IsSettled(w, n)
        BY <1>1, <2>1, <3>2, <4>1, Zenon DEF IsSettled
      <4> QED
        BY <2>1, <4>1, <4>2, Zenon DEF Faithful
    <3> QED
      BY <2>1, <3>1, <3>2, Zenon DEF Faithful
  <2>5. \A b \in v.buffered : v.expected <= b
    BY <1>0, <1>2, <2>1
  <2> QED
    BY <2>1, <2>3, <2>4, <2>5, FlushFaithful
<1>3. CASE sn > w.expected
  <2> DEFINE v == [m EXCEPT !.buffered = @ \cup {sn}]
  <2>1. /\ v \in Proxy /\ v.expected = w.expected /\ v.buffered = w.buffered \cup {sn}
        /\ v.ledger = m.ledger
    BY <1>0, <1>1, Zenon DEF Proxy
  <2>2. res = GiveUpOldestHoleIfFull(v)
    BY <1>0, <1>1, <1>3 DEF DeliverChangeToReader, m
  <2> HIDE DEF v
  <2>3. Cardinality(v.buffered) < InOrderBuffer
    <3>1. IsFiniteSet(w.buffered) /\ Cardinality(w.buffered) \in Nat
      BY <1>0, SubsetOfSN, Zenon
    <3>2. Cardinality(v.buffered) \in {Cardinality(w.buffered), Cardinality(w.buffered) + 1}
      BY <2>1, <3>1, FS_AddElement, Zenon
    <3> QED
      BY <3>1, <3>2, ProxyAssumption
  <2>4. res = Result(v, {}, 0)
    BY <2>2, <2>3, Zenon DEF GiveUpOldestHoleIfFull
  <2>5. res.wp = v /\ G \cup res.out = G
    BY <2>4 DEF Result
  <2>6. ASSUME NEW n \in SN, IsSettled(v, n), v.expected <= n PROVE n \in v.buffered
    <3>1. n # sn => IsSettled(w, n)
      BY <1>1, <2>1, <2>6, Zenon DEF IsSettled
    <3> QED
      BY <2>1, <2>6, <3>1, Zenon DEF Faithful
  <2>7. Faithful(v, G, L)
    BY <2>1, <2>6, Zenon DEF Faithful
  <2> QED
    BY <2>5, <2>7, Zenon
<1>4. CASE sn < w.expected
  <2>1. res = Result(m, {}, 0)
    BY <1>0, <1>1, <1>4 DEF DeliverChangeToReader, m
  <2>2. res.wp = m /\ G \cup res.out = G
    BY <2>1 DEF Result
  <2>3. ASSUME NEW n \in SN, IsSettled(m, n), m.expected <= n PROVE n \in m.buffered
    <3>1. n # sn
      BY <1>0, <1>1, <1>4, <2>3
    <3>2. IsSettled(w, n)
      BY <1>1, <2>3, <3>1, Zenon DEF IsSettled
    <3> QED
      BY <1>1, <2>3, <3>2, Zenon DEF Faithful
  <2>4. Faithful(m, G, L)
    BY <1>1, <2>3, Zenon DEF Faithful
  <2> QED
    BY <2>2, <2>4, Zenon
<1> QED
  BY <1>0, <1>2, <1>3, <1>4

\* HEARTBEAT whose range starts no higher than the cursor or the first number that
\* is relevant to the reader.
LEMMA HeartbeatFaithful ==
    ASSUME NEW w, Separated(w), NEW G, NEW L \in Int, Faithful(w, G, L),
           NEW first \in Nat, NEW last \in Nat, first <= L + 1 \/ first <= w.expected
    PROVE  LET res == HeartbeatHandler(w, first, last)
           IN  Faithful(res.wp, G \cup res.out, L)
<1> DEFINE p == ProcessHeartbeat(w, first, last)
<1>0. /\ w \in Proxy /\ w.expected \in Int /\ w.buffered \subseteq SN
      /\ \A b \in w.buffered : b \in Int /\ w.expected < b
  BY BufferedAbove, Zenon DEF Separated, Proxy
<1>1. /\ p \in Proxy /\ p.buffered = w.buffered /\ p.expected \in Int
      /\ p.expected = LargerOf(w.expected, first)
  BY <1>0, ProcessHeartbeatType
<1>2. ASSUME NEW n \in SN, IsSettled(p, n) PROVE IsSettled(w, n)
  <2>1. /\ n < first => p.ledger[n] = "none"
        /\ first <= n /\ w.ledger[n] # "none" => p.ledger[n] = w.ledger[n]
        /\ first <= n /\ w.ledger[n] = "none" => p.ledger[n] \in {"missing", "none"}
    BY <1>0, HeartbeatLedger
  <2>2. n \in Int
    BY SNInt, NatIsInt, Zenon
  <2> HIDE DEF p
  <2> QED
    BY <1>2, <2>1, <2>2 DEF IsSettled
<1> HIDE DEF p
<1>3. /\ p.expected >= w.expected /\ p.expected >= first
      /\ p.expected = w.expected \/ p.expected = first
  BY <1>0, <1>1 DEF LargerOf
<1>4. ASSUME NEW n \in SN, n < p.expected PROVE n <= L \/ n \in G
  <2>1. n \in Int
    BY SNInt, NatIsInt, Zenon
  <2>2. CASE n < w.expected
    BY <2>2, Zenon DEF Faithful
  <2>3. CASE ~(n < w.expected)
    BY <1>0, <1>3, <1>4, <2>1, <2>3
  <2> QED
    BY <2>2, <2>3, Zenon
<1>5. ASSUME NEW n \in SN, IsSettled(p, n), p.expected <= n PROVE n \in p.buffered
  <2>1. n \in Int /\ w.expected <= n
    <3>1. n \in Int
      BY SNInt, Zenon
    <3> QED
      BY <1>0, <1>1, <1>3, <1>5, <3>1
  <2> QED
    BY <1>1, <1>2, <1>5, <2>1, Zenon DEF Faithful
<1>6. \A b \in p.buffered : p.expected <= b
  <2> SUFFICES ASSUME NEW b \in w.buffered PROVE p.expected <= b
    BY <1>1, Zenon
  <2>1. b \in Int /\ w.expected < b /\ b > L
    BY <1>0, Zenon DEF Faithful
  <2> QED
    BY <1>0, <1>1, <1>3, <2>1
<1>7. Faithful(p, G, L)
  BY <1>1, <1>4, <1>5, Zenon DEF Faithful
<1>8. Faithful(FlushBufferedChanges(p), G \cup FlushedChanges(p), L)
  BY <1>1, <1>6, <1>7, FlushFaithful, Zenon
<1> QED
  BY <1>8, Zenon DEF HeartbeatHandler, FlushResult, Result, p

\* GAP over numbers that are irrelevant to the reader or behind its cursor.
LEMMA GapFaithful ==
    ASSUME NEW w, Separated(w), NEW G, NEW L \in Int, Faithful(w, G, L),
           NEW sns \in SUBSET SN, sns # {}, \A n \in sns : n <= L \/ n < w.expected
    PROVE  LET res == GapHandler(w, sns)
           IN  Faithful(res.wp, G \cup res.out, L)
<1> DEFINE res == GapHandler(w, sns)
           last == Max(sns)
           j == [w EXCEPT !.expected = last + 1]
<1>0. /\ w \in Proxy /\ w.expected \in Int /\ w.buffered \subseteq SN
      /\ \A b \in w.buffered : b \in Int /\ w.expected < b
  BY BufferedAbove, Zenon DEF Separated, Proxy
<1>1. last \in sns /\ \A n \in sns : last >= n
  BY MaxSNs, Zenon
<1>2. last \in Int /\ \A n \in SN : n \in Int
  <2> HIDE DEF last
  <2> QED
    BY <1>1, SNInt, NatIsInt, Zenon
<1>3. CASE last >= w.expected
  <2> DEFINE f == FlushBufferedChanges(j)
  <2>1. res = Result(IrrelevantChangeSet(f, sns), FlushedChanges(j), 0)
    BY <1>3, Zenon DEF GapHandler
  <2>2. res.wp = IrrelevantChangeSet(f, sns) /\ res.out = FlushedChanges(j)
    BY <2>1 DEF Result
  <2> HIDE DEF last
  <2>3. j \in Proxy /\ j.expected = last + 1 /\ j.buffered = w.buffered /\ j.ledger = w.ledger
    BY <1>0, <1>2 DEF Proxy
  <2> HIDE DEF j, res
  <2>4. last <= L
    BY <1>0, <1>1, <1>2, <1>3
  <2>5. \A b \in j.buffered : j.expected <= b
    BY <1>0, <1>2, <2>3, <2>4 DEF Faithful
  <2>6. Faithful(j, G, L)
    <3>1. \A n \in SN : n < j.expected => n <= L
      BY <1>2, <2>3, <2>4
    <3>2. ASSUME NEW n \in SN, IsSettled(j, n), j.expected <= n PROVE n \in j.buffered
      <4>1. w.expected <= n
        BY <1>0, <1>2, <1>3, <2>3, <3>2
      <4> QED
        BY <2>3, <3>2, <4>1, Zenon DEF Faithful, IsSettled
    <3> QED
      BY <2>3, <3>1, <3>2, Zenon DEF Faithful
  <2>7. Faithful(f, G \cup FlushedChanges(j), L)
    BY <2>3, <2>5, <2>6, FlushFaithful, Zenon
  <2>8. f \in Proxy /\ f.expected \in Int /\ f.expected >= last + 1
    BY <1>2, <2>3, FlushType, FlushSeparates
  <2> HIDE DEF f
  <2>9. /\ res.wp.expected = f.expected /\ res.wp.buffered = f.buffered
        /\ \A n \in SN : res.wp.ledger[n] = IF n \in sns THEN "irrelevant" ELSE f.ledger[n]
    BY <2>2, <2>8, IrrelevantType, IrrelevantLedger
  <2>10. ASSUME NEW n \in SN, IsSettled(res.wp, n), res.wp.expected <= n
         PROVE  n \in res.wp.buffered
    <3>1. n \notin sns
      BY <1>1, <1>2, <2>8, <2>9, <2>10
    <3> QED
      BY <2>7, <2>9, <2>10, <3>1, Zenon DEF Faithful, IsSettled
  <2> QED
    BY <2>2, <2>7, <2>9, <2>10, Zenon DEF Faithful, res
<1>4. CASE ~(last >= w.expected)
  <2>1. res = Result(IrrelevantChangeSet(w, sns), {}, 0)
    BY <1>4, Zenon DEF GapHandler
  <2>2. res.wp = IrrelevantChangeSet(w, sns) /\ G \cup res.out = G
    BY <2>1 DEF Result
  <2> HIDE DEF last, res
  <2>3. /\ res.wp.expected = w.expected /\ res.wp.buffered = w.buffered
        /\ \A n \in SN : res.wp.ledger[n] = IF n \in sns THEN "irrelevant" ELSE w.ledger[n]
    BY <1>0, <2>2, IrrelevantType, IrrelevantLedger
  <2>4. ASSUME NEW n \in SN, IsSettled(res.wp, n), res.wp.expected <= n
        PROVE  n \in res.wp.buffered
    <3>1. n \notin sns
      BY <1>0, <1>1, <1>2, <1>4, <2>3, <2>4
    <3> QED
      BY <2>3, <2>4, <3>1, Zenon DEF Faithful, IsSettled
  <2> QED
    BY <2>2, <2>3, <2>4, Zenon DEF Faithful, res
<1> QED
  BY <1>3, <1>4, Zenon

\* What a reader knows of it does not forget, and new entries are of the sample.
LEMMA DataKnows ==
    ASSUME NEW w, Separated(w), NEW sn \in SN, NEW n \in SN
    PROVE  LET res == DeliverChangeToReader(w, sn)
           IN  /\ Knows(w, n) => Knows(res.wp, n)
               /\ res.wp.ledger[n] # "none" => n = sn \/ w.ledger[n] # "none"
<1> DEFINE res == DeliverChangeToReader(w, sn)
           m == MarkChangeReceived(w, sn)
<1>0. /\ w \in Proxy /\ w.expected \in Int /\ sn \in Int /\ n \in Int /\ w.buffered \subseteq SN
  BY SNInt, NatIsInt, Zenon DEF Separated, Proxy
<1>1. /\ m \in Proxy /\ m.expected = w.expected /\ m.buffered = w.buffered
      /\ IsSettled(m, sn) /\ \A k \in SN \ {sn} : m.ledger[k] = w.ledger[k]
  BY <1>0, MarkType, MarkLedger, Zenon
<1> HIDE DEF m
<1>2. w.expected <= res.wp.expected /\ res.wp.expected \in Int
  BY DataSafe, Zenon DEF SafeResult, Separated, Proxy
<1>3. res.wp.ledger[n] = m.ledger[n] \/ (res.wp.ledger[n] = "none" /\ n < res.wp.expected)
  <2>1. CASE sn = w.expected
    <3> DEFINE v == [m EXCEPT !.expected = @ + 1]
    <3>1. v \in Proxy /\ v.ledger = m.ledger
      BY <1>0, <1>1 DEF Proxy
    <3>2. res = DeliverInOrder(m, sn)
      BY <1>0, <1>1, <2>1 DEF DeliverChangeToReader, m
    <3>3. res.wp = FlushBufferedChanges(v)
      BY <3>2 DEF DeliverInOrder, Result
    <3> HIDE DEF v, res
    <3> QED
      BY <3>1, <3>3, FlushType, Zenon
  <2>2. CASE sn > w.expected
    <3> DEFINE v == [m EXCEPT !.buffered = @ \cup {sn}]
               first == Min(v.buffered)
               d == DropChangesBelow(v, first)
    <3>1. /\ v \in Proxy /\ v.expected = w.expected /\ v.buffered = w.buffered \cup {sn}
          /\ v.ledger = m.ledger
      BY <1>0, <1>1, Zenon DEF Proxy
    <3>2. res = GiveUpOldestHoleIfFull(v)
      BY <1>0, <1>1, <2>2 DEF DeliverChangeToReader, m
    <3> HIDE DEF v
    <3>3. CASE Cardinality(v.buffered) < InOrderBuffer
      <4>1. res = Result(v, {}, 0)
        BY <3>2, <3>3, Zenon DEF GiveUpOldestHoleIfFull
      <4>2. res.wp = v
        BY <4>1 DEF Result
      <4> HIDE DEF res
      <4> QED
        BY <3>1, <4>2, Zenon
    <3>4. CASE ~(Cardinality(v.buffered) < InOrderBuffer)
      <4>1. res.wp = FlushBufferedChanges(d)
        <5>1. res = FlushResult(d, AbandonedSamples(v, first))
          BY <3>2, <3>4, Zenon DEF GiveUpOldestHoleIfFull
        <5> HIDE DEF d, res
        <5> QED
          BY <5>1, Zenon DEF FlushResult, Result
      <4>2. first \in Int
        <5>1. v.buffered \in SUBSET Nat /\ v.buffered # {}
          BY <1>0, <3>1, SNInt, Zenon
        <5>2. first \in v.buffered
          BY <5>1, MinNat, Zenon
        <5> QED
          BY <5>1, <5>2
      <4> HIDE DEF first
      <4>3. /\ d \in Proxy /\ d.expected = LargerOf(v.expected, first)
            /\ d.ledger[n] = IF n < first THEN "none" ELSE v.ledger[n]
        BY <3>1, <4>2, DropType, DropLedger, Zenon
      <4> HIDE DEF d, res
      <4>4. /\ res.wp.ledger = d.ledger /\ res.wp.expected >= d.expected
            /\ d.expected >= first /\ d.expected \in Int
        <5>1. d.expected \in Int /\ d.expected >= first
          BY <1>0, <3>1, <4>2, <4>3 DEF LargerOf
        <5>2. /\ res.wp.ledger = d.ledger
              /\ res.wp.expected = d.expected + Cardinality(FlushedChanges(d))
              /\ Cardinality(FlushedChanges(d)) \in Nat
          BY <4>1, <4>3, FlushType, FlushSeparates, Zenon
        <5> QED
          BY <5>1, <5>2
      <4> QED
        BY <1>0, <1>2, <3>1, <4>2, <4>3, <4>4
    <3> QED
      BY <3>3, <3>4, Zenon
  <2>3. CASE sn < w.expected
    <3>1. res.wp = m
      BY <1>0, <1>1, <2>3 DEF DeliverChangeToReader, Result, m
    <3> QED
      BY <3>1, Zenon
  <2> QED
    BY <1>0, <2>1, <2>2, <2>3
<1> HIDE DEF res
<1>4. m.ledger[n] # "none" => n = sn \/ w.ledger[n] # "none"
  BY <1>1, Zenon
<1>5. w.ledger[n] # "none" => m.ledger[n] # "none"
  BY <1>1, Zenon DEF IsSettled
<1>6. n < w.expected => n < res.wp.expected
  BY <1>0, <1>2
<1> QED
  BY <1>3, <1>4, <1>5, <1>6, Zenon DEF Knows, res

\* After a HEARTBEAT the cursor is at the start of its range or above.
LEMMA HeartbeatCursor ==
    ASSUME NEW w, Separated(w), NEW first \in Nat, NEW last \in Nat
    PROVE  LET res == HeartbeatHandler(w, first, last)
               p   == ProcessHeartbeat(w, first, last)
           IN  /\ res.wp.ledger = p.ledger
               /\ p.expected \in Int /\ res.wp.expected \in Int
               /\ p.expected = LargerOf(w.expected, first) /\ p.expected <= res.wp.expected
               /\ w.expected <= p.expected /\ first <= p.expected /\ first <= res.wp.expected
<1> DEFINE res == HeartbeatHandler(w, first, last)
           p == ProcessHeartbeat(w, first, last)
<1>0. w \in Proxy /\ w.expected \in Int
  BY Zenon DEF Separated, Proxy
<1>1. p \in Proxy /\ p.expected \in Int /\ p.expected = LargerOf(w.expected, first)
  BY <1>0, ProcessHeartbeatType, Zenon
<1>2. res.wp = FlushBufferedChanges(p)
  BY Zenon DEF HeartbeatHandler, FlushResult, Result
<1> HIDE DEF p, res
<1>3. /\ res.wp.ledger = p.ledger /\ res.wp.expected \in Int
      /\ res.wp.expected >= p.expected
  BY <1>1, <1>2, FlushType, FlushSeparates
<1>4. p.expected >= w.expected /\ p.expected >= first
  BY <1>0, <1>1 DEF LargerOf
<1>5. first <= res.wp.expected
  BY <1>1, <1>3, <1>4
<1> QED
  BY <1>1, <1>3, <1>4, <1>5, Zenon DEF res, p

\* After a HEARTBEAT the reader knows of every number up to the end of its range.
LEMMA HeartbeatKnows ==
    ASSUME NEW w, Separated(w), NEW first \in Nat, NEW last \in Nat, NEW n \in SN
    PROVE  LET res == HeartbeatHandler(w, first, last)
           IN  /\ Knows(w, n) => Knows(res.wp, n)
               /\ n <= last => Knows(res.wp, n)
               /\ res.wp.ledger[n] # "none" => n <= last \/ w.ledger[n] # "none"
<1> DEFINE res == HeartbeatHandler(w, first, last)
           p == ProcessHeartbeat(w, first, last)
<1>0. w \in Proxy /\ w.expected \in Int /\ n \in Int
  BY SNInt, NatIsInt, Zenon DEF Separated, Proxy
<1>1. /\ n < first => p.ledger[n] = "none"
      /\ first <= n /\ w.ledger[n] # "none" => p.ledger[n] = w.ledger[n]
      /\ first <= n /\ w.ledger[n] = "none" =>
           p.ledger[n] = IF p.expected <= n /\ n <= last THEN "missing" ELSE "none"
  <2>1. p.expected = LargerOf(w.expected, first)
    BY HeartbeatCursor, Zenon
  <2> QED
    BY <1>0, <2>1, HeartbeatLedger
<1>2. /\ res.wp.ledger = p.ledger /\ p.expected \in Int /\ res.wp.expected \in Int
      /\ p.expected <= res.wp.expected /\ w.expected <= p.expected /\ first <= p.expected
  BY HeartbeatCursor, Zenon
<1> HIDE DEF p, res
<1> QED
  BY <1>0, <1>1, <1>2 DEF Knows, res

\* A GAP makes entries for the numbers it names and lets none be forgotten.
LEMMA GapKnows ==
    ASSUME NEW w, Separated(w), NEW sns \in SUBSET SN, sns # {}, NEW n \in SN
    PROVE  LET res == GapHandler(w, sns)
           IN  /\ Knows(w, n) => Knows(res.wp, n)
               /\ res.wp.ledger[n] # "none" => n \in sns \/ w.ledger[n] # "none"
               /\ \A k \in sns : k < res.wp.expected
<1> DEFINE res == GapHandler(w, sns)
           last == Max(sns)
           j == [w EXCEPT !.expected = last + 1]
<1>0. w \in Proxy /\ w.expected \in Int /\ n \in Int
  BY SNInt, NatIsInt, Zenon DEF Separated, Proxy
<1>1. last \in SN /\ \A k \in sns : last >= k /\ k \in Int
  <2>1. last \in sns /\ \A k \in sns : last >= k
    BY MaxSNs, Zenon
  <2> HIDE DEF last
  <2> QED
    BY <2>1, SNInt, NatIsInt, Zenon
<1>2. w.expected <= res.wp.expected /\ res.wp.expected \in Int
  BY GapSafe, Zenon DEF SafeResult, Separated, Proxy
<1>3. /\ res.wp.ledger[n] = IF n \in sns THEN "irrelevant" ELSE w.ledger[n]
      /\ last < res.wp.expected
  <2>1. CASE last >= w.expected
    <3> DEFINE f == FlushBufferedChanges(j)
    <3>1. res.wp = IrrelevantChangeSet(f, sns)
      BY <2>1, Zenon DEF GapHandler, Result
    <3> HIDE DEF last
    <3>2. last \in Int
      BY <1>1, SNInt, NatIsInt, Zenon
    <3>3. j \in Proxy /\ j.expected = last + 1 /\ j.ledger = w.ledger
      BY <1>0, <3>2 DEF Proxy
    <3> HIDE DEF j, res
    <3>4. f \in Proxy /\ f.ledger = w.ledger /\ f.expected \in Int /\ f.expected > last
      BY <3>2, <3>3, FlushType, FlushSeparates
    <3> HIDE DEF f
    <3> QED
      BY <3>1, <3>4, IrrelevantType, IrrelevantLedger
  <2>2. CASE ~(last >= w.expected)
    <3>1. res.wp = IrrelevantChangeSet(w, sns)
      BY <2>2, Zenon DEF GapHandler, Result
    <3> HIDE DEF last, res
    <3>2. last \in Int /\ last < w.expected
      <4>1. last \in Int
        BY <1>1, SNInt, Zenon
      <4> QED
        BY <1>0, <2>2, <4>1
    <3> QED
      BY <1>0, <3>1, <3>2, IrrelevantType, IrrelevantLedger
  <2> QED
    BY <2>1, <2>2, Zenon
<1> HIDE DEF last, res
<1>4. last \in Int
  BY <1>1, SNInt, NatIsInt, Zenon
<1>5. \A k \in sns : k < res.wp.expected
  BY <1>1, <1>2, <1>3, <1>4
<1>6. n < w.expected => n < res.wp.expected
  BY <1>0, <1>2
<1> QED
  BY <1>3, <1>5, <1>6, Zenon DEF Knows, res

\* The base of an ACKNACK does not go beyond the cursor of a reader that knows of
\* every number below each of its entries.
LEMMA BaseBelowCursor ==
    ASSUME NEW w, Separated(w), NEW G, NEW L, Faithful(w, G, L), w.expected >= 1,
           \A m, n \in SN : n < m /\ w.ledger[m] # "none" => Knows(w, n)
    PROVE  CalculateBitmapBase(w) <= 1 \/ CalculateBitmapBase(w) <= w.expected
<1>0. w \in Proxy /\ w.expected \in Int /\ MaxSN \in Nat
  BY ProxyAssumption, Zenon DEF Separated, Proxy
<1>1. CASE Entries(w) = {}
  BY <1>1, Zenon DEF CalculateBitmapBase
<1>2. CASE Entries(w) # {}
  <2> DEFINE start == Min(Entries(w))
             S == {n \in start..LargerOf(start, MaxSN + 1) : ~IsSettled(w, n)}
  <2>1. Entries(w) \in SUBSET SN
    BY Zenon DEF Entries
  <2>2. Entries(w) \in SUBSET Nat
    BY <2>1, SNType, Zenon
  <2>3. start \in Entries(w) /\ \A k \in Entries(w) : start <= k
    BY <1>2, <2>2, MinNat, Zenon
  <2>4. start \in SN /\ start \in Nat /\ start >= 1 /\ start <= MaxSN /\ w.ledger[start] # "none"
    <3> HIDE DEF start
    <3> QED
      BY <1>0, <2>3 DEF Entries, SN
  <2>5. CalculateBitmapBase(w) = Min(S)
    BY <1>2, Zenon DEF CalculateBitmapBase, FirstUnsettledFrom
  <2> HIDE DEF start
  <2>6. LargerOf(start, MaxSN + 1) = MaxSN + 1
    BY <1>0, <2>4 DEF LargerOf
  <2>7. MaxSN + 1 \in S /\ S \in SUBSET Nat
    BY <1>0, <2>4, <2>6 DEF SN, IsSettled
  <2>8. start <= w.expected
    <3> SUFFICES ASSUME w.expected < start PROVE FALSE
      BY <1>0, <2>4
    <3>1. w.expected \in SN
      BY <1>0, <2>4 DEF SN
    <3>2. Knows(w, w.expected)
      BY <2>4, <3>1, Zenon
    <3>3. w.expected \in Entries(w)
      BY <1>0, <3>1, <3>2 DEF Knows, Entries
    <3> QED
      BY <1>0, <2>3, <2>4, <3>3
  <2>9. CASE w.expected <= MaxSN
    <3>1. w.expected \in SN
      BY <1>0, <2>9 DEF SN
    <3>2. ~IsSettled(w, w.expected)
      BY <1>0, <3>1, BufferedAbove DEF Faithful
    <3>3. w.expected \in S
      BY <1>0, <2>4, <2>6, <2>8, <2>9, <3>2
    <3> HIDE DEF S
    <3>4. Min(S) <= w.expected
      BY <2>7, <3>3, MinNat, Zenon
    <3> QED
      BY <2>5, <3>4, Zenon
  <2>10. CASE ~(w.expected <= MaxSN)
    <3> HIDE DEF S
    <3>1. Min(S) <= MaxSN + 1 /\ Min(S) \in Nat
      BY <2>7, MinNat, Zenon
    <3> QED
      BY <1>0, <2>5, <2>10, <3>1
  <2> QED
    BY <2>9, <2>10, Zenon
<1> QED
  BY <1>1, <1>2, Zenon

\* The base of an ACKNACK is worked out from the ledger alone.
LEMMA BaseOfLedger ==
    ASSUME NEW w, NEW v, w.ledger = v.ledger
    PROVE  CalculateBitmapBase(w) = CalculateBitmapBase(v)
  BY Zenon DEF CalculateBitmapBase, Entries, FirstUnsettledFrom, IsSettled

----------------------------------------------------------------------------
(* The protocol: types, order and the in-order buffer *)

\* A thread inside write has a sequence number and an instance.
WritingThreads == \A t \in Threads : app[t].pc # "idle" => app[t].sn \in SN /\ app[t].key \in Keys

WriterInv ==
    /\ lastSN \in 0..MaxSN
    /\ app \in [Threads -> [pc : {"idle", "allocated", "evicted", "added"},
                            sn : 0..MaxSN, key : Keys \cup {"none"}]]
    /\ WritingThreads
    /\ history \subseteq Change
    /\ cache \subseteq SN
    /\ highestSN \in 0..MaxSN
    /\ matched \subseteq Readers
    /\ rp \in [Readers -> ReaderProxy]
    /\ preHB \subseteq Readers
    /\ hbRunning \in BOOLEAN /\ hbRestart \in BOOLEAN
    /\ stopping \subseteq Stoppers
    /\ notified \in Nat
    /\ removals \subseteq SN

\* What a reader was given lies below its cursor and was given once.
GivenOnce(r) == \A n \in SN : /\ delivered[r][n] <= 1
                              /\ delivered[r][n] > 0 => n < wp[r].expected

DeliveryInv ==
    /\ wp \in [Readers -> Proxy]
    /\ delivered \in [Readers -> [SN -> Nat]]
    /\ lost \in [Readers -> Nat]
    /\ \A r \in Readers : Separated(wp[r]) /\ GivenOnce(r)

ReaderInv ==
    /\ rx \in [Readers -> HBRange]
    /\ hbSeen \in [Readers -> Nat]
    /\ ackTimer \subseteq Readers
    /\ ackQueue \in [Readers -> Nat]
    /\ preAck \subseteq Readers

NetInv == net \subseteq Messages

Inv == WriterInv /\ DeliveryInv /\ ReaderInv /\ NetInv

\* What a step may do to the deliveries of a reader: give it samples from its
\* cursor on, each once more, and leave the cursor above them.
AdvancesReader(r) ==
    /\ wp[r].expected <= wp'[r].expected
    /\ \A n \in SN : \/ delivered'[r][n] = delivered[r][n]
                     \/ /\ delivered'[r][n] = delivered[r][n] + 1
                        /\ wp[r].expected <= n
                        /\ n < wp'[r].expected

\* A step concerns at most one reader.
OneReader ==
    \/ UNCHANGED <<wp, delivered>>
    \/ \E r \in Readers : \A q \in Readers \ {r} :
          wp'[q] = wp[q] /\ delivered'[q] = delivered[q]

Advances == OneReader /\ \A r \in Readers : AdvancesReader(r)

----------------------------------------------------------------------------
(* Messages *)

\* The datagrams the writer and the readers make are datagrams of the protocol.
LEMMA MessageTypes ==
    ASSUME NEW r \in Readers
    PROVE  /\ \A sn \in SN, hb \in HBRange : Data(r, sn, hb) \in Messages
           /\ \A hb \in HBRange : Heartbeat(r, hb) \in Messages
           /\ \A sns \in SUBSET SN : sns # {} => Gap(r, sns) \in Messages
           /\ \A base \in Nat, m \in SUBSET SN : Acknack(r, base, m) \in Messages
           /\ Preemptive(r) \in Messages
<1>1. \A sn \in SN, hb \in HBRange : Data(r, sn, hb) \in Messages
  BY Zenon DEF Data, Messages
<1>2. \A hb \in HBRange : Heartbeat(r, hb) \in Messages
  BY Zenon DEF Heartbeat, Messages
<1>3. \A sns \in SUBSET SN : sns # {} => Gap(r, sns) \in Messages
  <2> SUFFICES ASSUME NEW sns \in SUBSET SN, sns # {} PROVE Gap(r, sns) \in Messages
    BY Zenon
  <2>1. sns \in (SUBSET SN) \ {{}}
    BY Zenon
  <2> QED
    BY <2>1, Zenon DEF Gap, Messages
<1>4. \A base \in Nat, m \in SUBSET SN : Acknack(r, base, m) \in Messages
  BY Zenon DEF Acknack, Messages
<1>5. Preemptive(r) \in Messages
  BY Zenon DEF Preemptive, Messages
<1> QED
  BY <1>1, <1>2, <1>3, <1>4, <1>5, Zenon

\* A reader that has seen no heartbeat keeps a range for it all the same.
LEMMA NoHBType == NoHB \in HBRange
BY Zenon DEF NoHB, HBRange

\* The range a HEARTBEAT announces: first and last sequence number of the history.
LEMMA RangeType ==
    ASSUME NEW c \in SUBSET SN, NEW h \in Nat
    PROVE  RangeOf(c, h) \in HBRange
<1>1. CASE c = {}
  BY <1>1 DEF RangeOf, HBRange
<1>2. CASE c # {}
  <2>1. c \in SUBSET Nat
    BY SNType, Zenon
  <2>2. Min(c) \in Nat
    BY <1>2, <2>1, MinNat, Zenon
  <2>3. Max(c) \in Nat
    BY <1>2, <2>1, MaxSNs, Zenon
  <2> QED
    BY <1>2, <2>2, <2>3, Zenon DEF RangeOf, HBRange
<1> QED
  BY <1>1, <1>2, Zenon

----------------------------------------------------------------------------
(* The writer *)

\* Where the search for unsent changes starts.
LEMMA UnsentType ==
    ASSUME NEW c \in SUBSET SN, NEW r \in Readers
    PROVE  Unsent(c, r) \in SUBSET SN
BY Zenon DEF Unsent

\* The highest number sent before a DATA is no sequence number or one of the writer's.
LEMMA SentBeforeType ==
    ASSUME WriterInv, NEW c \in SUBSET SN, NEW r \in Readers, NEW n \in SN
    PROVE  SentBefore(c, r, n) \in SN \cup {Unknown}
<1> DEFINE lower == {m \in Unsent(c, r) : m < n}
<1>1. rp[r].highestSent \in SN \cup {Unknown}
  BY Zenon DEF WriterInv, ReaderProxy
<1>2. lower \in SUBSET SN
  BY UnsentType, Zenon
<1>3. lower # {} => Max(lower) \in SN
  <2> HIDE DEF lower
  <2> QED
    BY <1>2, MaxSNs, Zenon
<1> QED
  BY <1>1, <1>3, Zenon DEF SentBefore

\* First transmissions, the GAPs before them and the heartbeats on them are datagrams.
LEMMA UnsentMessagesType ==
    ASSUME WriterInv, NEW c \in SUBSET SN, NEW hb \in HBRange, NEW r \in Readers
    PROVE  UnsentMessages(c, hb, r) \subseteq Messages
<1> DEFINE D == {Data(r, n, IF Piggyback THEN hb ELSE NoHB) : n \in Unsent(c, r)}
           K == {k \in Unsent(c, r) : /\ SentBefore(c, r, k) # Unknown
                                      /\ k > SentBefore(c, r, k) + 1}
           G == {Gap(r, (SentBefore(c, r, n) + 1)..(n - 1)) : n \in K}
<1>1. (IF Piggyback THEN hb ELSE NoHB) \in HBRange
  BY NoHBType, Zenon
<1>2. D \subseteq Messages
  BY <1>1, UnsentType, MessageTypes, Zenon
<1>3. ASSUME NEW n \in K
      PROVE  Gap(r, (SentBefore(c, r, n) + 1)..(n - 1)) \in Messages
  <2>1. n \in SN /\ n > SentBefore(c, r, n) + 1
    BY UnsentType, Zenon
  <2>2. SentBefore(c, r, n) \in SN
    BY <2>1, SentBeforeType, Zenon
  <2>3. (SentBefore(c, r, n) + 1)..(n - 1) \in SUBSET SN
    BY <2>1, <2>2, ProxyAssumption DEF SN
  <2>4. n - 1 \in (SentBefore(c, r, n) + 1)..(n - 1)
    BY <2>1, <2>2, ProxyAssumption DEF SN
  <2> QED
    BY <2>3, <2>4, MessageTypes, Zenon
<1>4. G \subseteq Messages
  BY <1>3, Zenon
<1>5. UnsentMessages(c, hb, r) = D \cup G
  BY Zenon DEF UnsentMessages
<1> QED
  BY <1>2, <1>4, <1>5, Zenon

\* Recording what was sent keeps the reader proxies typed.
LEMMA MarkSentType ==
    ASSUME WriterInv, NEW c \in SUBSET SN, NEW r \in Readers
    PROVE  MarkSent(c, r) \in ReaderProxy
<1>0. rp[r] \in ReaderProxy
  BY Zenon DEF WriterInv
<1>1. CASE Unsent(c, r) = {}
  BY <1>0, <1>1, Zenon DEF MarkSent
<1>2. CASE Unsent(c, r) # {}
  <2> DEFINE x == Max(Unsent(c, r))
             h == LargerOf(rp[r].highestSent, x)
             b == rp[r].firstHB \/ Piggyback
  <2>1. x \in SN
    BY <1>2, UnsentType, MaxSNs, Zenon
  <2>2. h \in SN \cup {Unknown}
    BY <1>0, <2>1, Zenon DEF ReaderProxy, LargerOf
  <2>3. b \in BOOLEAN
    BY Zenon
  <2>4. MarkSent(c, r) = [rp[r] EXCEPT !.highestSent = h, !.firstHB = b]
    BY <1>2, Zenon DEF MarkSent
  <2> HIDE DEF h, b
  <2> QED
    BY <1>0, <2>2, <2>3, <2>4, Zenon DEF ReaderProxy
<1> QED
  BY <1>1, <1>2, Zenon

\* The HEARTBEAT to one reader and the GAP ahead of it are datagrams.
LEMMA HeartbeatAndGapType ==
    ASSUME WriterInv, NEW r \in Readers
    PROVE  HeartbeatAndGap(r) \subseteq Messages
<1> DEFINE X == {y \in {0} : cache # {} /\ Min(cache) <= rp[r].lastIrrelevant}
           G == Min(cache)..rp[r].lastIrrelevant
<1>0. cache \in SUBSET SN /\ highestSN \in Nat /\ rp[r].lastIrrelevant \in 0..MaxSN
  BY ProxyAssumption DEF WriterInv, ReaderProxy
<1>1. Heartbeat(r, RangeOf(cache, highestSN)) \in Messages
  BY <1>0, RangeType, MessageTypes, Zenon
<1>2. ASSUME NEW x \in X
      PROVE  Gap(r, G) \in Messages
  <2>1. cache # {} /\ Min(cache) <= rp[r].lastIrrelevant
    BY <1>2, Zenon
  <2>2. cache \in SUBSET Nat
    BY <1>0, SNType, Zenon
  <2>3. Min(cache) \in SN
    BY <1>0, <2>1, <2>2, MinNat, Zenon
  <2>4. G \in SUBSET SN /\ Min(cache) \in G
    BY <1>0, <2>1, <2>3, ProxyAssumption DEF SN
  <2> QED
    BY <2>4, MessageTypes, Zenon
<1> QED
  BY <1>1, <1>2, Zenon DEF HeartbeatAndGap

\* The lowest acknowledgement over the matched readers is a number or Unknown.
LEMMA MinAckedType ==
    ASSUME WriterInv, NEW q \in [Readers -> ReaderProxy]
    PROVE  MinAcked(q) \in Nat \cup {Unknown}
<1> DEFINE A == {q[r].maxAcked : r \in matched}
<1>1. CASE matched = {}
  BY <1>1, ProxyAssumption DEF MinAcked, WriterInv
<1>2. CASE matched # {}
  <2>1. A # {} /\ A \in SUBSET (Nat \cup {Unknown})
    BY <1>2 DEF WriterInv, ReaderProxy
  <2> HIDE DEF A
  <2>2. CASE Unknown \in A
    <3>1. \A y \in A : Unknown <= y
      BY <2>1 DEF Unknown
    <3>2. Min(A) \in A
      BY <2>2, <3>1, Zenon DEF Min
    <3> QED
      BY <1>2, <2>1, <3>2, Zenon DEF MinAcked, A
  <2>3. CASE Unknown \notin A
    <3>1. A \in SUBSET Nat
      BY <2>1, <2>3, Zenon
    <3>2. Min(A) \in A
      BY <2>1, <3>1, MinNat, Zenon
    <3> QED
      BY <1>2, <3>1, <3>2, Zenon DEF MinAcked, A
  <2> QED
    BY <2>2, <2>3, Zenon
<1> QED
  BY <1>1, <1>2, Zenon

\* Dropping acknowledged changes leaves a part of the history.
LEMMA PurgeType ==
    ASSUME WriterInv, NEW floor \in Nat \cup {Unknown}, ProcessAckedChanges(floor)
    PROVE  /\ history' \subseteq Change
           /\ cache' \subseteq SN
           /\ notified' \in Nat
           /\ removals' \subseteq SN
<1>1. CASE PurgeAcked /\ floor > notified
  <2>1. floor \in Nat
    BY <1>1 DEF WriterInv, Unknown
  <2> QED
    BY <1>1, <2>1, Zenon DEF ProcessAckedChanges, WriterInv
<1>2. CASE ~(PurgeAcked /\ floor > notified)
  BY <1>2, Zenon DEF ProcessAckedChanges, WriterInv
<1> QED
  BY <1>1, <1>2, Zenon

\* A full instance has a change to evict, and the one evicted is in the history.
LEMMA VictimType ==
    ASSUME WriterInv, NEW k \in Keys, IsFull(k)
    PROVE  Victim(k) \in history
<1>0. history \subseteq Change
  BY Zenon DEF WriterInv
<1>1. InstanceChanges(k) # {}
  BY FS_EmptySet, ProtocolAssumption DEF IsFull
<1>2. InstanceChanges(k) \subseteq history
  BY Zenon DEF InstanceChanges
<1>3. CASE Cardinality(Keys) > 1
  <2> DEFINE S == {c.sn : c \in InstanceChanges(k)}
  <2>1. S # {}
    BY <1>1, Zenon
  <2>2. S \in SUBSET Nat
    BY <1>0, <1>2, SNType, Zenon DEF Change
  <2>3. Min(S) \in S /\ \A y \in S : Min(S) <= y
    <3> HIDE DEF S
    <3> QED
      BY <2>1, <2>2, MinNat, Zenon
  <2>4. PICK c \in InstanceChanges(k) : \A d \in InstanceChanges(k) : c.sn <= d.sn
    BY <2>3, Zenon
  <2>5. Victim(k) \in InstanceChanges(k)
    BY <1>3, <2>4, Zenon DEF Victim
  <2> QED
    BY <1>2, <2>5, Zenon
<1>4. CASE ~(Cardinality(Keys) > 1)
  <2> DEFINE S == {c.at : c \in history}
  <2>1. S # {}
    BY <1>1, <1>2, Zenon
  <2>2. S \in SUBSET Nat
    BY <1>0, Zenon DEF Change
  <2>3. Min(S) \in S /\ \A y \in S : Min(S) <= y
    <3> HIDE DEF S
    <3> QED
      BY <2>1, <2>2, MinNat, Zenon
  <2>4. PICK c \in history : \A d \in history : c.at <= d.at
    BY <2>3, Zenon
  <2> QED
    BY <1>4, <2>4, Zenon DEF Victim
<1> QED
  BY <1>3, <1>4, Zenon

\* The next insertion stamp is a natural number.
LEMMA StampType == ASSUME WriterInv PROVE Stamp \in Nat
<1> DEFINE T == {t \in Threads : app[t].pc \notin {"allocated", "evicted"}}
<1>1. IsFiniteSet(T)
  BY ProtocolAssumption, FS_Subset, Zenon
<1>2. Cardinality(T) \in Nat
  BY <1>1, FS_CardinalityType, Zenon
<1> HIDE DEF T
<1>3. lastSN \in Nat
  BY ProxyAssumption DEF WriterInv
<1>4. Stamp = lastSN + Cardinality(T)
  BY Zenon DEF Stamp, T
<1> QED
  BY <1>2, <1>3, <1>4

\* A step that leaves the writer alone keeps its part of the invariant.
LEMMA WriterUnchanged == WriterInv /\ UNCHANGED writerVars => WriterInv'
BY Zenon DEF WriterInv, WritingThreads, writerVars

\* A step that leaves the readers alone keeps their part of the invariant.
LEMMA ReaderUnchanged ==
    DeliveryInv /\ ReaderInv /\ UNCHANGED readerVars => DeliveryInv' /\ ReaderInv'
BY Zenon DEF DeliveryInv, ReaderInv, GivenOnce, readerVars

\* A step that leaves proxies and deliveries alone moves none of them back.
LEMMA DeliveryUnchanged == DeliveryInv /\ UNCHANGED <<wp, delivered>> => Advances
BY DEF DeliveryInv, Advances, OneReader, AdvancesReader, Proxy

----------------------------------------------------------------------------
(* Actions of the application, discovery and the writer's tasks *)

\* DataWriter::write takes a sequence number.
LEMMA AllocateStep == ASSUME Inv, NEW t \in Threads, AllocateSequenceNumber(t) PROVE Inv'
<1>1. lastSN' \in SN /\ lastSN' \in 0..MaxSN
  BY ProxyAssumption DEF Inv, WriterInv, AllocateSequenceNumber, SN
<1>2. PICK k \in Keys : app' = [app EXCEPT ![t] = [pc |-> "allocated", sn |-> lastSN', key |-> k]]
  BY Zenon DEF AllocateSequenceNumber
<1>3. /\ app' \in [Threads -> [pc : {"idle", "allocated", "evicted", "added"},
                               sn : 0..MaxSN, key : Keys \cup {"none"}]]
      /\ WritingThreads'
  BY <1>1, <1>2, Zenon DEF Inv, WriterInv, WritingThreads
<1>4. WriterInv'
  BY <1>1, <1>3, Zenon DEF Inv, WriterInv, AllocateSequenceNumber
<1> QED
  BY <1>4, ReaderUnchanged, Zenon DEF Inv, NetInv, AllocateSequenceNumber

\* A thread that moves on in write keeps its sequence number and instance.
LEMMA StepType ==
    ASSUME WriterInv, NEW t \in Threads, app[t].pc # "idle",
           NEW pc \in {"evicted", "added"}, app' = Step(pc, t)
    PROVE  /\ app' \in [Threads -> [pc : {"idle", "allocated", "evicted", "added"},
                                    sn : 0..MaxSN, key : Keys \cup {"none"}]]
           /\ WritingThreads'
BY DEF WriterInv, WritingThreads, Step

\* A thread that leaves write is idle again.
LEMMA IdleType ==
    ASSUME WriterInv, NEW t \in Threads, app' = [app EXCEPT ![t] = Idle]
    PROVE  /\ app' \in [Threads -> [pc : {"idle", "allocated", "evicted", "added"},
                                    sn : 0..MaxSN, key : Keys \cup {"none"}]]
           /\ WritingThreads'
BY ProxyAssumption DEF WriterInv, WritingThreads, Idle

\* A full instance gives up its oldest change.
LEMMA EnsureCapacityStep == ASSUME Inv, NEW t \in Threads, EnsureCapacity(t) PROVE Inv'
<1> DEFINE k == app[t].key
           v == Victim(k)
<1>1. WriterInv /\ app[t].pc = "allocated" /\ IsFull(k) /\ app' = Step("evicted", t)
  BY Zenon DEF EnsureCapacity, Inv
<1>2. k \in Keys
  BY <1>1, Zenon DEF WriterInv, WritingThreads
<1>3. v \in history
  BY <1>1, <1>2, VictimType, Zenon
<1>4. /\ cache' = cache \ {v.sn}
      /\ removals' = removals \cup {v.sn}
      /\ history' = history \ {v}
  BY Zenon DEF EnsureCapacity
<1> HIDE DEF v, k
<1>5. v.sn \in SN
  BY <1>1, <1>3, Zenon DEF WriterInv, Change
<1>6. cache' \subseteq SN /\ removals' \subseteq SN /\ history' \subseteq Change
  BY <1>1, <1>4, <1>5, Zenon DEF WriterInv
<1>7. WriterInv'
  BY <1>1, <1>6, StepType, Zenon DEF WriterInv, EnsureCapacity
<1> QED
  BY <1>7, ReaderUnchanged, Zenon DEF Inv, NetInv, EnsureCapacity

\* The change enters the cache and is sent.
LEMMA AddChangeStep == ASSUME Inv, NEW t \in Threads, AddChange(t) PROVE Inv'
<1>1. WriterInv /\ app[t].pc # "idle" /\ app[t].sn \in SN /\ app[t].key \in Keys
  BY Zenon DEF AddChange, Inv, WriterInv, WritingThreads
<1>2. cache' \in SUBSET SN /\ cache' \subseteq SN
  BY <1>1, Zenon DEF AddChange, WriterInv
<1>3. highestSN' \in 0..MaxSN /\ highestSN' \in Nat
  BY <1>1, ProxyAssumption DEF AddChange, WriterInv, LargerOf, SN
<1>4. history' \subseteq Change
  BY <1>1, StampType DEF AddChange, WriterInv, Change
<1>5. rp' \in [Readers -> ReaderProxy]
  <2>1. \A r \in Readers : MarkSent(cache', r) \in ReaderProxy
    BY <1>1, <1>2, MarkSentType, Zenon
  <2> QED
    BY <1>1, <2>1, Zenon DEF AddChange, WriterInv
<1>6. net' \subseteq Messages
  <2>1. RangeOf(cache', highestSN') \in HBRange
    BY <1>2, <1>3, RangeType, Zenon
  <2>2. \A r \in Readers : UnsentMessages(cache', RangeOf(cache', highestSN'), r) \subseteq Messages
    BY <1>1, <1>2, <2>1, UnsentMessagesType, Zenon
  <2>3. matched \subseteq Readers
    BY <1>1, Zenon DEF WriterInv
  <2>4. /\ net \subseteq Messages
        /\ net' = net \cup UNION {UnsentMessages(cache', RangeOf(cache', highestSN'), r) : r \in matched}
    BY Zenon DEF AddChange, Send, Inv, NetInv
  <2> QED
    BY <2>2, <2>3, <2>4, Zenon
<1>7. /\ app' \in [Threads -> [pc : {"idle", "allocated", "evicted", "added"},
                               sn : 0..MaxSN, key : Keys \cup {"none"}]]
      /\ WritingThreads'
  <2>1. CASE app' = Step("added", t)
    BY <1>1, <2>1, StepType, Zenon
  <2>2. CASE app' = [app EXCEPT ![t] = Idle]
    BY <1>1, <2>2, IdleType, Zenon
  <2> QED
    BY <2>1, <2>2, Zenon DEF AddChange
<1>8. WriterInv'
  BY <1>1, <1>2, <1>3, <1>4, <1>5, <1>7, Zenon DEF AddChange, WriterInv
<1> QED
  BY <1>6, <1>8, ReaderUnchanged, Zenon DEF Inv, NetInv, AddChange

\* A volatile writer drops what every reader acknowledged.
LEMMA PurgeAfterWriteStep == ASSUME Inv, NEW t \in Threads, PurgeAfterWrite(t) PROVE Inv'
<1>1. WriterInv /\ rp \in [Readers -> ReaderProxy]
  BY Zenon DEF Inv, WriterInv
<1>2. MinAcked(rp) \in Nat \cup {Unknown}
  BY <1>1, MinAckedType, Zenon
<1>3. WriterInv'
  BY <1>1, <1>2, PurgeType, IdleType, Zenon DEF PurgeAfterWrite, WriterInv
<1> QED
  BY <1>3, ReaderUnchanged, Zenon DEF Inv, NetInv, PurgeAfterWrite

\* Discovery adds a reader proxy.
LEMMA MatchedReaderAddStep == ASSUME Inv, NEW r \in Readers, MatchedReaderAdd(r) PROVE Inv'
<1> DEFINE i == IF r \in VolatileReaders THEN lastSN ELSE 0
<1>1. i \in 0..MaxSN
  BY ProxyAssumption DEF Inv, WriterInv
<1>2. NewReaderProxy(i) \in ReaderProxy
  <2> HIDE DEF i
  <2> QED
    BY <1>1, Zenon DEF NewReaderProxy, ReaderProxy
<1>3. rp' \in [Readers -> ReaderProxy]
  BY <1>2, Zenon DEF Inv, WriterInv, MatchedReaderAdd
<1>4. hbRestart' \in BOOLEAN
  BY Zenon DEF MatchedReaderAdd
<1>5. WriterInv'
  BY <1>3, <1>4, Zenon DEF Inv, WriterInv, WritingThreads, MatchedReaderAdd
<1> QED
  BY <1>5, ReaderUnchanged, Zenon DEF Inv, NetInv, MatchedReaderAdd

\* A missing heartbeat timer is registered again.
LEMMA RestartStep == ASSUME Inv, RestartPeriodicHeartbeat PROVE Inv'
<1>1. hbRunning' \in BOOLEAN /\ hbRestart' \in BOOLEAN
  BY Zenon DEF RestartPeriodicHeartbeat
<1>2. WriterInv'
  BY <1>1, Zenon DEF Inv, WriterInv, WritingThreads, RestartPeriodicHeartbeat
<1> QED
  BY <1>2, ReaderUnchanged, Zenon DEF Inv, NetInv, RestartPeriodicHeartbeat

\* The periodic HEARTBEAT goes out, or stops.
LEMMA PeriodicHeartbeatStep == ASSUME Inv, PeriodicHeartbeat PROVE Inv'
<1>0. cache \in SUBSET SN /\ highestSN \in Nat /\ matched \subseteq Readers
  BY ProxyAssumption DEF Inv, WriterInv
<1>1. stopping' \subseteq Stoppers
  BY Zenon DEF Inv, WriterInv, PeriodicHeartbeat, Stoppers
<1>2. WriterInv'
  BY <1>1, Zenon DEF Inv, WriterInv, WritingThreads, PeriodicHeartbeat
<1>3. RangeOf(cache, highestSN) \in HBRange
  BY <1>0, RangeType, Zenon
<1>4. \A r \in matched : Heartbeat(r, RangeOf(cache, highestSN)) \in Messages
  BY <1>0, <1>3, MessageTypes, Zenon
<1>5. net' \subseteq Messages
  BY <1>4, Zenon DEF PeriodicHeartbeat, Send, Inv, NetInv
<1> QED
  BY <1>2, <1>5, ReaderUnchanged, Zenon DEF Inv, NetInv, PeriodicHeartbeat

\* The second step of a stop clears the flag and keeps the rest.
LEMMA StopHeartbeatStep == ASSUME Inv, NEW s \in Stoppers, StopHeartbeat(s) PROVE Inv'
<1>1. hbRunning' \in BOOLEAN /\ stopping' \subseteq Stoppers
  BY Zenon DEF StopHeartbeat, Inv, WriterInv
<1>2. WriterInv'
  BY <1>1, Zenon DEF Inv, WriterInv, WritingThreads, StopHeartbeat
<1> QED
  BY <1>2, ReaderUnchanged, Zenon DEF Inv, NetInv, StopHeartbeat

\* A newly matched reader gets a HEARTBEAT, and a GAP for what it is not owed.
LEMMA PreemptiveHeartbeatStep == ASSUME Inv, NEW r \in Readers, PreemptiveHeartbeat(r) PROVE Inv'
<1>1. HeartbeatAndGap(r) \subseteq Messages
  BY HeartbeatAndGapType, Zenon DEF Inv
<1>2. net' \subseteq Messages
  BY <1>1, Zenon DEF PreemptiveHeartbeat, Send, Inv, NetInv
<1>3. rp' \in [Readers -> ReaderProxy]
  <2>1. rp \in [Readers -> ReaderProxy] /\ rp[r] \in ReaderProxy
    BY Zenon DEF Inv, WriterInv
  <2>2. [rp[r] EXCEPT !.firstHB = TRUE] \in ReaderProxy
    BY <2>1, Zenon DEF ReaderProxy
  <2>3. rp' = rp \/ rp' = [rp EXCEPT ![r] = [rp[r] EXCEPT !.firstHB = TRUE]]
    BY Zenon DEF PreemptiveHeartbeat
  <2> QED
    BY <2>1, <2>2, <2>3, Zenon
<1>4. WriterInv'
  BY <1>3, Zenon DEF Inv, WriterInv, WritingThreads, PreemptiveHeartbeat
<1> QED
  BY <1>2, <1>4, ReaderUnchanged, Zenon DEF Inv, NetInv, PreemptiveHeartbeat

\* What a reader asked for is sent again, or declared irrelevant.
LEMMA SendRequestedStep == ASSUME Inv, NEW r \in Readers, SendRequestedChanges(r) PROVE Inv'
<1>0. rp[r] \in ReaderProxy /\ rp[r].requested \in SUBSET SN
  BY Zenon DEF Inv, WriterInv, ReaderProxy
<1>1. RequestedData(r) \in SUBSET SN /\ RequestedGaps(r) \in SUBSET SN
  BY <1>0, Zenon DEF RequestedData, RequestedGaps
<1>2. \A n \in RequestedData(r) : Data(r, n, NoHB) \in Messages
  BY <1>1, NoHBType, MessageTypes, Zenon
<1>3. \A g \in {RequestedGaps(r)} \ {{}} : Gap(r, g) \in Messages
  BY <1>1, MessageTypes, Zenon
<1>4. net' \subseteq Messages
  BY <1>2, <1>3, Zenon DEF SendRequestedChanges, Send, Inv, NetInv
<1>5. rp' \in [Readers -> ReaderProxy]
  <2>1. [rp[r] EXCEPT !.requested = {}] \in ReaderProxy
    BY <1>0, Zenon DEF ReaderProxy
  <2>2. rp' = [rp EXCEPT ![r] = [rp[r] EXCEPT !.requested = {}]]
    BY Zenon DEF SendRequestedChanges
  <2> QED
    BY <2>1, <2>2, Zenon DEF Inv, WriterInv
<1>6. WriterInv'
  BY <1>5, Zenon DEF Inv, WriterInv, WritingThreads, SendRequestedChanges
<1> QED
  BY <1>4, <1>6, ReaderUnchanged, Zenon DEF Inv, NetInv, SendRequestedChanges

\* A change removed from the cache leaves the list of removals to process.
LEMMA RemovalStep == ASSUME Inv, NEW n \in SN, OnWriterCacheChangeRemoval(n) PROVE Inv'
<1>1. ASSUME NEW r \in Readers
      PROVE  [rp[r] EXCEPT !.requested = @ \ {n}] \in ReaderProxy
  <2>1. rp[r] \in ReaderProxy /\ rp[r].requested \ {n} \in SUBSET SN
    BY Zenon DEF Inv, WriterInv, ReaderProxy
  <2> QED
    BY <2>1, Zenon DEF ReaderProxy
<1>2. rp' \in [Readers -> ReaderProxy]
  BY <1>1, Zenon DEF OnWriterCacheChangeRemoval
<1>3. WriterInv'
  BY <1>2, Zenon DEF Inv, WriterInv, WritingThreads, OnWriterCacheChangeRemoval
<1> QED
  BY <1>3, ReaderUnchanged, Zenon DEF Inv, NetInv, OnWriterCacheChangeRemoval

\* Receiving a datagram adds nothing to the network.
LEMMA TakenType == ASSUME NetInv, NEW m PROVE Taken(m) \subseteq Messages
BY Zenon DEF NetInv, Taken

\* The writer takes in an ACKNACK.
LEMMA AcknackStep == ASSUME Inv, NEW m \in net, HandleAcknack(m) PROVE Inv'
<1> DEFINE r == m.reader
           a == LargerOf(rp[r].maxAcked, m.base - 1)
           s == IF m.missing = {} THEN rp[r].requested ELSE m.missing
           q == [rp EXCEPT ![r].maxAcked = a, ![r].requested = s]
<1>1. m.reader \in Readers /\ m.base \in Nat /\ m.missing \in SUBSET SN
  BY Zenon DEF Inv, NetInv, Messages, HandleAcknack
<1>2. rp \in [Readers -> ReaderProxy] /\ rp[r] \in ReaderProxy /\ WriterInv
  BY <1>1, Zenon DEF Inv, WriterInv
<1>3. a \in Nat \cup {Unknown} /\ s \in SUBSET SN
  BY <1>1, <1>2 DEF LargerOf, ReaderProxy, Unknown
<1>4. q \in [Readers -> ReaderProxy]
  <2> HIDE DEF a, s
  <2> QED
    BY <1>1, <1>2, <1>3, Zenon DEF ReaderProxy
<1>5. rp' = q /\ ProcessAckedChanges(MinAcked(q)) /\ net' = Taken(m)
  BY Zenon DEF HandleAcknack
<1>6. stopping' \subseteq Stoppers
  BY <1>2, Zenon DEF HandleAcknack, WriterInv, Stoppers
<1> HIDE DEF q
<1>7. MinAcked(q) \in Nat \cup {Unknown}
  BY <1>2, <1>4, MinAckedType, Zenon
<1>8. WriterInv'
  BY <1>2, <1>4, <1>5, <1>6, <1>7, PurgeType, Zenon DEF HandleAcknack, WriterInv, WritingThreads
<1>9. NetInv'
  BY <1>5, TakenType, Zenon DEF Inv, NetInv
<1> QED
  BY <1>8, <1>9, ReaderUnchanged, Zenon DEF Inv, HandleAcknack

\* The writer answers a preemptive ACKNACK.
LEMMA PreemptiveAcknackStep ==
    ASSUME Inv, NEW m \in net, HandlePreemptiveAcknack(m) PROVE Inv'
<1>1. m.reader \in Readers
  BY Zenon DEF Inv, NetInv, WriterInv, HandlePreemptiveAcknack
<1>2. HeartbeatAndGap(m.reader) \subseteq Messages
  BY <1>1, HeartbeatAndGapType, Zenon DEF Inv
<1>3. NetInv'
  BY <1>2, TakenType, Zenon DEF Inv, NetInv, HandlePreemptiveAcknack
<1> QED
  BY <1>3, WriterUnchanged, ReaderUnchanged, Zenon DEF Inv, HandlePreemptiveAcknack

----------------------------------------------------------------------------
(* Actions of a reader *)

\* A handler whose result is safe leaves every reader's deliveries in order.
LEMMA DeliverStep ==
    ASSUME DeliveryInv, NEW r \in Readers, NEW res, SafeResult(wp[r], res), Deliver(r, res)
    PROVE  DeliveryInv' /\ Advances
<1> DEFINE d == [n \in SN |-> IF n \in res.out THEN delivered[r][n] + 1 ELSE delivered[r][n]]
<1>0. /\ wp \in [Readers -> Proxy] /\ delivered \in [Readers -> [SN -> Nat]]
      /\ lost \in [Readers -> Nat]
  BY Zenon DEF DeliveryInv
<1>1. /\ Separated(res.wp) /\ res.wp \in Proxy /\ res.lost \in Nat
      /\ wp[r].expected \in Int /\ res.wp.expected \in Int
      /\ wp[r].expected <= res.wp.expected
      /\ \A o \in res.out : wp[r].expected <= o /\ o < res.wp.expected
  BY <1>0, Zenon DEF SafeResult, Separated, Proxy
<1>2. /\ wp' = [wp EXCEPT ![r] = res.wp]
      /\ delivered' = [delivered EXCEPT ![r] = d]
      /\ lost' = [lost EXCEPT ![r] = @ + res.lost]
  BY Zenon DEF Deliver
<1>3. d \in [SN -> Nat]
  BY <1>0
<1>4. \A n \in SN : d[n] <= 1 /\ (d[n] > 0 => n < res.wp.expected)
  <2> SUFFICES ASSUME NEW n \in SN PROVE d[n] <= 1 /\ (d[n] > 0 => n < res.wp.expected)
    BY Zenon
  <2>1. /\ n \in Int /\ delivered[r][n] \in Nat /\ delivered[r][n] <= 1
        /\ delivered[r][n] > 0 => n < wp[r].expected
    BY <1>0, SNInt, NatIsInt, Zenon DEF DeliveryInv, GivenOnce
  <2>2. CASE n \in res.out
    <3>1. wp[r].expected <= n /\ n < res.wp.expected
      BY <1>1, <2>2, Zenon
    <3>2. delivered[r][n] = 0
      BY <1>1, <2>1, <3>1
    <3>3. d[n] = delivered[r][n] + 1
      BY <2>2, Zenon
    <3> HIDE DEF d
    <3>4. d[n] <= 1
      BY ONLY <3>2, <3>3
    <3> QED
      BY <3>1, <3>4, Zenon
  <2>3. CASE n \notin res.out
    <3>1. d[n] = delivered[r][n]
      BY <2>3, Zenon
    <3> HIDE DEF d
    <3> QED
      BY <1>1, <2>1, <3>1
  <2> QED
    BY <2>2, <2>3, Zenon
<1> HIDE DEF d
<1>5. /\ wp' \in [Readers -> Proxy] /\ delivered' \in [Readers -> [SN -> Nat]]
      /\ lost' \in [Readers -> Nat]
  <2>1. lost[r] \in Nat /\ res.lost \in Nat
    BY <1>0, <1>1, Zenon
  <2>2. lost[r] + res.lost \in Nat
    BY ONLY <2>1
  <2> QED
    BY <1>0, <1>1, <1>2, <1>3, <2>2, Zenon
<1>6. ASSUME NEW q \in Readers
      PROVE  (Separated(wp[q]) /\ GivenOnce(q))'
  <2>1. CASE q = r
    <3>1. wp'[q] = res.wp /\ delivered'[q] = d
      BY <1>0, <1>2, <2>1, Zenon
    <3> QED
      BY <1>1, <1>4, <3>1, Zenon DEF GivenOnce
  <2>2. CASE q # r
    <3>1. wp'[q] = wp[q] /\ delivered'[q] = delivered[q]
      BY <1>0, <1>2, <2>2, Zenon
    <3> QED
      BY <3>1, Zenon DEF DeliveryInv, GivenOnce
  <2> QED
    BY <2>1, <2>2, Zenon
<1>7. Advances
  <2>a. \A q \in Readers \ {r} : wp'[q] = wp[q] /\ delivered'[q] = delivered[q]
    BY <1>0, <1>2, Zenon
  <2>b. OneReader
    BY <2>a, Zenon DEF OneReader
  <2> SUFFICES ASSUME NEW q \in Readers PROVE AdvancesReader(q)
    BY <2>b, Zenon DEF Advances
  <2>c. wp[q].expected <= wp'[q].expected
    <3>1. CASE q = r
      BY <1>0, <1>1, <1>2, <3>1, Zenon
    <3>2. CASE q # r
      BY <1>0, <2>a, <3>2 DEF Proxy
    <3> QED
      BY <3>1, <3>2, Zenon
  <2> SUFFICES ASSUME NEW n \in SN
               PROVE  \/ delivered'[q][n] = delivered[q][n]
                      \/ /\ delivered'[q][n] = delivered[q][n] + 1
                         /\ wp[q].expected <= n
                         /\ n < wp'[q].expected
    BY <2>c, Zenon DEF AdvancesReader
  <2>1. CASE q = r
    <3>1. wp'[q] = res.wp /\ delivered'[q] = d
      BY <1>0, <1>2, <2>1, Zenon
    <3>2. d[n] = IF n \in res.out THEN delivered[r][n] + 1 ELSE delivered[r][n]
      BY Zenon DEF d
    <3>3. CASE n \in res.out
      <4>1. d[n] = delivered[r][n] + 1
        BY <3>2, <3>3, Zenon
      <4>2. wp[r].expected <= n /\ n < res.wp.expected
        BY <1>1, <3>3, Zenon
      <4> QED
        BY <1>1, <2>1, <3>1, <4>1, <4>2, Zenon
    <3>4. CASE n \notin res.out
      <4>1. d[n] = delivered[r][n]
        BY <3>2, <3>4, Zenon
      <4> QED
        BY <1>1, <2>1, <3>1, <4>1, Zenon
    <3> QED
      BY <3>3, <3>4, Zenon
  <2>2. CASE q # r
    BY <2>a, <2>2, Zenon
  <2> QED
    BY <2>1, <2>2, Zenon
<1> QED
  BY <1>5, <1>6, <1>7, Zenon DEF DeliveryInv

\* The reader takes in a DATA.
LEMMA DataStep == ASSUME Inv, NEW m \in net, HandleData(m) PROVE Inv' /\ Advances
<1>1. m.reader \in Readers /\ m.sn \in SN /\ m.hb \in HBRange
  BY Zenon DEF Inv, NetInv, Messages, HandleData
<1>2. SafeResult(wp[m.reader], DeliverChangeToReader(wp[m.reader], m.sn))
  BY <1>1, DataSafe, Zenon DEF Inv, DeliveryInv
<1>3. DeliveryInv' /\ Advances
  BY <1>1, <1>2, DeliverStep, Zenon DEF Inv, HandleData
<1>4. ReaderInv'
  BY <1>1, Zenon DEF Inv, ReaderInv, HandleData
<1>5. NetInv'
  BY TakenType, Zenon DEF Inv, NetInv, HandleData
<1> QED
  BY <1>3, <1>4, <1>5, WriterUnchanged, Zenon DEF Inv, HandleData

\* The reader takes in a GAP.
LEMMA GapStep == ASSUME Inv, NEW m \in net, HandleGap(m) PROVE Inv' /\ Advances
<1>1. m.reader \in Readers /\ m.sns \in SUBSET SN /\ m.sns # {}
  BY Zenon DEF Inv, NetInv, Messages, HandleGap
<1>2. SafeResult(wp[m.reader], GapHandler(wp[m.reader], m.sns))
  BY <1>1, GapSafe, Zenon DEF Inv, DeliveryInv
<1>3. DeliveryInv' /\ Advances
  BY <1>1, <1>2, DeliverStep, Zenon DEF Inv, HandleGap
<1>4. ReaderInv'
  BY <1>1, Zenon DEF Inv, ReaderInv, HandleGap
<1>5. NetInv'
  BY TakenType, Zenon DEF Inv, NetInv, HandleGap
<1> QED
  BY <1>3, <1>4, <1>5, WriterUnchanged, Zenon DEF Inv, HandleGap

\* The ACKNACK a reader makes of its proxy is a datagram.
LEMMA AcknackOfType ==
    ASSUME NEW r \in Readers, NEW base \in Nat, NEW S \in SUBSET SN
    PROVE  AcknackOf(r, base, S) \in Messages
<1>1. {n \in S : n >= base} \in SUBSET SN
  BY Zenon
<1> QED
  BY <1>1, MessageTypes, Zenon DEF AcknackOf

\* What a reader misses are sequence numbers.
LEMMA MissingType == \A w, first, last : MissingChanges(w, first, last) \in SUBSET SN
BY Zenon DEF MissingChanges

\* A HEARTBEAT, whichever datagram brought it.
LEMMA HeartbeatStep ==
    ASSUME Inv, NEW r \in Readers, NEW hb \in HBRange, NEW rest, rest \subseteq Messages,
           HandleHeartbeat(r, hb, rest)
    PROVE  /\ DeliveryInv' /\ Advances /\ NetInv'
           /\ hbSeen' \in [Readers -> Nat] /\ ackTimer' \subseteq Readers
<1> DEFINE p == ProcessHeartbeat(wp[r], hb.first, hb.last)
           a == AcknackOf(r, CalculateBitmapBase(p), MissingChanges(p, p.expected, hb.last))
<1>1. hb.first \in Nat /\ hb.last \in Nat /\ wp[r] \in Proxy /\ Separated(wp[r])
  BY Zenon DEF HBRange, Inv, DeliveryInv
<1>2. SafeResult(wp[r], HeartbeatHandler(wp[r], hb.first, hb.last))
  BY <1>1, HeartbeatSafe, Zenon
<1>3. DeliveryInv' /\ Advances
  BY <1>2, DeliverStep, Zenon DEF Inv, HandleHeartbeat
<1>4. CalculateBitmapBase(p) \in Nat
  BY <1>1, ProcessHeartbeatType, BitmapBaseType, Zenon
<1>5. a \in Messages
  BY <1>4, MissingType, AcknackOfType, Zenon
<1>6. net' = rest \cup {a} \/ net' = rest
  BY Zenon DEF HandleHeartbeat
<1> HIDE DEF a
<1>7. NetInv'
  BY <1>5, <1>6, Zenon DEF NetInv
<1>8. hbSeen' \in [Readers -> Nat]
  BY <1>1, Zenon DEF HandleHeartbeat, Inv, ReaderInv, LargerOf
<1>9. ackTimer' \subseteq Readers
  BY Zenon DEF HandleHeartbeat, Inv, ReaderInv
<1> QED
  BY <1>3, <1>7, <1>8, <1>9, Zenon

\* The reader takes in a HEARTBEAT of its own.
LEMMA HeartbeatMessageStep ==
    ASSUME Inv, NEW m \in net, HandleHeartbeatMessage(m) PROVE Inv' /\ Advances
<1>1. m.reader \in Readers /\ m.hb \in HBRange
  BY Zenon DEF Inv, NetInv, Messages, HandleHeartbeatMessage
<1>2. Taken(m) \subseteq Messages
  BY TakenType, Zenon DEF Inv
<1>3. /\ DeliveryInv' /\ Advances /\ NetInv'
      /\ hbSeen' \in [Readers -> Nat] /\ ackTimer' \subseteq Readers
  BY <1>1, <1>2, HeartbeatStep, Zenon DEF HandleHeartbeatMessage
<1>4. ReaderInv'
  BY <1>3, Zenon DEF Inv, ReaderInv, HandleHeartbeatMessage
<1> QED
  BY <1>3, <1>4, WriterUnchanged, Zenon DEF Inv, HandleHeartbeatMessage

\* The reader takes in the HEARTBEAT that came with a DATA.
LEMMA PiggybackStep ==
    ASSUME Inv, NEW r \in Readers, HandlePiggybackHeartbeat(r) PROVE Inv' /\ Advances
<1>1. rx[r] \in HBRange /\ net \subseteq Messages
  BY Zenon DEF Inv, ReaderInv, NetInv
<1>2. /\ DeliveryInv' /\ Advances /\ NetInv'
      /\ hbSeen' \in [Readers -> Nat] /\ ackTimer' \subseteq Readers
  BY <1>1, HeartbeatStep, Zenon DEF HandlePiggybackHeartbeat
<1>3. ReaderInv'
  BY <1>2, NoHBType, Zenon DEF Inv, ReaderInv, HandlePiggybackHeartbeat
<1> QED
  BY <1>2, <1>3, WriterUnchanged, Zenon DEF Inv, HandlePiggybackHeartbeat

\* The count filter drops the HEARTBEAT that came with a DATA.
LEMMA RejectStep == ASSUME Inv, NEW r \in Readers, RejectPiggybackHeartbeat(r) PROVE Inv'
<1>1. ReaderInv'
  BY NoHBType, Zenon DEF Inv, ReaderInv, RejectPiggybackHeartbeat
<1>2. DeliveryInv'
  BY Zenon DEF Inv, DeliveryInv, GivenOnce, RejectPiggybackHeartbeat
<1> QED
  BY <1>1, <1>2, WriterUnchanged, Zenon DEF Inv, NetInv, RejectPiggybackHeartbeat

\* The response delay ends and an ACKNACK is queued.
LEMMA AcknackTimerStep == ASSUME Inv, NEW r \in Readers, AcknackTimer(r) PROVE Inv'
<1>1. ReaderInv'
  BY DEF Inv, ReaderInv, AcknackTimer
<1>2. DeliveryInv'
  BY Zenon DEF Inv, DeliveryInv, GivenOnce, AcknackTimer
<1> QED
  BY <1>1, <1>2, WriterUnchanged, Zenon DEF Inv, NetInv, AcknackTimer

\* The sending task makes the ACKNACK and sends it.
LEMMA SendAcknackStep == ASSUME Inv, NEW r \in Readers, SendAcknack(r) PROVE Inv'
<1> DEFINE base == CalculateBitmapBase(wp[r])
           a == AcknackOf(r, base, MissingChanges(wp[r], base, ChangesFromWriterMax(wp[r])))
<1>1. base \in Nat
  BY BitmapBaseType, Zenon DEF Inv, DeliveryInv
<1>2. a \in Messages
  BY <1>1, MissingType, AcknackOfType, Zenon
<1>3. net' = net \cup {a}
  BY Zenon DEF SendAcknack, Send
<1> HIDE DEF a
<1>4. NetInv'
  BY <1>2, <1>3, Zenon DEF Inv, NetInv
<1>5. ReaderInv'
  BY DEF Inv, ReaderInv, SendAcknack
<1>6. DeliveryInv'
  BY Zenon DEF Inv, DeliveryInv, GivenOnce, SendAcknack
<1> QED
  BY <1>4, <1>5, <1>6, WriterUnchanged, Zenon DEF Inv, SendAcknack

\* A reader that heard nothing asks the writer to speak.
LEMMA SendPreemptiveStep == ASSUME Inv, NEW r \in Readers, SendPreemptiveAcknack(r) PROVE Inv'
<1>1. NetInv'
  BY MessageTypes DEF Inv, NetInv, SendPreemptiveAcknack, Send
<1>2. ReaderInv'
  BY Zenon DEF Inv, ReaderInv, SendPreemptiveAcknack
<1>3. DeliveryInv'
  BY Zenon DEF Inv, DeliveryInv, GivenOnce, SendPreemptiveAcknack
<1> QED
  BY <1>1, <1>2, <1>3, WriterUnchanged, Zenon DEF Inv, SendPreemptiveAcknack

----------------------------------------------------------------------------
(* The invariant *)

\* The invariant holds before anything is written or matched.
LEMMA InitInv == Init => Inv
<1> SUFFICES ASSUME Init PROVE Inv
  BY Zenon
<1>1. NewReaderProxy(0) \in ReaderProxy
  BY ProxyAssumption DEF NewReaderProxy, ReaderProxy
<1>2. WriterInv
  <2>1. /\ app \in [Threads -> [pc : {"idle", "allocated", "evicted", "added"},
                                sn : 0..MaxSN, key : Keys \cup {"none"}]]
        /\ WritingThreads
    <3>1. 0 \in 0..MaxSN
      BY ProxyAssumption
    <3>2. app \in [Threads -> [pc : {"idle", "allocated", "evicted", "added"},
                               sn : 0..MaxSN, key : Keys \cup {"none"}]]
      BY <3>1, Zenon DEF Init, Idle
    <3>3. WritingThreads
      BY Zenon DEF Init, WritingThreads, Idle
    <3> QED
      BY <3>2, <3>3, Zenon
  <2>2. hbRunning \in BOOLEAN /\ hbRestart \in BOOLEAN
    BY Zenon DEF Init
  <2>3. 0 \in 0..MaxSN
    BY ProxyAssumption
  <2> QED
    BY <1>1, <2>1, <2>2, <2>3, Zenon DEF Init, WriterInv
<1>3. NewProxy \in Proxy /\ NewProxy.buffered = {}
  <2>1. Unknown \in Int
    BY DEF Unknown
  <2> QED
    BY <2>1, Zenon DEF NewProxy, Proxy, Status
<1>4. Separated(NewProxy)
  BY <1>3, FS_EmptySet, ProxyAssumption DEF Separated
<1>5. DeliveryInv
  BY <1>3, <1>4 DEF Init, DeliveryInv, GivenOnce
<1>6. ReaderInv
  BY NoHBType, Zenon DEF Init, ReaderInv
<1>7. NetInv
  BY Zenon DEF Init, NetInv
<1> QED
  BY <1>2, <1>5, <1>6, <1>7, Zenon DEF Inv

\* Every step keeps the invariant and only moves deliveries forward.
LEMMA NextInv == ASSUME Inv, [Next]_vars PROVE Inv' /\ Advances
<1>0. ASSUME UNCHANGED <<wp, delivered>> PROVE Advances
  BY <1>0, DeliveryUnchanged, Zenon DEF Inv
<1>1. CASE Application
  <2>1. PICK t \in Threads : \/ AllocateSequenceNumber(t) \/ EnsureCapacity(t)
                             \/ AddChange(t) \/ PurgeAfterWrite(t)
    BY <1>1, Zenon DEF Application
  <2>2. Inv'
    BY <2>1, AllocateStep, EnsureCapacityStep, AddChangeStep, PurgeAfterWriteStep, Zenon
  <2>3. UNCHANGED <<wp, delivered>>
    BY <2>1, Zenon DEF AllocateSequenceNumber, EnsureCapacity, AddChange, PurgeAfterWrite, readerVars
  <2> QED
    BY <1>0, <2>2, <2>3, Zenon
<1>2. CASE WriterTasks
  <2>1. Inv'
    BY <1>2, RestartStep, PeriodicHeartbeatStep, StopHeartbeatStep, MatchedReaderAddStep,
       PreemptiveHeartbeatStep, SendRequestedStep, RemovalStep, Zenon DEF WriterTasks
  <2>2. UNCHANGED <<wp, delivered>>
    BY <1>2, Zenon DEF WriterTasks, RestartPeriodicHeartbeat, PeriodicHeartbeat, StopHeartbeat, MatchedReaderAdd,
       PreemptiveHeartbeat, SendRequestedChanges, OnWriterCacheChangeRemoval, readerVars
  <2> QED
    BY <1>0, <2>1, <2>2, Zenon
<1>3. ASSUME NEW r \in Readers, ReaderTask(r) PROVE Inv' /\ Advances
  <2>1. CASE HandlePiggybackHeartbeat(r)
    BY <2>1, PiggybackStep, Zenon
  <2>2. CASE RejectPiggybackHeartbeat(r)
    BY <1>0, <2>2, RejectStep, Zenon DEF RejectPiggybackHeartbeat
  <2>3. CASE AcknackTimer(r)
    BY <1>0, <2>3, AcknackTimerStep, Zenon DEF AcknackTimer
  <2>4. CASE SendAcknack(r)
    BY <1>0, <2>4, SendAcknackStep, Zenon DEF SendAcknack
  <2>5. CASE SendPreemptiveAcknack(r)
    BY <1>0, <2>5, SendPreemptiveStep, Zenon DEF SendPreemptiveAcknack
  <2> QED
    BY <1>3, <2>1, <2>2, <2>3, <2>4, <2>5, Zenon DEF ReaderTask
<1>4. ASSUME NEW m \in net, Receive(m) PROVE Inv' /\ Advances
  <2>1. CASE HandleAcknack(m)
    BY <1>0, <2>1, AcknackStep, Zenon DEF HandleAcknack, readerVars
  <2>2. CASE HandlePreemptiveAcknack(m)
    BY <1>0, <2>2, PreemptiveAcknackStep, Zenon DEF HandlePreemptiveAcknack, readerVars
  <2>3. CASE HandleData(m)
    BY <2>3, DataStep, Zenon
  <2>4. CASE HandleHeartbeatMessage(m)
    BY <2>4, HeartbeatMessageStep, Zenon
  <2>5. CASE HandleGap(m)
    BY <2>5, GapStep, Zenon
  <2> QED
    BY <1>4, <2>1, <2>2, <2>3, <2>4, <2>5, Zenon DEF Receive
<1>5. CASE UNCHANGED vars
  <2>1. UNCHANGED <<wp, delivered>>
    BY <1>5, Zenon DEF vars, readerVars
  <2>2. Inv'
    BY <1>5, WriterUnchanged, ReaderUnchanged, Zenon DEF Inv, NetInv, vars
  <2> QED
    BY <1>0, <2>1, <2>2, Zenon
<1> QED
  BY <1>1, <1>2, <1>3, <1>4, <1>5, Zenon DEF Next

\* Inv holds in every state of the protocol.
THEOREM Invariance == Spec => []Inv
<1>1. Init => Inv
  BY InitInv, Zenon
<1>2. Inv /\ [Next]_vars => Inv'
  BY NextInv, Zenon
<1> QED
  BY <1>1, <1>2, PTL DEF Spec

\* Every variable of writer, readers and network keeps its type.
THEOREM TypeCorrect == Spec => []TypeOK
<1>1. Inv => TypeOK
  BY Zenon DEF Inv, WriterInv, DeliveryInv, ReaderInv, NetInv, TypeOK
<1> QED
  BY <1>1, Invariance, PTL

\* The cursor expected_sn separates what a reader was given from what
\* it buffers, for any loss, duplication and reordering of datagrams.
THEOREM CursorSafe == Spec => []CursorSeparates
<1>1. Inv => CursorSeparates
  BY Zenon DEF Inv, DeliveryInv, Separated, GivenOnce, CursorSeparates, Received
<1> QED
  BY <1>1, Invariance, PTL

\* deliver_change_to_reader and the flushes give a sample to a reader's history
\* at most once.
THEOREM AtMostOnce == Spec => []NoDuplicateDelivery
<1>1. Inv => NoDuplicateDelivery
  BY Zenon DEF Inv, DeliveryInv, GivenOnce, NoDuplicateDelivery
<1> QED
  BY <1>1, Invariance, PTL

\* The in-order buffer stays below its limit.
THEOREM BufferLimit == Spec => []BufferBounded
<1>1. Inv => BufferBounded
  BY Zenon DEF Inv, DeliveryInv, Separated, BufferBounded
<1> QED
  BY <1>1, Invariance, PTL

\* Samples reach a reader's history in the order of their sequence numbers.
THEOREM InOrder == Spec => OrderedDelivery
<1> DEFINE A == \A r \in Readers, m, n \in SN :
                    /\ delivered[r][m] > 0
                    /\ delivered'[r][n] > delivered[r][n]
                    => m < n
<1>1. ASSUME Inv, [Next]_vars PROVE [A]_vars
  <2> SUFFICES ASSUME NEW r \in Readers, NEW m \in SN, NEW n \in SN,
                      delivered[r][m] > 0, delivered'[r][n] > delivered[r][n]
               PROVE  m < n
    BY Zenon
  <2>1. m < wp[r].expected /\ wp[r].expected \in Int /\ delivered[r][n] \in Nat
    BY <1>1, Zenon DEF Inv, DeliveryInv, GivenOnce, Proxy
  <2>2. wp[r].expected <= n
    <3>1. Advances
      BY <1>1, NextInv, Zenon
    <3>2. AdvancesReader(r)
      BY <3>1, Zenon DEF Advances
    <3>3. \/ delivered'[r][n] = delivered[r][n]
          \/ wp[r].expected <= n
      BY <3>2, Zenon DEF AdvancesReader
    <3>4. delivered'[r][n] # delivered[r][n]
      BY <2>1
    <3> QED
      BY <3>3, <3>4, Zenon
  <2>3. m \in Int /\ n \in Int
    BY SNInt, NatIsInt, Zenon
  <2> QED
    BY <2>1, <2>2, <2>3
<1> HIDE DEF A
<1>2. Inv /\ [Next]_vars => [A]_vars
  BY <1>1, Zenon
<1>3. Spec => [][A]_vars
  BY <1>2, Invariance, PTL DEF Spec
<1> QED
  BY <1>3, Zenon DEF OrderedDelivery, A

\* One step gives samples to one reader, between its old and its new cursor.
LEMMA GiveStep ==
    ASSUME Inv, Inv', Advances
    PROVE  \/ UNCHANGED <<[r \in Readers |-> wp[r].expected], [r \in Readers |-> Received(r)]>>
           \/ \E r \in Readers : Channel!Give(r)
<1> DEFINE c == [r \in Readers |-> wp[r].expected]
           e == [r \in Readers |-> Received(r)]
<1>1. CASE UNCHANGED <<wp, delivered>>
  BY <1>1, Zenon DEF Received
<1>2. ASSUME NEW r \in Readers,
             \A q \in Readers \ {r} : wp'[q] = wp[q] /\ delivered'[q] = delivered[q]
      PROVE  Channel!Give(r)
  <2>1. c[r] = wp[r].expected /\ c'[r] = wp'[r].expected /\ e[r] = Received(r) /\ e'[r] = Received(r)'
    BY Zenon
  <2>2. c' = [c EXCEPT ![r] = c'[r]]
    BY <1>2, Zenon
  <2>3. e' = [e EXCEPT ![r] = e'[r]]
    BY <1>2, Zenon DEF Received
  <2>4. AdvancesReader(r)
    BY Zenon DEF Advances
  <2>5. delivered \in [Readers -> [SN -> Nat]]
    BY Zenon DEF Inv, DeliveryInv
  <2>6. \A n \in Received(r) : n \in Received(r)'
    <3> SUFFICES ASSUME NEW n \in SN, delivered[r][n] > 0 PROVE delivered'[r][n] > 0
      BY Zenon DEF Received
    <3>1. delivered[r][n] \in Nat
      BY <2>5, Zenon
    <3>2. delivered'[r][n] = delivered[r][n] \/ delivered'[r][n] = delivered[r][n] + 1
      BY <2>4, Zenon DEF AdvancesReader
    <3> QED
      BY <3>1, <3>2
  <2>7. \A n \in Received(r)' \ Received(r) : wp[r].expected <= n /\ n < wp'[r].expected
    BY <2>4, <2>5, Zenon DEF AdvancesReader, Received
  <2>8. wp[r].expected <= wp'[r].expected
    BY <2>4, Zenon DEF AdvancesReader
  <2> HIDE DEF c, e
  <2> QED
    BY <2>1, <2>2, <2>3, <2>6, <2>7, <2>8, Zenon DEF Channel!Give, c, e
<1>3. CASE \E r \in Readers : \A q \in Readers \ {r} :
               wp'[q] = wp[q] /\ delivered'[q] = delivered[q]
  <2>1. PICK r \in Readers : \A q \in Readers \ {r} :
               wp'[q] = wp[q] /\ delivered'[q] = delivered[q]
    BY <1>3, Zenon
  <2>2. Channel!Give(r)
    BY <1>2, <2>1, Zenon
  <2> QED
    BY <2>2, Zenon
<1> QED
  BY <1>1, <1>3, Zenon DEF Advances, OneReader

\* Writer, network and reader implement the in-order channel.
THEOREM Refinement == Spec => ImplementsChannel
<1>1. Init => Channel!ChannelInit
  BY DEF Init, Channel!ChannelInit, NewProxy, Received
<1>2. Inv /\ [Next]_vars =>
        [\E r \in Readers : Channel!Give(r)]_<<[r \in Readers |-> wp[r].expected],
                                                [r \in Readers |-> Received(r)]>>
  BY NextInv, GiveStep, Zenon
<1> QED
  BY <1>1, <1>2, Invariance, PTL DEF Spec, ImplementsChannel, Channel!ChannelSpec

----------------------------------------------------------------------------
(* SAMPLE_LOST *)

\* What a handler delivers is added to what its reader received; nobody else is concerned.
LEMMA ReceivedGrows ==
    ASSUME DeliveryInv, NEW r \in Readers, NEW res, res.out \subseteq SN, Deliver(r, res)
    PROVE  /\ wp'[r] = res.wp /\ Received(r)' = Received(r) \cup res.out
           /\ lost'[r] = lost[r] + res.lost
           /\ \A q \in Readers \ {r} : /\ wp'[q] = wp[q] /\ Received(q)' = Received(q)
                                       /\ lost'[q] = lost[q]
<1> DEFINE d == [n \in SN |-> IF n \in res.out THEN delivered[r][n] + 1 ELSE delivered[r][n]]
<1>0. /\ wp \in [Readers -> Proxy] /\ delivered \in [Readers -> [SN -> Nat]]
      /\ lost \in [Readers -> Nat]
  BY Zenon DEF DeliveryInv
<1>1. wp'[r] = res.wp /\ lost'[r] = lost[r] + res.lost
  BY <1>0, Zenon DEF Deliver
<1>2. delivered' = [delivered EXCEPT ![r] = d]
  BY Zenon DEF Deliver
<1>3. Received(r)' = Received(r) \cup res.out
  <2>1. delivered'[r] = d
    BY <1>0, <1>2, Zenon
  <2>2. \A n \in SN : d[n] > 0 <=> delivered[r][n] > 0 \/ n \in res.out
    BY <1>0
  <2> HIDE DEF d
  <2> QED
    BY <2>1, <2>2, Zenon DEF Received
<1>4. ASSUME NEW q \in Readers \ {r}
      PROVE  wp'[q] = wp[q] /\ Received(q)' = Received(q) /\ lost'[q] = lost[q]
  BY <1>0, Zenon DEF Deliver, Received
<1> QED
  BY <1>1, <1>3, <1>4, Zenon

\* A HEARTBEAT that is there starts at a sequence number.
StartsRight(hb) == hb = NoHB \/ hb.first >= 1

Starts(m) == /\ m.type = "DATA" => StartsRight(m.hb)
             /\ m.type = "HEARTBEAT" => m.hb.first >= 1

StartInv == /\ \A r \in Readers : StartsRight(rx[r])
            /\ \A m \in net : Starts(m)

CountInv ==
    \A r \in Readers : /\ Tidy(wp[r], Received(r))
                       /\ lost[r] <= Cardinality(Passed(wp[r], Received(r)))

LossInv == StartInv /\ CountInv

\* The range of a cache starts at a sequence number.
LEMMA RangeStarts ==
    ASSUME NEW c \in SUBSET SN, NEW h \in Nat
    PROVE  RangeOf(c, h).first >= 1
<1>1. CASE c = {}
  BY <1>1 DEF RangeOf
<1>2. CASE c # {}
  <2>1. c \in SUBSET Nat
    BY SNType, Zenon
  <2>2. Min(c) \in c
    BY <1>2, <2>1, MinNat, Zenon
  <2>3. Min(c) >= 1
    BY <2>2, SNInt, Zenon
  <2> QED
    BY <1>2, <2>3, Zenon DEF RangeOf
<1> QED
  BY <1>1, <1>2, Zenon

\* Only DATA and HEARTBEAT carry a range.
LEMMA StartsOf ==
    ASSUME NEW r, NEW n, NEW hb, NEW sns, NEW base
    PROVE  /\ StartsRight(hb) => Starts(Data(r, n, hb))
           /\ hb.first >= 1 => Starts(Heartbeat(r, hb))
           /\ Starts(Gap(r, sns))
           /\ Starts(Acknack(r, base, sns))
           /\ Starts(Preemptive(r))
<1>1. StartsRight(hb) => Starts(Data(r, n, hb))
  BY Zenon DEF Starts, Data
<1>2. hb.first >= 1 => Starts(Heartbeat(r, hb))
  BY Zenon DEF Starts, Heartbeat
<1>3. Starts(Gap(r, sns))
  BY Zenon DEF Starts, Gap
<1>4. Starts(Acknack(r, base, sns))
  BY Zenon DEF Starts, Acknack
<1>5. Starts(Preemptive(r))
  BY Zenon DEF Starts, Preemptive
<1> QED
  BY <1>1, <1>2, <1>3, <1>4, <1>5, Zenon

\* What a write sends starts right.
LEMMA UnsentStarts ==
    ASSUME NEW c, NEW r, NEW hb, StartsRight(hb), NEW m \in UnsentMessages(c, hb, r)
    PROVE  Starts(m)
<1>1. StartsRight(IF Piggyback THEN hb ELSE NoHB)
  BY Zenon DEF StartsRight
<1> QED
  BY <1>1, StartsOf, Zenon DEF UnsentMessages

\* The HEARTBEAT to one reader and the GAP behind it start right.
LEMMA HeartbeatAndGapStarts ==
    ASSUME WriterInv, NEW r, NEW m \in HeartbeatAndGap(r)
    PROVE  Starts(m)
<1>1. cache \in SUBSET SN /\ highestSN \in Nat
  BY ProxyAssumption DEF WriterInv
<1>2. Starts(Heartbeat(r, RangeOf(cache, highestSN)))
  BY <1>1, RangeStarts, StartsOf, Zenon
<1> QED
  BY <1>2, StartsOf, Zenon DEF HeartbeatAndGap

\* A handler whose reports are counted keeps the count.
LEMMA DeliverCounted ==
    ASSUME DeliveryInv, CountInv, NEW r \in Readers, NEW res, Deliver(r, res),
           res.out \subseteq SN, res.lost \in Nat, Counted(wp[r], Received(r), res)
    PROVE  CountInv'
<1> SUFFICES ASSUME NEW q \in Readers
             PROVE  /\ Tidy(wp'[q], Received(q)')
                    /\ lost'[q] <= Cardinality(Passed(wp'[q], Received(q)'))
  BY Zenon DEF CountInv, Tidy, Passed, Separated, CursorSet, IsSettled
<1>1. CASE q = r
  <2> DEFINE H == Received(r) \cup res.out
             old == Cardinality(Passed(wp[r], Received(r)))
             new == Cardinality(Passed(res.wp, H))
  <2>1. wp'[q] = res.wp /\ Received(q)' = H /\ lost'[q] = lost[r] + res.lost
    BY <1>1, ReceivedGrows, Zenon
  <2>2. Tidy(res.wp, H) /\ old + res.lost <= new
    BY Zenon DEF Counted
  <2>3. Passed(wp[r], Received(r)) \in SUBSET SN /\ Passed(res.wp, H) \in SUBSET SN
    BY Zenon DEF Passed
  <2>4. old \in Nat /\ new \in Nat
    BY <2>3, SubsetOfSN, Zenon
  <2>5. lost[r] \in Nat /\ lost[r] <= old
    BY Zenon DEF DeliveryInv, CountInv
  <2> HIDE DEF old, new
  <2>6. lost[r] + res.lost <= new
    BY ONLY <2>2, <2>4, <2>5, res.lost \in Nat
  <2> QED
    BY <2>1, <2>2, <2>6, Zenon DEF new
<1>2. CASE q # r
  BY <1>2, ReceivedGrows, ZenonT(30) DEF CountInv
<1> QED
  BY <1>1, <1>2, Zenon

\* What is left of the network after a datagram was received starts right.
LEMMA TakenStarts == ASSUME StartInv, NEW m PROVE \A k \in Taken(m) : Starts(k)
BY Zenon DEF StartInv, Taken

\* Steps that leave proxies, deliveries and reports alone keep the count.
LEMMA CountUnchanged == CountInv /\ UNCHANGED <<wp, delivered, lost>> => CountInv'
BY ZenonT(30) DEF CountInv, Received, Tidy, Passed, Separated, CursorSet, IsSettled

\* A write sends ranges that start right.
LEMMA AddChangeStarts == ASSUME Inv, StartInv, NEW t \in Threads, AddChange(t) PROVE StartInv'
<1>1. cache' \in SUBSET SN /\ highestSN' \in Nat
  BY AddChangeStep, ProxyAssumption DEF Inv, WriterInv
<1>2. StartsRight(RangeOf(cache', highestSN'))
  BY <1>1, RangeStarts, Zenon DEF StartsRight
<1>3. \A r \in matched : \A m \in UnsentMessages(cache', RangeOf(cache', highestSN'), r) : Starts(m)
  BY <1>2, UnsentStarts, Zenon
<1>4. \A m \in net' : Starts(m)
  BY <1>3, Zenon DEF AddChange, Send, StartInv
<1> QED
  BY <1>4, Zenon DEF AddChange, readerVars, StartInv, StartsRight

\* The steps of writing threads keep LossInv.
LEMMA ApplicationLoss == ASSUME Inv, LossInv, Application PROVE LossInv'
<1>1. PICK t \in Threads : \/ AllocateSequenceNumber(t) \/ EnsureCapacity(t)
                           \/ AddChange(t) \/ PurgeAfterWrite(t)
  BY Zenon DEF Application
<1>2. UNCHANGED <<wp, delivered, lost, rx>>
  BY <1>1, Zenon DEF AllocateSequenceNumber, EnsureCapacity, AddChange, PurgeAfterWrite, readerVars
<1>3. CountInv'
  BY <1>2, CountUnchanged, Zenon DEF LossInv
<1>4. StartInv'
  <2>1. CASE AddChange(t)
    BY <2>1, AddChangeStarts, Zenon DEF LossInv
  <2>2. CASE ~AddChange(t)
    <3>1. UNCHANGED net
      BY <1>1, <2>2, Zenon DEF AllocateSequenceNumber, EnsureCapacity, PurgeAfterWrite
    <3> QED
      BY <1>2, <3>1, Zenon DEF LossInv, StartInv, StartsRight
  <2> QED
    BY <2>1, <2>2, Zenon
<1> QED
  BY <1>3, <1>4, Zenon DEF LossInv

\* So do the steps of discovery and of the writer's tasks.
LEMMA WriterTasksLoss == ASSUME Inv, LossInv, WriterTasks PROVE LossInv'
<1>1. UNCHANGED <<wp, delivered, lost, rx>>
  BY Zenon DEF WriterTasks, RestartPeriodicHeartbeat, PeriodicHeartbeat, StopHeartbeat, MatchedReaderAdd,
     PreemptiveHeartbeat, SendRequestedChanges, OnWriterCacheChangeRemoval, readerVars
<1>2. CountInv'
  BY <1>1, CountUnchanged, Zenon DEF LossInv
<1>3. ASSUME \A m \in net' : Starts(m) PROVE StartInv'
  BY <1>1, <1>3, Zenon DEF LossInv, StartInv, StartsRight
<1>4. \A m \in net : Starts(m)
  BY Zenon DEF LossInv, StartInv
<1>5. \A m \in net' : Starts(m)
  <2>1. CASE PeriodicHeartbeat
    <3>1. RangeOf(cache, highestSN).first >= 1
      BY RangeStarts, ProxyAssumption DEF Inv, WriterInv
    <3>2. \A r \in matched : Starts(Heartbeat(r, RangeOf(cache, highestSN)))
      BY <3>1, StartsOf, Zenon
    <3> QED
      BY <1>4, <2>1, <3>2, Zenon DEF PeriodicHeartbeat, Send
  <2>2. ASSUME NEW r \in Readers, PreemptiveHeartbeat(r) PROVE \A m \in net' : Starts(m)
    <3>1. \A m \in HeartbeatAndGap(r) : Starts(m)
      BY HeartbeatAndGapStarts, Zenon DEF Inv
    <3> QED
      BY <1>4, <2>2, <3>1, Zenon DEF PreemptiveHeartbeat, Send
  <2>3. ASSUME NEW r \in Readers, SendRequestedChanges(r) PROVE \A m \in net' : Starts(m)
    <3>1. StartsRight(NoHB)
      BY Zenon DEF StartsRight
    <3>2. \A n : Starts(Data(r, n, NoHB))
      BY <3>1, StartsOf, Zenon
    <3>3. \A g : Starts(Gap(r, g))
      BY StartsOf, Zenon
    <3> QED
      BY <1>4, <2>3, <3>2, <3>3, Zenon DEF SendRequestedChanges, Send
  <2>4. CASE UNCHANGED net
    BY <1>4, <2>4, Zenon
  <2> QED
    BY <2>1, <2>2, <2>3, <2>4, Zenon DEF WriterTasks, RestartPeriodicHeartbeat, StopHeartbeat,
       MatchedReaderAdd, OnWriterCacheChangeRemoval
<1> QED
  BY <1>2, <1>3, <1>5, Zenon DEF LossInv

\* A HEARTBEAT handled, whichever datagram brought it, is counted.
LEMMA HeartbeatLoss ==
    ASSUME Inv, LossInv, NEW r \in Readers, NEW hb \in HBRange, hb.first >= 1, NEW rest,
           HandleHeartbeat(r, hb, rest), \A m \in rest : Starts(m)
    PROVE  CountInv' /\ \A m \in net' : Starts(m)
<1> DEFINE res == HeartbeatHandler(wp[r], hb.first, hb.last)
<1>1. hb.first \in Nat \ {0} /\ hb.first \in Nat /\ hb.last \in Nat
  BY DEF HBRange
<1>2. SafeResult(wp[r], res)
  BY <1>1, HeartbeatSafe, Zenon DEF Inv, DeliveryInv
<1>3. Counted(wp[r], Received(r), res)
  BY <1>1, HeartbeatCounted, Zenon DEF LossInv, CountInv
<1>4. Deliver(r, res)
  BY Zenon DEF HandleHeartbeat
<1> HIDE DEF res
<1>5. CountInv'
  BY <1>2, <1>3, <1>4, DeliverCounted, Zenon DEF SafeResult, Inv, LossInv
<1>6. \A m \in net' : Starts(m)
  <2>1. \A b, s : Starts(AcknackOf(r, b, s))
    BY StartsOf, Zenon DEF AcknackOf
  <2> QED
    BY <2>1 DEF HandleHeartbeat
<1> QED
  BY <1>5, <1>6, Zenon

\* The tasks of a reader keep LossInv.
LEMMA ReaderTaskLoss == ASSUME Inv, LossInv, NEW r \in Readers, ReaderTask(r) PROVE LossInv'
<1>0. StartsRight(NoHB) /\ \A m \in net : Starts(m)
  BY Zenon DEF StartsRight, LossInv, StartInv
<1>1. CASE HandlePiggybackHeartbeat(r)
  <2>1. rx \in [Readers -> HBRange] /\ rx[r] # NoHB /\ StartsRight(rx[r])
    BY <1>1, Zenon DEF HandlePiggybackHeartbeat, Inv, ReaderInv, LossInv, StartInv
  <2>2. rx[r] \in HBRange /\ rx[r].first >= 1
    BY <2>1, Zenon DEF StartsRight
  <2>3. CountInv' /\ \A m \in net' : Starts(m)
    BY <1>0, <1>1, <2>2, HeartbeatLoss, Zenon DEF HandlePiggybackHeartbeat
  <2>4. \A q \in Readers : StartsRight(rx'[q])
    BY <1>0, <1>1, <2>1, Zenon DEF HandlePiggybackHeartbeat, LossInv, StartInv
  <2> QED
    BY <2>3, <2>4, Zenon DEF LossInv, StartInv, StartsRight
<1>2. CASE ~HandlePiggybackHeartbeat(r)
  <2>1. UNCHANGED <<wp, delivered, lost>>
    BY <1>2, Zenon DEF ReaderTask, RejectPiggybackHeartbeat, AcknackTimer, SendAcknack, SendPreemptiveAcknack
  <2>2. \A q \in Readers : StartsRight(rx'[q])
    <3>1. rx' = rx \/ rx' = [rx EXCEPT ![r] = NoHB]
      BY <1>2, Zenon DEF ReaderTask, RejectPiggybackHeartbeat, AcknackTimer, SendAcknack, SendPreemptiveAcknack
    <3>2. rx \in [Readers -> HBRange] /\ \A q \in Readers : StartsRight(rx[q])
      BY Zenon DEF Inv, ReaderInv, LossInv, StartInv
    <3> QED
      BY <1>0, <3>1, <3>2, Zenon
  <2>3. \A m \in net' : Starts(m)
    <3>1. \A b, s : Starts(AcknackOf(r, b, s)) /\ Starts(Preemptive(r))
      BY StartsOf, Zenon DEF AcknackOf
    <3>2. CASE RejectPiggybackHeartbeat(r) \/ AcknackTimer(r)
      BY <1>0, <3>2, Zenon DEF RejectPiggybackHeartbeat, AcknackTimer
    <3>3. CASE SendAcknack(r)
      BY <1>0, <3>1, <3>3, Zenon DEF SendAcknack, Send
    <3>4. CASE SendPreemptiveAcknack(r)
      BY <1>0, <3>1, <3>4, Zenon DEF SendPreemptiveAcknack, Send
    <3> QED
      BY <1>2, <3>2, <3>3, <3>4, Zenon DEF ReaderTask
  <2> QED
    BY <2>1, <2>2, <2>3, CountUnchanged, Zenon DEF LossInv, StartInv, StartsRight
<1> QED
  BY <1>1, <1>2, Zenon

\* A datagram received keeps LossInv.
LEMMA ReceiveLoss == ASSUME Inv, LossInv, NEW m \in net, Receive(m) PROVE LossInv'
<1> DEFINE r == m.reader
<1>0. /\ \A k \in Taken(m) : Starts(k)
      /\ Starts(m)
      /\ \A q \in Readers : StartsRight(rx[q])
      /\ rx \in [Readers -> HBRange]
  BY TakenStarts, Zenon DEF LossInv, StartInv, Inv, ReaderInv
<1>1. CASE HandleAcknack(m) \/ HandlePreemptiveAcknack(m)
  <2>1. UNCHANGED <<wp, delivered, lost, rx>>
    BY <1>1, Zenon DEF HandleAcknack, HandlePreemptiveAcknack, readerVars
  <2>2. \A k \in HeartbeatAndGap(r) : Starts(k)
    BY HeartbeatAndGapStarts, Zenon DEF Inv
  <2>3. \A k \in net' : Starts(k)
    BY <1>0, <1>1, <2>2, Zenon DEF HandleAcknack, HandlePreemptiveAcknack
  <2> QED
    BY <1>0, <2>1, <2>3, CountUnchanged, Zenon DEF LossInv, StartInv, StartsRight
<1>2. CASE HandleData(m)
  <2> DEFINE res == DeliverChangeToReader(wp[r], m.sn)
  <2>1. r \in Readers /\ m.sn \in SN /\ m.hb \in HBRange /\ m.type = "DATA"
    BY <1>2, Zenon DEF Inv, NetInv, Messages, HandleData
  <2>2. SafeResult(wp[r], res)
    BY <2>1, DataSafe, Zenon DEF Inv, DeliveryInv
  <2>3. Counted(wp[r], Received(r), res)
    BY <2>1, DataCounted, Zenon DEF LossInv, CountInv
  <2>4. Deliver(r, res) /\ rx' = [rx EXCEPT ![r] = m.hb] /\ net' = Taken(m)
    BY <1>2, Zenon DEF HandleData
  <2> HIDE DEF res
  <2>5. CountInv'
    BY <2>1, <2>2, <2>3, <2>4, DeliverCounted, Zenon DEF SafeResult, Inv, LossInv
  <2>6. \A q \in Readers : StartsRight(rx'[q])
    BY <1>0, <2>1, <2>4, Zenon DEF Starts
  <2> QED
    BY <1>0, <2>4, <2>5, <2>6, Zenon DEF LossInv, StartInv, StartsRight
<1>3. CASE HandleHeartbeatMessage(m)
  <2>1. r \in Readers /\ m.hb \in HBRange /\ m.hb.first >= 1
    BY <1>0, <1>3, Zenon DEF Inv, NetInv, Messages, HandleHeartbeatMessage, Starts
  <2>2. CountInv' /\ \A k \in net' : Starts(k)
    BY <1>0, <1>3, <2>1, HeartbeatLoss, Zenon DEF HandleHeartbeatMessage
  <2> QED
    BY <1>0, <1>3, <2>2, Zenon DEF HandleHeartbeatMessage, LossInv, StartInv, StartsRight
<1>4. CASE HandleGap(m)
  <2> DEFINE res == GapHandler(wp[r], m.sns)
  <2>1. r \in Readers /\ m.sns \in SUBSET SN /\ m.sns # {}
    BY <1>4, Zenon DEF Inv, NetInv, Messages, HandleGap
  <2>2. SafeResult(wp[r], res)
    BY <2>1, GapSafe, Zenon DEF Inv, DeliveryInv
  <2>3. Counted(wp[r], Received(r), res)
    BY <2>1, GapCounted, Zenon DEF LossInv, CountInv
  <2>4. Deliver(r, res) /\ rx' = rx /\ net' = Taken(m)
    BY <1>4, Zenon DEF HandleGap
  <2> HIDE DEF res
  <2>5. CountInv'
    BY <2>1, <2>2, <2>3, <2>4, DeliverCounted, Zenon DEF SafeResult, Inv, LossInv
  <2> QED
    BY <1>0, <2>4, <2>5, Zenon DEF LossInv, StartInv, StartsRight
<1> QED
  BY <1>1, <1>2, <1>3, <1>4, Zenon DEF Receive

\* The samples passed for good are among those passed without delivery.
LEMMA LossBound == ASSUME Inv, LossInv PROVE LostAtMostOnce
<1> SUFFICES ASSUME NEW r \in Readers
             PROVE  lost[r] <= Cardinality({n \in SN : n < wp[r].expected /\ n \notin Received(r)})
  BY Zenon DEF LostAtMostOnce
<1> DEFINE P == Passed(wp[r], Received(r))
           S == {n \in SN : n < wp[r].expected /\ n \notin Received(r)}
<1>1. P \subseteq S /\ P \in SUBSET SN /\ S \in SUBSET SN
  BY Zenon DEF Passed
<1>2. lost[r] <= Cardinality(P) /\ lost[r] \in Nat
  BY Zenon DEF Inv, DeliveryInv, LossInv, CountInv
<1> HIDE DEF P, S
<1>3. IsFiniteSet(S) /\ Cardinality(P) \in Nat /\ Cardinality(S) \in Nat
  BY <1>1, SubsetOfSN, Zenon
<1>4. Cardinality(P) <= Cardinality(S)
  BY <1>1, <1>3, FS_Subset, Zenon
<1>5. lost[r] <= Cardinality(S)
  BY <1>2, <1>3, <1>4
<1> QED
  BY <1>5, Zenon DEF S

\* SAMPLE_LOST is reported at most once for a sample, and never for one that is
\* delivered: lost_changes_update and report_abandoned_samples together report no more
\* samples than the cursor passed without delivering them.  This holds of every history
\* depth, response delay and buffer size, whatever the network does.
THEOREM LossesCounted == Spec => []LostAtMostOnce
<1>1. Init => LossInv
  <2> SUFFICES ASSUME Init PROVE LossInv
    BY Zenon
  <2>1. Inv
    BY InitInv, Zenon
  <2>2. StartInv
    BY Zenon DEF Init, StartInv, StartsRight
  <2>3. ASSUME NEW r \in Readers
        PROVE  Tidy(wp[r], Received(r)) /\ lost[r] <= Cardinality(Passed(wp[r], Received(r)))
    <3>1. wp[r] = NewProxy /\ Received(r) = {} /\ lost[r] = 0
      BY DEF Init, Received
    <3>2. Separated(NewProxy)
      BY <2>1, <3>1, Zenon DEF Inv, DeliveryInv
    <3>3. CursorSet(NewProxy) /\ NewProxy.buffered = {}
      BY Zenon DEF NewProxy, CursorSet
    <3>4. Passed(NewProxy, {}) \in SUBSET SN
      BY Zenon DEF Passed
    <3>5. Cardinality(Passed(NewProxy, {})) \in Nat
      BY <3>4, SubsetOfSN, Zenon
    <3>6. Tidy(NewProxy, {})
      BY <3>2, <3>3, Zenon DEF Tidy
    <3>7. 0 <= Cardinality(Passed(NewProxy, {}))
      BY ONLY <3>5
    <3> QED
      BY <3>1, <3>6, <3>7, Zenon
  <2> QED
    BY <2>2, <2>3, Zenon DEF LossInv, CountInv
<1>2. Inv /\ LossInv /\ [Next]_vars => LossInv'
  <2> SUFFICES ASSUME Inv, LossInv, [Next]_vars PROVE LossInv'
    BY Zenon
  <2>1. CASE UNCHANGED vars
    BY <2>1, CountUnchanged, Zenon DEF vars, readerVars, LossInv, StartInv, StartsRight
  <2> QED
    BY <2>1, ApplicationLoss, WriterTasksLoss, ReaderTaskLoss, ReceiveLoss, Zenon DEF Next
<1>3. Inv /\ LossInv => LostAtMostOnce
  BY LossBound, Zenon
<1> QED
  BY <1>1, <1>2, <1>3, Invariance, PTL DEF Spec
==============================================================================
