----------------------- MODULE ReliableDelivery_proofs -----------------------
(***************************************************************************)
(* Reliable delivery: when no sample is skipped, acknowledged or purged     *)
(* before the reader has it.  Three things are asked of the writer: the     *)
(* history is KEEP_ALL, no two writes overlap, and no reader's in-order     *)
(* buffer is about to be full (Undisturbed, a condition on the behaviour).  *)
(* That readers answer at once and first transmissions carry a HEARTBEAT    *)
(* (Prompt) is asked where what is acknowledged matters: for the            *)
(* acknowledgements themselves, and for a writer that purges by them.       *)
(* The proofs rest on the invariant KeepInv, and on those of                *)
(* ReliableProtocol_proofs.                                                 *)
(***************************************************************************)
EXTENDS ReliableProtocol_proofs

----------------------------------------------------------------------------
(* Reliable delivery *)

\* Every first transmission carries a HEARTBEAT, and a HEARTBEAT is answered at once.
Prompt == Piggyback /\ InlineAcknack

\* The history is KEEP_ALL, and a writer that purges what is acknowledged is answered
\* promptly.  Any response delay will do for a writer that does not purge: one that is
\* TRANSIENT_LOCAL, or strict.
KeepsAll == Depth = 0 /\ (PurgeAcked => Prompt)

Writing(t) == app[t].pc \in {"allocated", "evicted"}

\* No two writes are under way at once, and no in-order buffer is about to be full.
Undisturbed ==
    /\ \A s, t \in Threads : Writing(s) /\ Writing(t) => s = t
    /\ \A r \in Readers : Cardinality(wp[r].buffered) + 1 < InOrderBuffer

Irrelevant(r) == rp[r].lastIrrelevant

KnowsUpTo(r, n) == \A k \in SN : k <= n => Knows(wp[r], k)

\* A heartbeat starts no higher than the first number the reader may still need.
HBFits(r, hb) ==
    /\ hb.first >= 1 /\ hb.last <= highestSN
    /\ hb.first <= Irrelevant(r) + 1 \/ hb.first <= wp[r].expected

\* A number a reader may have heard of.
Told(r, n) == r \in matched /\ (n <= highestSN \/ n <= Irrelevant(r))

\* Numbers are assigned and inserted in one order, and without a purge the cache is whole.
CacheInv ==
    /\ highestSN <= lastSN
    /\ \A n \in cache : n <= highestSN
    /\ \A t \in Threads : Writing(t) => app[t].sn = lastSN /\ lastSN = highestSN + 1
    /\ (\A t \in Threads : ~Writing(t)) => lastSN = highestSN
    /\ ~PurgeAcked => \A n \in SN : n <= highestSN => n \in cache
    /\ preHB \subseteq matched

\* What a matched reader acknowledged lies below its cursor if it answers promptly, and
\* only what it acknowledged is gone.
AckFits(r) ==
    /\ Prompt => rp[r].maxAcked <= 0 \/ rp[r].maxAcked < wp[r].expected
    /\ \A n \in SN : n <= highestSN /\ n \notin cache
                     => n <= Irrelevant(r) \/ n <= rp[r].maxAcked

RequestFits(r, n) == Told(r, n) /\ (Prompt => KnowsUpTo(r, n))

ProxyInv ==
    \A r \in Readers : /\ r \in matched => AckFits(r)
                       /\ \A n \in rp[r].requested : RequestFits(r, n)

\* A reader knows of every number below one in its ledger, but for those the heartbeat
\* it is about to handle tells it of.
HearsInOrder(r) ==
    /\ \A m, n \in SN : n < m /\ wp[r].ledger[m] # "none" => Knows(wp[r], n) \/ n <= rx[r].last
    /\ KnowsUpTo(r, hbSeen[r])

CursorFits(r) ==
    /\ Faithful(wp[r], Received(r), Irrelevant(r))
    /\ \A n \in SN : wp[r].ledger[n] # "none" => Told(r, n)
    /\ Prompt => HearsInOrder(r)
    /\ rx[r] # NoHB => r \in matched /\ HBFits(r, rx[r])
    /\ r \notin matched => wp[r].buffered = {} /\ \A n \in SN : ~(n < wp[r].expected)
    /\ InlineAcknack => r \notin ackTimer /\ ackQueue[r] = 0

CursorInv == \A r \in Readers : CursorFits(r)

DataFits(m) ==
    /\ m.sn > Irrelevant(m.reader) /\ Told(m.reader, m.sn)
    /\ Prompt => \A k \in SN : k < m.sn => Knows(wp[m.reader], k) \/ k <= m.hb.last
    /\ m.hb # NoHB => HBFits(m.reader, m.hb)

GapFits(m) == \A n \in m.sns : /\ Told(m.reader, n)
                               /\ n <= Irrelevant(m.reader) \/ n < wp[m.reader].expected

AcknackFits(m) ==
    /\ Prompt => m.base <= 1 \/ m.base <= wp[m.reader].expected
    /\ \A n \in m.missing : RequestFits(m.reader, n)

MessageFits(m) ==
    /\ m.type \in {"DATA", "HEARTBEAT", "GAP"} => m.reader \in matched
    /\ m.type = "DATA" => DataFits(m)
    /\ m.type = "HEARTBEAT" => HBFits(m.reader, m.hb)
    /\ m.type = "GAP" => GapFits(m)
    /\ m.type = "ACKNACK" => AcknackFits(m)

MessageInv == \A m \in net : MessageFits(m)

KeepInv == CacheInv /\ ProxyInv /\ CursorInv /\ MessageInv

(***************************************************************************)
(* What every step has in common: the writer's highest number, the readers  *)
(* it knows, a reader's cursor and what it knows of only grow.              *)
(***************************************************************************)
GrowsFor(r) ==
    /\ wp[r].expected <= wp'[r].expected
    /\ \A n \in SN : Knows(wp[r], n) => Knows(wp'[r], n)
    /\ r \in matched => r \in matched' /\ Irrelevant(r)' = Irrelevant(r)

Grows == highestSN <= highestSN' /\ \A r \in Readers : GrowsFor(r)

\* Numbers that the order is asked of.
LEMMA NumberTypes ==
    ASSUME Inv, NEW r \in Readers
    PROVE  /\ wp[r] \in Proxy /\ wp[r].expected \in Int
           /\ rp[r] \in ReaderProxy /\ Irrelevant(r) \in Nat /\ rp[r].maxAcked \in Int
           /\ rp[r].requested \in SUBSET SN
           /\ rx[r] \in HBRange /\ rx[r].first \in Nat /\ rx[r].last \in Nat
           /\ hbSeen[r] \in Nat
           /\ highestSN \in Nat /\ highestSN <= MaxSN /\ cache \in SUBSET SN
<1>1. wp[r] \in Proxy /\ wp[r].expected \in Int
  BY Zenon DEF Inv, DeliveryInv, Proxy
<1>2. rp[r] \in ReaderProxy
  BY Zenon DEF Inv, WriterInv
<1>3. Irrelevant(r) \in Nat /\ rp[r].maxAcked \in Int /\ rp[r].requested \in SUBSET SN
  BY <1>2, ProxyAssumption DEF ReaderProxy, Irrelevant, Unknown
<1>4. rx[r] \in HBRange /\ rx[r].first \in Nat /\ rx[r].last \in Nat /\ hbSeen[r] \in Nat
  BY Zenon DEF Inv, ReaderInv, HBRange
<1>5. highestSN \in Nat /\ highestSN <= MaxSN /\ cache \in SUBSET SN
  BY ProxyAssumption DEF Inv, WriterInv
<1> QED
  BY <1>1, <1>2, <1>3, <1>4, <1>5, Zenon

\* A step that leaves the readers' proxies alone only has to keep the writer's side.
LEMMA GrowsWriter ==
    ASSUME Inv, UNCHANGED wp, highestSN <= highestSN',
           \A r \in matched : r \in matched' /\ Irrelevant(r)' = Irrelevant(r)
    PROVE  Grows
BY NumberTypes DEF Grows, GrowsFor, Knows

\* What a reader knows of does not get less.
LEMMA KnowsUpToGrows ==
    ASSUME Grows, NEW r \in Readers, NEW n, KnowsUpTo(r, n)
    PROVE  KnowsUpTo(r, n)'
BY Zenon DEF Grows, GrowsFor, KnowsUpTo, Knows

\* Nor does what it may have heard of.
LEMMA ToldGrows ==
    ASSUME Inv, Inv', Grows, NEW r \in Readers, NEW n \in SN, Told(r, n)
    PROVE  Told(r, n)'
<1>1. r \in matched' /\ Irrelevant(r)' = Irrelevant(r) /\ highestSN <= highestSN'
  BY Zenon DEF Told, Grows, GrowsFor
<1>2. highestSN \in Nat /\ highestSN' \in Nat /\ n \in Int
  BY ProxyAssumption, SNInt DEF Inv, WriterInv
<1>3. n <= highestSN => n <= highestSN'
  BY ONLY <1>1, <1>2
<1> QED
  BY <1>1, <1>3, Zenon DEF Told

\* Nor what it asks for.
LEMMA RequestGrows ==
    ASSUME Inv, Inv', Grows, NEW r \in Readers, NEW n \in SN, RequestFits(r, n)
    PROVE  RequestFits(r, n)'
  BY ToldGrows, KnowsUpToGrows, Zenon DEF RequestFits

\* A range that fits a matched reader keeps fitting it.
LEMMA HBFitsGrows ==
    ASSUME Inv, Inv', Grows, NEW r \in matched, NEW hb \in HBRange, HBFits(r, hb)
    PROVE  HBFits(r, hb)'
<1>1. r \in Readers
  BY Zenon DEF Inv, WriterInv
<1>2. hb.first \in Nat /\ hb.last \in Nat
  BY Zenon DEF HBRange
<1>3. highestSN \in Nat /\ highestSN' \in Nat
  BY ProxyAssumption DEF Inv, WriterInv
<1>4. wp[r].expected \in Int /\ wp'[r].expected \in Int
  BY <1>1, Zenon DEF Inv, DeliveryInv, Proxy
<1>5. /\ highestSN <= highestSN' /\ wp[r].expected <= wp'[r].expected
      /\ Irrelevant(r)' = Irrelevant(r)
  BY <1>1, Zenon DEF Grows, GrowsFor
<1>6. hb.last <= highestSN'
  BY <1>2, <1>3, <1>5 DEF HBFits
<1>7. hb.first <= wp[r].expected => hb.first <= wp'[r].expected
  BY <1>2, <1>4, <1>5
<1> QED
  BY <1>5, <1>6, <1>7, Zenon DEF HBFits

\* A datagram that fits keeps fitting.
LEMMA FitsGrows ==
    ASSUME Inv, Inv', Grows, NEW m \in Messages, MessageFits(m)
    PROVE  MessageFits(m)'
<1> DEFINE r == m.reader
<1>0. m \in Messages /\ r \in Readers
  BY Zenon DEF Messages
<1>1. CASE m.type \in {"DATA", "HEARTBEAT", "GAP"}
  <2>1. r \in matched /\ r \in matched' /\ Irrelevant(r)' = Irrelevant(r)
    BY <1>0, <1>1, Zenon DEF MessageFits, Grows, GrowsFor
  <2>2. CASE m.type = "DATA"
    <3>1. m.hb \in HBRange /\ m.sn \in SN
      BY <1>0, <2>2, Zenon DEF Messages
    <3>2. DataFits(m)
      BY <2>2, Zenon DEF MessageFits
    <3>3. (m.hb # NoHB => HBFits(r, m.hb))'
      BY <2>1, <3>1, <3>2, HBFitsGrows, Zenon DEF DataFits
    <3>4. \A k \in SN : Knows(wp[r], k) => Knows(wp'[r], k)
      BY <1>0, Zenon DEF Grows, GrowsFor
    <3>5. Told(r, m.sn)'
      BY <1>0, <3>1, <3>2, ToldGrows, Zenon DEF DataFits
    <3>6. DataFits(m)'
      BY <2>1, <3>2, <3>3, <3>4, <3>5, Zenon DEF DataFits, Knows
    <3> QED
      BY <2>1, <2>2, <3>6, Zenon DEF MessageFits
  <2>3. CASE m.type = "HEARTBEAT"
    <3>1. m.hb \in HBRange
      BY <1>0, <2>3, Zenon DEF Messages
    <3>2. HBFits(r, m.hb)'
      BY <2>1, <2>3, <3>1, HBFitsGrows, Zenon DEF MessageFits
    <3> QED
      BY <2>1, <2>3, <3>2, Zenon DEF MessageFits
  <2>4. CASE m.type = "GAP"
    <3>1. m.sns \in SUBSET SN
      BY <1>0, <2>4, Zenon DEF Messages
    <3>2. /\ wp[r].expected \in Int /\ wp'[r].expected \in Int
          /\ wp[r].expected <= wp'[r].expected
      BY <1>0, Zenon DEF Inv, DeliveryInv, Proxy, Grows, GrowsFor
    <3>3. \A n \in m.sns : n \in Int
      BY <3>1, SNInt, Zenon
    <3>4. \A n \in m.sns : n < wp[r].expected => n < wp'[r].expected
      BY <3>2, <3>3
    <3>5. \A n \in m.sns : Told(r, n)'
      BY <1>0, <2>4, <3>1, ToldGrows, Zenon DEF MessageFits, GapFits
    <3>6. GapFits(m)'
      BY <2>1, <2>4, <3>4, <3>5, Zenon DEF MessageFits, GapFits
    <3> QED
      BY <2>1, <2>4, <3>6, Zenon DEF MessageFits
  <2> QED
    BY <1>1, <2>2, <2>3, <2>4, Zenon
<1>2. CASE m.type = "ACKNACK"
  <2>1. m.base \in Nat /\ m.missing \in SUBSET SN
    BY <1>0, <1>2, Zenon DEF Messages
  <2>2. /\ wp[r].expected \in Int /\ wp'[r].expected \in Int
        /\ wp[r].expected <= wp'[r].expected
    BY <1>0, Zenon DEF Inv, DeliveryInv, Proxy, Grows, GrowsFor
  <2>3. AcknackFits(m)
    BY <1>2, Zenon DEF MessageFits
  <2>4. \A n \in m.missing : RequestFits(r, n)'
    BY <1>0, <2>1, <2>3, RequestGrows, Zenon DEF AcknackFits
  <2>5. m.base <= wp[r].expected => m.base <= wp'[r].expected
    BY <2>1, <2>2
  <2>6. Prompt => m.base <= 1 \/ m.base <= wp'[r].expected
    BY <2>3, <2>5, Zenon DEF AcknackFits
  <2>7. AcknackFits(m)'
    BY <2>4, <2>6, Zenon DEF AcknackFits
  <2> QED
    BY <1>2, <2>7, Zenon DEF MessageFits
<1>3. CASE m.type = "PREEMPTIVE"
  BY <1>3, Zenon DEF MessageFits
<1> QED
  BY <1>0, <1>1, <1>2, <1>3, Zenon DEF Messages

\* So the datagrams on their way fit if those sent by a step do, before or after it.
LEMMA MessagesGrow ==
    ASSUME Inv, Inv', MessageInv, Grows, \A m \in net' \ net : MessageFits(m) \/ MessageFits(m)'
    PROVE  MessageInv'
<1> SUFFICES ASSUME NEW m \in net' PROVE MessageFits(m)'
  BY Zenon DEF MessageInv
<1>1. m \in Messages
  BY Zenon DEF Inv, NetInv
<1>2. MessageFits(m) \/ MessageFits(m)'
  BY Zenon DEF MessageInv
<1> QED
  BY <1>1, <1>2, FitsGrows, Zenon

\* A step of the writer leaves the readers where they are.  A reader that is matched now
\* has passed and buffered nothing, whatever is irrelevant to it.
LEMMA WriterKeepsCursor ==
    ASSUME Inv, Inv', CursorInv, Grows, UNCHANGED <<wp, rx, hbSeen, ackTimer, ackQueue, delivered>>
    PROVE  CursorInv'
<1> SUFFICES ASSUME NEW r \in Readers, CursorFits(r) PROVE CursorFits(r)'
  BY Zenon DEF CursorInv
<1>1. Received(r)' = Received(r) /\ wp'[r] = wp[r] /\ rx'[r] = rx[r] /\ hbSeen'[r] = hbSeen[r]
  BY Zenon DEF Received
<1>2. Faithful(wp[r], Received(r), Irrelevant(r)')
  <2>1. CASE r \in matched
    BY <2>1, Zenon DEF Grows, GrowsFor, CursorFits
  <2>2. CASE r \notin matched
    BY <2>2, Zenon DEF CursorFits, Faithful
  <2> QED
    BY <2>1, <2>2, Zenon
<1>3. (rx[r] # NoHB => r \in matched /\ HBFits(r, rx[r]))'
  <2>1. rx[r] \in HBRange
    BY NumberTypes, Zenon
  <2> QED
    BY <1>1, <2>1, HBFitsGrows, Zenon DEF CursorFits, Grows, GrowsFor
<1>4. r \in matched => r \in matched'
  BY Zenon DEF Grows, GrowsFor
<1>5. (Faithful(wp[r], Received(r), Irrelevant(r)))'
  BY <1>1, <1>2, Zenon DEF Faithful, IsSettled
<1>6. (\A n \in SN : wp[r].ledger[n] # "none" => Told(r, n))'
  BY <1>1, ToldGrows, Zenon DEF CursorFits
<1>7. (Prompt => HearsInOrder(r))'
  BY <1>1, Zenon DEF CursorFits, HearsInOrder, KnowsUpTo, Knows
<1> QED
  BY <1>1, <1>3, <1>4, <1>5, <1>6, <1>7, Zenon DEF CursorFits

\* A step of a reader keeps what the writer knows of it true.
LEMMA ReaderKeepsProxy ==
    ASSUME Inv, Inv', CacheInv, ProxyInv, Grows, UNCHANGED writerVars
    PROVE  CacheInv' /\ ProxyInv'
<1>0. UNCHANGED <<lastSN, app, cache, highestSN, matched, rp, preHB>>
  BY Zenon DEF writerVars
<1>1. CacheInv'
  BY <1>0, Zenon DEF CacheInv, Writing
<1>2. ASSUME NEW r \in Readers
      PROVE  (/\ r \in matched => AckFits(r)
              /\ \A n \in rp[r].requested : RequestFits(r, n))'
  <2>1. /\ wp[r].expected \in Int /\ wp'[r].expected \in Int /\ rp[r].maxAcked \in Int
        /\ wp[r].expected <= wp'[r].expected
    BY NumberTypes, Zenon DEF Grows, GrowsFor, Inv, DeliveryInv, Proxy
  <2>2. rp[r].maxAcked < wp[r].expected => rp[r].maxAcked < wp'[r].expected
    BY <2>1
  <2>3. (r \in matched => AckFits(r))'
    BY <1>0, <2>2, Zenon DEF ProxyInv, AckFits, Irrelevant
  <2>4. rp[r].requested \in SUBSET SN
    BY NumberTypes, Zenon
  <2>5. (\A n \in rp[r].requested : RequestFits(r, n))'
    BY <1>0, <2>4, RequestGrows, Zenon DEF ProxyInv
  <2> QED
    BY <2>3, <2>5, Zenon
<1> QED
  BY <1>1, <1>2, Zenon DEF ProxyInv

\* A range of a cache that lacks only what a reader passed or never needs fits the reader:
\* L is what is irrelevant to it, e its cursor.
LEMMA RangeFits ==
    ASSUME NEW c \in SUBSET SN, NEW h \in Nat, h <= MaxSN, NEW L \in Nat, NEW e \in Int,
           \A n \in c : n <= h,
           \A n \in SN : n <= h /\ n \notin c => n <= L \/ n < e
    PROVE  LET hb == RangeOf(c, h)
           IN  hb.first >= 1 /\ hb.last <= h /\ (hb.first <= L + 1 \/ hb.first <= e)
<1>0. ASSUME NEW n \in Nat, n <= h, n \notin c PROVE n + 1 <= L + 1 \/ n + 1 <= e
  <2>1. CASE n = 0
    BY <2>1
  <2>2. CASE n # 0
    <3>1. n \in SN
      BY <1>0, <2>2, ProxyAssumption DEF SN
    <3>2. n <= L \/ n < e
      BY <1>0, <3>1, Zenon
    <3> QED
      BY <2>2, <3>2
  <2> QED
    BY <2>1, <2>2, Zenon
<1>1. CASE c = {}
  <2>1. RangeOf(c, h).first = h + 1 /\ RangeOf(c, h).last = h
    BY <1>1, Zenon DEF RangeOf
  <2>2. h + 1 <= L + 1 \/ h + 1 <= e
    BY <1>0, <1>1
  <2> QED
    BY <2>1, <2>2
<1>2. CASE c # {}
  <2> DEFINE k == Min(c)
  <2>1. RangeOf(c, h).first = k /\ RangeOf(c, h).last = Max(c)
    BY <1>2, Zenon DEF RangeOf
  <2>2. Max(c) <= h
    BY <1>2, MaxSNs, Zenon
  <2>3. c \in SUBSET Nat
    BY SNType, Zenon
  <2>4. k \in c /\ \A y \in c : k <= y
    BY <1>2, <2>3, MinNat, Zenon
  <2> HIDE DEF k
  <2>5. k \in Nat /\ k >= 1 /\ k <= h
    BY <2>4, SNInt, Zenon
  <2>6. k - 1 \in Nat /\ k - 1 <= h
    BY <2>5
  <2>7. k - 1 \notin c
    <3>1. ~(k <= k - 1)
      BY <2>5
    <3> QED
      BY <2>4, <3>1, Zenon
  <2>8. (k - 1) + 1 <= L + 1 \/ (k - 1) + 1 <= e
    BY <1>0, <2>6, <2>7, Zenon
  <2>9. k <= L + 1 \/ k <= e
    BY <2>5, <2>8
  <2> QED
    BY <2>1, <2>2, <2>5, <2>9, Zenon
<1> QED
  BY <1>1, <1>2, Zenon

\* A gap among what a matched reader may still need was passed by it.
LEMMA GoneIsPassed ==
    ASSUME Inv, KeepsAll, CacheInv, ProxyInv, NEW r \in matched, NEW n \in SN,
           n <= highestSN, n \notin cache
    PROVE  n <= Irrelevant(r) \/ n < wp[r].expected
<1>1. r \in Readers
  BY Zenon DEF Inv, WriterInv
<1>2. AckFits(r) /\ Prompt
  BY <1>1, Zenon DEF ProxyInv, CacheInv, KeepsAll
<1>3. rp[r].maxAcked \in Int /\ wp[r].expected \in Int /\ n \in Int /\ n >= 1
  BY <1>1, NumberTypes, SNInt, Zenon
<1>4. /\ n <= Irrelevant(r) \/ n <= rp[r].maxAcked
      /\ rp[r].maxAcked <= 0 \/ rp[r].maxAcked < wp[r].expected
  BY <1>2, Zenon DEF AckFits
<1>5. n <= rp[r].maxAcked => n < wp[r].expected
  BY ONLY <1>3, <1>4
<1> QED
  BY <1>4, <1>5, Zenon

\* The range of the writer's cache fits every matched reader.
LEMMA CacheRangeFits ==
    ASSUME Inv, KeepsAll, CacheInv, ProxyInv, NEW r \in matched
    PROVE  HBFits(r, RangeOf(cache, highestSN))
<1>1. r \in Readers
  BY Zenon DEF Inv, WriterInv
<1>2. \A n \in SN : n <= highestSN /\ n \notin cache => n <= Irrelevant(r) \/ n < wp[r].expected
  BY GoneIsPassed, Zenon
<1>3. /\ cache \in SUBSET SN /\ highestSN \in Nat /\ highestSN <= MaxSN
      /\ Irrelevant(r) \in Nat /\ wp[r].expected \in Int
  BY <1>1, NumberTypes, Zenon
<1> QED
  BY <1>2, <1>3, RangeFits, Zenon DEF CacheInv, HBFits

----------------------------------------------------------------------------
(* The writer's steps *)

\* The heartbeat to one reader fits it, and the GAP behind it is about what is
\* irrelevant to it.
LEMMA HeartbeatAndGapFits ==
    ASSUME Inv, KeepsAll, CacheInv, ProxyInv, NEW r \in matched, NEW m \in HeartbeatAndGap(r)
    PROVE  MessageFits(m)
<1>1. r \in Readers
  BY Zenon DEF Inv, WriterInv
<1>2. CASE m = Heartbeat(r, RangeOf(cache, highestSN))
  BY <1>2, CacheRangeFits, Zenon DEF MessageFits, Heartbeat
<1>3. CASE cache # {} /\ m = Gap(r, Min(cache)..rp[r].lastIrrelevant)
  <2>1. Irrelevant(r) \in Nat /\ cache \in SUBSET SN
    BY <1>1, NumberTypes, Zenon
  <2>2. cache \in SUBSET Nat
    BY <2>1, SNType, Zenon
  <2>3. Min(cache) \in Nat
    BY <1>3, <2>2, MinNat, Zenon
  <2>4. \A n \in Min(cache)..rp[r].lastIrrelevant : n <= Irrelevant(r)
    BY <2>1, <2>3 DEF Irrelevant
  <2> QED
    BY <1>3, <2>4, Zenon DEF MessageFits, GapFits, Gap, Told
<1> QED
  BY <1>2, <1>3, Zenon DEF HeartbeatAndGap

\* With one write at a time, numbers enter the cache in the order in which they are taken.
LEMMA AllocateKeeps ==
    ASSUME Inv, Inv', KeepInv, Undisturbed', NEW t \in Threads, AllocateSequenceNumber(t)
    PROVE  KeepInv'
<1>0. UNCHANGED <<cache, highestSN, matched, rp, preHB, readerVars, net>>
  BY Zenon DEF AllocateSequenceNumber
<1>1. UNCHANGED <<wp, rx, hbSeen, ackTimer, ackQueue, delivered>>
  BY <1>0, Zenon DEF readerVars
<1>2. lastSN \in Nat /\ highestSN \in Nat
  BY ProxyAssumption DEF Inv, WriterInv
<1>3. PICK k \in Keys : app' = [app EXCEPT ![t] = [pc |-> "allocated", sn |-> lastSN', key |-> k]]
  BY Zenon DEF AllocateSequenceNumber
<1>4. app[t] = Idle /\ app'[t].pc = "allocated" /\ app'[t].sn = lastSN'
  BY <1>3, Zenon DEF Inv, WriterInv, AllocateSequenceNumber
<1>5. \A s \in Threads : ~Writing(s) /\ (Writing(s)' => s = t)
  <2>1. Writing(t)' /\ ~Writing(t)
    BY <1>4 DEF Writing, Idle
  <2>2. \A s \in Threads \ {t} : app'[s] = app[s]
    BY <1>3, Zenon DEF Inv, WriterInv
  <2>3. \A s \in Threads : Writing(s)' => s = t
    BY <2>1, Zenon DEF Undisturbed
  <2> QED
    BY <2>1, <2>2, <2>3, Zenon DEF Writing
<1>6. lastSN' = highestSN' + 1 /\ highestSN' <= lastSN'
  <2>1. lastSN = highestSN /\ lastSN' = lastSN + 1 /\ highestSN' = highestSN
    BY <1>0, <1>5, Zenon DEF KeepInv, CacheInv, AllocateSequenceNumber
  <2> QED
    BY ONLY <1>2, <2>1
<1>7. CacheInv'
  <2>1. Writing(t)'
    BY <1>4, Zenon DEF Writing
  <2> QED
    BY <1>0, <1>4, <1>5, <1>6, <2>1, Zenon DEF KeepInv, CacheInv
<1>8. ProxyInv'
  BY <1>0, <1>1, Zenon DEF KeepInv, ProxyInv, AckFits, RequestFits, Told, KnowsUpTo, Knows, Irrelevant
<1>9. Grows
  BY <1>0, <1>1, <1>2, GrowsWriter DEF Irrelevant
<1> QED
  BY <1>0, <1>1, <1>7, <1>8, <1>9, WriterKeepsCursor, MessagesGrow, Zenon DEF KeepInv

\* What is cut from the cache is at or below every acknowledgement.
LEMMA MinAckedBelow ==
    ASSUME WriterInv, NEW q \in [Readers -> ReaderProxy], NEW r \in matched
    PROVE  MinAcked(q) <= q[r].maxAcked
<1> DEFINE A == {q[s].maxAcked : s \in matched}
<1>1. q[r].maxAcked \in A /\ A \in SUBSET (Nat \cup {Unknown})
  BY Zenon DEF WriterInv, ReaderProxy
<1>2. MinAcked(q) = Min(A)
  BY Zenon DEF MinAcked
<1> HIDE DEF A
<1>3. Min(A) \in A /\ \A y \in A : Min(A) <= y
  <2>1. CASE Unknown \in A
    <3>1. \A y \in A : Unknown <= y
      BY <1>1 DEF Unknown
    <3> QED
      BY <2>1, <3>1, Zenon DEF Min
  <2>2. CASE Unknown \notin A
    BY <1>1, <2>2, MinNat, Zenon
  <2> QED
    BY <2>1, <2>2, Zenon
<1> QED
  BY <1>1, <1>2, <1>3, Zenon

\* Purging up to the lowest acknowledgement keeps the cache in step with the readers.
LEMMA PurgeKeeps ==
    ASSUME WriterInv, NEW q \in [Readers -> ReaderProxy], ProcessAckedChanges(MinAcked(q)),
           NEW r \in matched, NEW L,
           \A n \in SN : n <= highestSN /\ n \notin cache => n <= L \/ n <= q[r].maxAcked
    PROVE  \A n \in SN : n <= highestSN /\ n \notin cache' => n <= L \/ n <= q[r].maxAcked
<1> SUFFICES ASSUME NEW n \in SN, n <= highestSN, n \notin cache'
             PROVE  n <= L \/ n <= q[r].maxAcked
  BY Zenon
<1>1. CASE n \notin cache
  BY <1>1, Zenon
<1>2. CASE n \in cache
  <2>1. n <= MinAcked(q)
    BY <1>2, MinAckedType, SNInt DEF ProcessAckedChanges, WriterInv, Unknown
  <2>2. MinAcked(q) <= q[r].maxAcked
    BY MinAckedBelow, Zenon
  <2>3. n \in Int /\ MinAcked(q) \in Int /\ q[r].maxAcked \in Int
    BY MinAckedType, SNInt DEF WriterInv, ReaderProxy, Unknown
  <2> QED
    BY <2>1, <2>2, <2>3
<1> QED
  BY <1>1, <1>2, Zenon

\* A purge takes from the cache of a purging writer only.
LEMMA PurgeSubset ==
    ASSUME NEW floor, ProcessAckedChanges(floor)
    PROVE  cache' \subseteq cache /\ (~PurgeAcked => cache' = cache)
BY Zenon DEF ProcessAckedChanges

\* The purge that ends a write keeps KeepInv.
LEMMA PurgeAfterWriteKeeps ==
    ASSUME Inv, Inv', KeepInv, NEW t \in Threads, PurgeAfterWrite(t)
    PROVE  KeepInv'
<1>0. UNCHANGED <<lastSN, highestSN, matched, rp, preHB, readerVars, net>>
  BY Zenon DEF PurgeAfterWrite
<1>1. UNCHANGED <<wp, rx, hbSeen, ackTimer, ackQueue, delivered>>
  BY <1>0, Zenon DEF readerVars
<1>2. /\ WriterInv /\ rp \in [Readers -> ReaderProxy] /\ ProcessAckedChanges(MinAcked(rp))
      /\ highestSN \in Nat
  BY ProxyAssumption DEF PurgeAfterWrite, Inv, WriterInv
<1>3. cache' \subseteq cache /\ (~PurgeAcked => cache' = cache)
  BY <1>2, PurgeSubset, Zenon
<1>4. \A s \in Threads : /\ (Writing(s))' <=> Writing(s)
                         /\ Writing(s) => app'[s] = app[s]
  <2>1. app[t].pc = "added" /\ app'[t] = Idle /\ \A s \in Threads \ {t} : app'[s] = app[s]
    BY Zenon DEF PurgeAfterWrite, Inv, WriterInv
  <2>2. ~Writing(t) /\ ~Writing(t)'
    BY <2>1 DEF Writing, Idle
  <2> QED
    BY <2>1, <2>2, Zenon DEF Writing
<1>5. CacheInv'
  BY <1>0, <1>3, <1>4, Zenon DEF KeepInv, CacheInv
<1>6. ASSUME NEW r \in matched, AckFits(r) PROVE AckFits(r)'
  <2>1. \A n \in SN : n <= highestSN /\ n \notin cache' => n <= Irrelevant(r) \/ n <= rp[r].maxAcked
    BY <1>2, <1>6, PurgeKeeps, Zenon DEF AckFits
  <2> QED
    BY <1>0, <1>1, <1>6, <2>1, Zenon DEF AckFits, Irrelevant
<1>7. ProxyInv'
  BY <1>0, <1>1, <1>6, Zenon DEF KeepInv, ProxyInv, RequestFits, Told, KnowsUpTo, Knows, Irrelevant
<1>8. Grows
  BY <1>0, <1>1, <1>2, GrowsWriter DEF Irrelevant
<1> QED
  BY <1>0, <1>1, <1>5, <1>7, <1>8, WriterKeepsCursor, MessagesGrow, Zenon DEF KeepInv

\* A GAP sent along with unsent changes covers what is irrelevant to the reader or gone.
LEMMA UnsentGap ==
    ASSUME WriterInv, NEW r \in Readers, NEW c \in SUBSET SN, NEW n \in Unsent(c, r),
           SentBefore(c, r, n) # Unknown, NEW g \in (SentBefore(c, r, n) + 1)..(n - 1)
    PROVE  g \in SN /\ g < n /\ (g <= Irrelevant(r) \/ g \notin c)
<1> DEFINE b == SentBefore(c, r, n)
           lower == {m \in Unsent(c, r) : m < n}
<1>1. Unsent(c, r) \in SUBSET SN /\ n \in SN /\ n \in Int /\ lower \in SUBSET SN
  BY UnsentType, SNInt, Zenon
<1>2. b \in SN /\ b \in Int /\ b >= 1
  BY <1>1, SentBeforeType, SNInt, Zenon
<1>3. /\ rp[r].highestSent \in Int /\ Irrelevant(r) \in Int
      /\ rp[r].lastIrrelevant = Irrelevant(r)
  BY SNInt DEF WriterInv, ReaderProxy, Irrelevant, Unknown
<1>4. b = IF lower = {} THEN rp[r].highestSent ELSE Max(lower)
  BY Zenon DEF SentBefore
<1>5. b >= rp[r].highestSent /\ \A m \in lower : m <= b
  <2>1. CASE lower = {}
    BY <1>3, <1>4, <2>1
  <2>2. CASE lower # {}
    <3>1. b = Max(lower)
      BY <1>4, <2>2, Zenon
    <3> HIDE DEF b
    <3>2. b \in lower /\ \A m \in lower : b >= m
      <4> HIDE DEF lower
      <4> QED
        BY <1>1, <2>2, <3>1, MaxSNs, Zenon
    <3>3. b > rp[r].highestSent
      BY <1>1, <1>2, <1>3, <3>2 DEF Unsent, LargerOf
    <3>4. \A m \in lower : m \in Int
      BY <1>1, SNInt, Zenon
    <3> QED
      BY <1>2, <1>3, <3>2, <3>3, <3>4
  <2> QED
    BY <2>1, <2>2, Zenon
<1>6. g \in Int /\ g > b /\ g < n
  BY <1>1, <1>2
<1> HIDE DEF b
<1>7. g \in SN
  BY <1>1, <1>2, <1>6, ProxyAssumption DEF SN
<1>8. ASSUME g \in c, g > Irrelevant(r) PROVE FALSE
  <2>1. g > rp[r].highestSent
    BY <1>2, <1>3, <1>5, <1>6
  <2>2. g \in lower
    BY <1>3, <1>6, <1>8, <2>1, Zenon DEF Unsent, LargerOf
  <2> QED
    BY <1>2, <1>5, <1>6, <2>2
<1> QED
  BY <1>3, <1>6, <1>7, <1>8

\* Recording what was sent leaves acknowledgements and requests alone.
LEMMA MarkSentKeeps ==
    ASSUME WriterInv, NEW c \in SUBSET SN, NEW r \in Readers
    PROVE  /\ MarkSent(c, r).lastIrrelevant = rp[r].lastIrrelevant
           /\ MarkSent(c, r).maxAcked = rp[r].maxAcked
           /\ MarkSent(c, r).requested = rp[r].requested
<1>1. rp[r] \in ReaderProxy
  BY Zenon DEF WriterInv
<1> QED
  BY <1>1, Zenon DEF MarkSent, ReaderProxy

\* With one write at a time, the sample a write inserts is the next one.
LEMMA AddChangeCache ==
    ASSUME Inv, CacheInv, Undisturbed, NEW t \in Threads, AddChange(t)
    PROVE  /\ app[t].sn \in SN /\ app[t].sn = highestSN + 1
           /\ highestSN' = highestSN + 1 /\ cache' = cache \cup {highestSN + 1}
           /\ highestSN \in Nat
           /\ CacheInv'
<1>1. app[t].pc \in {"allocated", "evicted"} /\ app[t].sn \in SN
  BY Zenon DEF AddChange, Inv, WriterInv, WritingThreads
<1>2. app[t].sn = lastSN /\ lastSN = highestSN + 1 /\ highestSN \in Nat
  BY <1>1, ProxyAssumption DEF CacheInv, Inv, WriterInv, Writing
<1>3. highestSN' = highestSN + 1 /\ cache' = cache \cup {highestSN + 1} /\ lastSN' = highestSN'
  <2>1. PICK h : h = highestSN
    BY Zenon
  <2>2. h \in Nat /\ app[t].sn = h + 1 /\ lastSN = h + 1
    BY <1>2, <2>1, Zenon
  <2>3. LargerOf(h, h + 1) = h + 1
    BY <2>2 DEF LargerOf
  <2>4. /\ highestSN' = LargerOf(highestSN, app[t].sn) /\ cache' = cache \cup {app[t].sn}
        /\ lastSN' = lastSN
    BY Zenon DEF AddChange
  <2> QED
    BY <2>1, <2>2, <2>3, <2>4, Zenon
<1>4. \A s \in Threads : ~Writing(s)'
  <2>1. app'[t].pc \in {"added", "idle"} /\ \A s \in Threads \ {t} : app'[s] = app[s]
    BY Zenon DEF AddChange, Step, Idle, Inv, WriterInv
  <2>2. \A s \in Threads \ {t} : ~Writing(s)
    BY <1>1, Zenon DEF Undisturbed, Writing
  <2>3. ~Writing(t)'
    BY <2>1 DEF Writing
  <2> QED
    BY <2>1, <2>2, <2>3, Zenon DEF Writing
<1>5. \A n \in cache' : n <= highestSN'
  <2>1. \A n \in cache : n \in Int /\ n <= highestSN
    BY SNInt, Zenon DEF Inv, WriterInv, CacheInv
  <2> QED
    BY <1>2, <1>3, <2>1
<1>6. ~PurgeAcked => \A n \in SN : n <= highestSN' => n \in cache'
  <2>1. ~PurgeAcked => \A n \in SN : n <= highestSN => n \in cache
    BY Zenon DEF CacheInv
  <2>2. \A n \in SN : n <= highestSN + 1 => n <= highestSN \/ n = highestSN + 1
    <3>1. PICK h : h = highestSN
      BY Zenon
    <3>2. h \in Nat /\ \A n \in SN : n \in Int
      BY <1>2, <3>1, SNInt, Zenon
    <3>3. \A n \in SN : n <= h + 1 => n <= h \/ n = h + 1
      BY ONLY <3>2
    <3> QED
      BY <3>1, <3>3, Zenon
  <2> QED
    BY <1>3, <2>1, <2>2, Zenon
<1>7. preHB' \subseteq matched'
  BY Zenon DEF AddChange, CacheInv
<1>8. CacheInv'
  <2>1. highestSN' \in Nat /\ highestSN' <= lastSN'
    BY <1>2, <1>3
  <2> QED
    BY <1>3, <1>4, <1>5, <1>6, <1>7, <2>1, Zenon DEF CacheInv
<1> QED
  BY <1>1, <1>2, <1>3, <1>8, Zenon

\* A write sends each reader what fits it and keeps KeepInv.
LEMMA AddChangeKeeps ==
    ASSUME Inv, Inv', KeepInv, KeepsAll, Undisturbed, NEW t \in Threads, AddChange(t)
    PROVE  KeepInv'
<1>0. UNCHANGED <<matched, readerVars>>
  BY Zenon DEF AddChange
<1>1. UNCHANGED <<wp, rx, hbSeen, ackTimer, ackQueue, delivered>>
  BY <1>0, Zenon DEF readerVars
<1>2. /\ highestSN' = highestSN + 1 /\ cache' = cache \cup {highestSN + 1}
      /\ highestSN \in Nat /\ CacheInv'
  BY AddChangeCache, Zenon DEF KeepInv
<1>3. /\ WriterInv /\ cache' \in SUBSET SN /\ highestSN' \in Nat /\ highestSN' <= MaxSN
      /\ matched \subseteq Readers
  BY ProxyAssumption DEF Inv, WriterInv
<1>4. ASSUME NEW r \in Readers
      PROVE  /\ rp'[r].lastIrrelevant = rp[r].lastIrrelevant
             /\ rp'[r].maxAcked = rp[r].maxAcked /\ rp'[r].requested = rp[r].requested
  <2>1. rp'[r] = IF r \in matched THEN MarkSent(cache', r) ELSE rp[r]
    BY Zenon DEF AddChange
  <2> QED
    BY <1>3, <2>1, MarkSentKeeps, Zenon
<1>5. \A r \in Readers : Irrelevant(r)' = Irrelevant(r)
  BY <1>4, Zenon DEF Irrelevant
<1>6. Grows
  BY <1>0, <1>1, <1>2, <1>3, <1>5, GrowsWriter
<1>7. ASSUME NEW n \in SN, n <= highestSN', n \notin cache'
      PROVE  n <= highestSN /\ n \notin cache
  BY <1>2, <1>7, SNInt
<1>8. ProxyInv'
  <2> SUFFICES ASSUME NEW r \in Readers
               PROVE  (/\ r \in matched => AckFits(r)
                       /\ \A n \in rp[r].requested : RequestFits(r, n))'
    BY Zenon DEF ProxyInv
  <2>1. (r \in matched => AckFits(r))'
    BY <1>0, <1>1, <1>4, <1>5, <1>7, Zenon DEF KeepInv, ProxyInv, AckFits
  <2>2. ASSUME NEW n \in rp[r].requested PROVE RequestFits(r, n)'
    <3>1. RequestFits(r, n) /\ n \in SN
      BY NumberTypes, Zenon DEF KeepInv, ProxyInv
    <3> QED
      BY <1>6, <3>1, RequestGrows, Zenon
  <2> QED
    BY <1>4, <2>1, <2>2, Zenon
<1>a. PICK hb : hb = RangeOf(cache', highestSN')
  BY Zenon
<1>9. ASSUME NEW r \in matched PROVE HBFits(r, hb)'
  <2>1. r \in Readers
    BY <1>3, Zenon
  <2>2. Irrelevant(r)' \in Nat /\ wp'[r].expected \in Int
    BY <1>1, <1>5, <2>1, NumberTypes, Zenon
  <2>3. \A n \in cache' : n <= highestSN'
    BY <1>2, Zenon DEF CacheInv
  <2>4. \A n \in SN : n <= highestSN' /\ n \notin cache'
                     => n <= Irrelevant(r)' \/ n < wp'[r].expected
    BY <1>1, <1>5, <1>7, <2>1, GoneIsPassed, Zenon DEF KeepInv
  <2>6. /\ hb.first >= 1 /\ hb.last <= highestSN'
        /\ hb.first <= Irrelevant(r)' + 1 \/ hb.first <= wp'[r].expected
    BY <1>3, <1>a, <2>2, <2>3, <2>4, RangeFits, Zenon
  <2> QED
    BY <2>6, Zenon DEF HBFits
<1>10. ASSUME NEW r \in matched, NEW m \in UnsentMessages(cache', hb, r)
       PROVE  MessageFits(m)'
  <2>0. r \in Readers /\ r \in matched' /\ Irrelevant(r) \in Nat
    BY <1>0, <1>3, NumberTypes, Zenon
  <2>1. ASSUME NEW n \in Unsent(cache', r), m = Data(r, n, IF Piggyback THEN hb ELSE NoHB)
        PROVE  MessageFits(m)'
    <3>1. n \in SN /\ n \in Int /\ n \in cache' /\ cache' # {}
      BY <1>3, UnsentType, SNInt, Zenon DEF Unsent
    <3>2. rp[r].highestSent \in Int
      BY <1>3, <2>0, SNInt DEF WriterInv, ReaderProxy, Unknown
    <3>3. n > Irrelevant(r)
      BY <2>0, <3>1, <3>2 DEF Unsent, LargerOf, Irrelevant
    <3>4. hb.last \in Int /\ n <= hb.last
      BY <1>3, <1>a, <3>1, MaxSNs, SNInt, Zenon DEF RangeOf
    <3>5. \A k \in SN : k < n => k <= hb.last
      BY <3>1, <3>4, SNInt
    <3>6. /\ m.type = "DATA" /\ m.reader = r /\ m.sn = n
          /\ Piggyback => m.hb = hb
          /\ m.hb # NoHB => m.hb = hb
      BY <2>1, Zenon DEF Data
    <3>7. Told(r, n)'
      BY <1>2, <2>0, <3>1, Zenon DEF Told, CacheInv
    <3>8. (m.hb # NoHB => HBFits(r, m.hb))'
      BY <1>9, <3>6, Zenon
    <3>9. DataFits(m)'
      BY <1>5, <2>0, <3>3, <3>5, <3>6, <3>7, <3>8, Zenon DEF DataFits, Prompt
    <3> QED
      BY <2>0, <3>6, <3>9, Zenon DEF MessageFits
  <2>2. ASSUME NEW n \in Unsent(cache', r), SentBefore(cache', r, n) # Unknown,
               m = Gap(r, (SentBefore(cache', r, n) + 1)..(n - 1))
        PROVE  MessageFits(m)'
    <3> DEFINE S == (SentBefore(cache', r, n) + 1)..(n - 1)
    <3>1. n \in SN /\ n \in cache' /\ n \in Int /\ n <= highestSN'
      BY <1>2, <1>3, SNInt, Zenon DEF Unsent, CacheInv
    <3>2. ASSUME NEW g \in S
          PROVE  g <= highestSN' /\ (g <= Irrelevant(r) \/ g < wp[r].expected)
      <4>1. g \in SN /\ g < n /\ (g <= Irrelevant(r) \/ g \notin cache')
        BY <1>3, <2>0, <2>2, UnsentGap, Zenon
      <4>2. g <= highestSN'
        BY <1>3, <3>1, <4>1, SNInt
      <4>3. CASE g \notin cache'
        BY <1>7, <4>1, <4>2, <4>3, GoneIsPassed, Zenon DEF KeepInv
      <4> QED
        BY <4>1, <4>2, <4>3, Zenon
    <3> HIDE DEF S
    <3>3. m.type = "GAP" /\ m.reader = r /\ m.sns = S
      BY <2>2, Zenon DEF Gap, S
    <3>4. GapFits(m)'
      BY <1>1, <1>5, <2>0, <3>2, <3>3, Zenon DEF GapFits, Told
    <3> QED
      BY <2>0, <3>3, <3>4, Zenon DEF MessageFits
  <2> QED
    BY <2>1, <2>2, Zenon DEF UnsentMessages
<1>11. \A m \in net' \ net : MessageFits(m)'
  BY <1>a, <1>10, Zenon DEF AddChange, Send
<1> QED
  BY <1>1, <1>2, <1>6, <1>8, <1>11, WriterKeepsCursor, MessagesGrow, Zenon DEF KeepInv

\* A reader that is matched is owed nothing that is gone.
LEMMA MatchedReaderAddKeeps ==
    ASSUME Inv, Inv', KeepInv, NEW r \in Readers, MatchedReaderAdd(r)
    PROVE  KeepInv'
<1> DEFINE L == IF r \in VolatileReaders THEN lastSN ELSE 0
<1>0. UNCHANGED <<lastSN, app, cache, highestSN, readerVars, net>>
  BY Zenon DEF MatchedReaderAdd
<1>1. UNCHANGED <<wp, rx, hbSeen, ackTimer, ackQueue, delivered>>
  BY <1>0, Zenon DEF readerVars
<1>2. /\ rp \in [Readers -> ReaderProxy] /\ matched \subseteq Readers
      /\ highestSN \in Nat /\ lastSN \in Nat /\ highestSN <= lastSN
  BY ProxyAssumption DEF Inv, WriterInv, KeepInv, CacheInv
<1>3. r \notin matched /\ matched' = matched \cup {r}
  BY Zenon DEF MatchedReaderAdd
<1>4. rp'[r] = NewReaderProxy(L) /\ \A q \in Readers \ {r} : rp'[q] = rp[q]
  BY <1>2, Zenon DEF MatchedReaderAdd
<1>5. Grows
  <2>1. \A q \in matched : q \in matched' /\ Irrelevant(q)' = Irrelevant(q)
    BY <1>2, <1>3, <1>4, Zenon DEF Irrelevant
  <2> QED
    BY <1>0, <1>1, <1>2, <2>1, GrowsWriter
<1>6. CacheInv'
  <2>1. preHB' \subseteq matched'
    BY Zenon DEF MatchedReaderAdd, KeepInv, CacheInv
  <2> QED
    BY <1>0, <2>1, Zenon DEF KeepInv, CacheInv, Writing
<1>7. AckFits(r)' /\ \A n \in rp'[r].requested : RequestFits(r, n)'
  <2>1. /\ rp'[r].lastIrrelevant = L /\ rp'[r].maxAcked = Unknown /\ rp'[r].requested = {}
    BY <1>4 DEF NewReaderProxy
  <2>2. \A n \in SN : n <= highestSN /\ n \notin cache => n <= L
    <3>1. CASE r \in VolatileReaders
      BY <1>2, <3>1, SNInt
    <3>2. CASE r \notin VolatileReaders
      <4>1. ~PurgeAcked
        BY <3>2, ProtocolAssumption, Zenon
      <4> QED
        BY <4>1, Zenon DEF KeepInv, CacheInv
    <3> QED
      BY <3>1, <3>2, Zenon
  <2> QED
    BY <1>0, <2>1, <2>2 DEF AckFits, Irrelevant, Unknown
<1>8. ASSUME NEW q \in Readers \ {r}
      PROVE  (/\ q \in matched => AckFits(q)
              /\ \A n \in rp[q].requested : RequestFits(q, n))'
  <2>1. rp'[q] = rp[q]
    BY <1>4, Zenon
  <2>2. /\ q \in matched => AckFits(q)
        /\ \A n \in rp[q].requested : RequestFits(q, n)
    BY Zenon DEF KeepInv, ProxyInv
  <2> QED
    BY <1>0, <1>1, <1>3, <2>1, <2>2, Zenon
       DEF AckFits, RequestFits, Told, KnowsUpTo, Knows, Irrelevant
<1>9. ProxyInv'
  BY <1>7, <1>8, Zenon DEF ProxyInv
<1> QED
  BY <1>0, <1>1, <1>5, <1>6, <1>9, WriterKeepsCursor, MessagesGrow, Zenon DEF KeepInv

\* A step of the writer's tasks that leaves acknowledgements, cache and readers alone, asks
\* for nothing new and sends what fits keeps KeepInv.
LEMMA TaskKeeps ==
    ASSUME Inv, Inv', KeepInv,
           UNCHANGED <<lastSN, app, cache, highestSN, matched>>, UNCHANGED readerVars,
           preHB' \subseteq preHB,
           \A r \in Readers : /\ rp'[r].lastIrrelevant = rp[r].lastIrrelevant
                              /\ rp'[r].maxAcked = rp[r].maxAcked
                              /\ rp'[r].requested \subseteq rp[r].requested,
           \A m \in net' \ net : MessageFits(m)
    PROVE  KeepInv'
<1>1. UNCHANGED <<wp, rx, hbSeen, ackTimer, ackQueue, delivered>>
  BY Zenon DEF readerVars
<1>2. CacheInv'
  BY Zenon DEF KeepInv, CacheInv, Writing
<1>3. ProxyInv'
  BY <1>1, Zenon DEF KeepInv, ProxyInv, AckFits, RequestFits, Told, KnowsUpTo, Knows, Irrelevant
<1>4. Grows
  <2>0. highestSN \in 0..MaxSN /\ matched \subseteq Readers
    BY Zenon DEF Inv, WriterInv
  <2>1. highestSN \in Nat /\ matched \subseteq Readers
    BY <2>0, ProxyAssumption
  <2>2. highestSN <= highestSN'
    BY <2>1
  <2> QED
    BY <1>1, <2>1, <2>2, GrowsWriter, Zenon DEF Irrelevant
<1> QED
  BY <1>1, <1>2, <1>3, <1>4, WriterKeepsCursor, MessagesGrow, Zenon DEF KeepInv

\* The heartbeats keep KeepInv.
LEMMA HeartbeatTasksKeep ==
    ASSUME Inv, Inv', KeepInv, KeepsAll,
           \/ RestartPeriodicHeartbeat \/ PeriodicHeartbeat \/ \E s \in Stoppers : StopHeartbeat(s)
           \/ \E r \in Readers : PreemptiveHeartbeat(r)
    PROVE  KeepInv'
<1>1. /\ UNCHANGED <<lastSN, app, cache, highestSN, matched>> /\ UNCHANGED readerVars
      /\ preHB' \subseteq preHB
  BY Zenon DEF RestartPeriodicHeartbeat, PeriodicHeartbeat, StopHeartbeat, PreemptiveHeartbeat
<1>2. \A q \in Readers : /\ rp'[q].lastIrrelevant = rp[q].lastIrrelevant
                         /\ rp'[q].maxAcked = rp[q].maxAcked
                         /\ rp'[q].requested \subseteq rp[q].requested
  <2>1. CASE rp' = rp
    BY <2>1, Zenon
  <2>2. ASSUME NEW r \in Readers, rp' = [rp EXCEPT ![r] = [rp[r] EXCEPT !.firstHB = TRUE]],
               NEW q \in Readers
        PROVE  /\ rp'[q].lastIrrelevant = rp[q].lastIrrelevant
               /\ rp'[q].maxAcked = rp[q].maxAcked
               /\ rp'[q].requested = rp[q].requested
    <3>1. rp \in [Readers -> ReaderProxy] /\ rp[r] \in ReaderProxy
      BY Zenon DEF Inv, WriterInv
    <3>2. /\ [rp[r] EXCEPT !.firstHB = TRUE].lastIrrelevant = rp[r].lastIrrelevant
          /\ [rp[r] EXCEPT !.firstHB = TRUE].maxAcked = rp[r].maxAcked
          /\ [rp[r] EXCEPT !.firstHB = TRUE].requested = rp[r].requested
      BY <3>1, Zenon DEF ReaderProxy
    <3> QED
      BY <2>2, <3>1, <3>2, Zenon
  <2>3. \/ rp' = rp
        \/ \E r \in Readers : rp' = [rp EXCEPT ![r] = [rp[r] EXCEPT !.firstHB = TRUE]]
    BY Zenon DEF RestartPeriodicHeartbeat, PeriodicHeartbeat, StopHeartbeat, PreemptiveHeartbeat
  <2> QED
    BY <2>1, <2>2, <2>3, Zenon
<1>3. \A m \in net' \ net : MessageFits(m)
  <2>1. CASE PeriodicHeartbeat
    <3>1. \A q \in matched : MessageFits(Heartbeat(q, RangeOf(cache, highestSN)))
      BY CacheRangeFits, Zenon DEF KeepInv, MessageFits, Heartbeat
    <3> QED
      BY <2>1, <3>1 DEF PeriodicHeartbeat, Send
  <2>2. ASSUME NEW r \in Readers, PreemptiveHeartbeat(r) PROVE \A m \in net' \ net : MessageFits(m)
    <3>1. r \in matched
      BY <2>2, Zenon DEF PreemptiveHeartbeat, KeepInv, CacheInv
    <3>2. \A m \in HeartbeatAndGap(r) : MessageFits(m)
      BY <3>1, HeartbeatAndGapFits, Zenon DEF KeepInv
    <3> QED
      BY <2>2, <3>2, Zenon DEF PreemptiveHeartbeat, Send
  <2> QED
    BY <2>1, <2>2, Zenon DEF RestartPeriodicHeartbeat, StopHeartbeat
<1> QED
  BY <1>1, <1>2, <1>3, TaskKeeps, Zenon

\* What is sent again was asked for, and what is answered by a GAP is not needed.
LEMMA SendRequestedKeeps ==
    ASSUME Inv, Inv', KeepInv, KeepsAll, NEW r \in Readers, SendRequestedChanges(r)
    PROVE  KeepInv'
<1>1. /\ UNCHANGED <<lastSN, app, cache, highestSN, matched>> /\ UNCHANGED readerVars
      /\ preHB' \subseteq preHB
  BY Zenon DEF SendRequestedChanges
<1>2. /\ rp[r].requested \in SUBSET SN /\ rp[r].requested # {}
      /\ \A n \in rp[r].requested : RequestFits(r, n)
      /\ Irrelevant(r) \in Nat
  BY NumberTypes, Zenon DEF SendRequestedChanges, KeepInv, ProxyInv
<1>3. r \in matched
  BY <1>2, Zenon DEF RequestFits, Told
<1>4. \A q \in Readers : /\ rp'[q].lastIrrelevant = rp[q].lastIrrelevant
                         /\ rp'[q].maxAcked = rp[q].maxAcked
                         /\ rp'[q].requested \subseteq rp[q].requested
  <2>1. rp' = [rp EXCEPT ![r] = [rp[r] EXCEPT !.requested = {}]]
    BY Zenon DEF SendRequestedChanges
  <2>2. rp \in [Readers -> ReaderProxy] /\ rp[r] \in ReaderProxy
    BY Zenon DEF Inv, WriterInv
  <2>3. /\ [rp[r] EXCEPT !.requested = {}].lastIrrelevant = rp[r].lastIrrelevant
        /\ [rp[r] EXCEPT !.requested = {}].maxAcked = rp[r].maxAcked
        /\ [rp[r] EXCEPT !.requested = {}].requested = {}
    BY <2>2, Zenon DEF ReaderProxy
  <2> QED
    BY <2>1, <2>2, <2>3, Zenon
<1>5. ASSUME NEW n \in RequestedData(r) PROVE MessageFits(Data(r, n, NoHB))
  <2>1. n \in rp[r].requested /\ n \notin RequestedGaps(r)
    BY Zenon DEF RequestedData
  <2>2. n \in SN /\ n \in Int /\ RequestFits(r, n)
    BY <1>2, <2>1, SNInt, Zenon
  <2>3. n > Irrelevant(r)
    BY <1>2, <2>1, <2>2 DEF RequestedGaps, Irrelevant
  <2>4. Prompt => \A k \in SN : k < n => Knows(wp[r], k)
    <3>1. \A k \in SN : k < n => k <= n
      BY <2>2, SNInt
    <3> QED
      BY <2>2, <3>1, Zenon DEF RequestFits, KnowsUpTo
  <2>5. DataFits(Data(r, n, NoHB))
    BY <2>2, <2>3, <2>4, Zenon DEF DataFits, Data, RequestFits
  <2> QED
    BY <1>3, <2>5, Zenon DEF MessageFits, Data
<1>6. MessageFits(Gap(r, RequestedGaps(r)))
  <2>1. ASSUME NEW n \in RequestedGaps(r)
        PROVE  Told(r, n) /\ (n <= Irrelevant(r) \/ n < wp[r].expected)
    <3>1. n \in SN /\ Told(r, n) /\ (n <= Irrelevant(r) \/ n \notin cache)
      BY <1>2, Zenon DEF RequestedGaps, Irrelevant, RequestFits
    <3> QED
      BY <1>3, <3>1, GoneIsPassed, Zenon DEF Told, KeepInv
  <2> QED
    BY <1>3, <2>1, Zenon DEF MessageFits, GapFits, Gap
<1>7. \A m \in net' \ net : MessageFits(m)
  BY <1>5, <1>6, Zenon DEF SendRequestedChanges, Send
<1> QED
  BY <1>1, <1>4, <1>7, TaskKeeps, Zenon

\* A change removed from the cache is no longer asked for.
LEMMA RemovalKeeps ==
    ASSUME Inv, Inv', KeepInv, NEW n \in SN, OnWriterCacheChangeRemoval(n)
    PROVE  KeepInv'
<1>1. /\ UNCHANGED <<lastSN, app, cache, highestSN, matched>> /\ UNCHANGED readerVars
      /\ preHB' \subseteq preHB /\ UNCHANGED net
  BY Zenon DEF OnWriterCacheChangeRemoval
<1>2. ASSUME NEW r \in Readers
      PROVE  /\ rp'[r].lastIrrelevant = rp[r].lastIrrelevant
             /\ rp'[r].maxAcked = rp[r].maxAcked
             /\ rp'[r].requested \subseteq rp[r].requested
  <2>1. rp[r] \in ReaderProxy
    BY Zenon DEF Inv, WriterInv
  <2>2. rp'[r] = [rp[r] EXCEPT !.requested = @ \ {n}]
    BY Zenon DEF OnWriterCacheChangeRemoval
  <2> QED
    BY <2>1, <2>2, Zenon DEF ReaderProxy
<1> QED
  BY <1>1, <1>2, TaskKeeps, Zenon

\* An ACKNACK acknowledges what lies below the cursor of its reader.
LEMMA AcknackKeeps ==
    ASSUME Inv, Inv', KeepInv, NEW m \in net, HandleAcknack(m)
    PROVE  KeepInv'
<1> DEFINE r == m.reader
           a == LargerOf(rp[r].maxAcked, m.base - 1)
           s == IF m.missing = {} THEN rp[r].requested ELSE m.missing
<1>0. UNCHANGED <<lastSN, app, highestSN, matched, preHB, readerVars>> /\ net' \subseteq net
  BY Zenon DEF HandleAcknack, Taken
<1>1. UNCHANGED <<wp, rx, hbSeen, ackTimer, ackQueue, delivered>>
  BY <1>0, Zenon DEF readerVars
<1>2. r \in Readers /\ m.base \in Nat /\ m.missing \in SUBSET SN /\ r \in matched /\ m.type = "ACKNACK"
  BY Zenon DEF Inv, NetInv, Messages, HandleAcknack
<1>3. /\ WriterInv /\ rp \in [Readers -> ReaderProxy] /\ rp' \in [Readers -> ReaderProxy]
      /\ matched \subseteq Readers /\ highestSN \in Nat
      /\ wp[r].expected \in Int /\ rp[r].maxAcked \in Int
  BY <1>2, NumberTypes, Zenon DEF Inv, WriterInv
<1>4. rp' = [rp EXCEPT ![r].maxAcked = a, ![r].requested = s]
  BY Zenon DEF HandleAcknack
<1> HIDE DEF a, s
<1>5. /\ rp'[r].lastIrrelevant = rp[r].lastIrrelevant
      /\ rp'[r].maxAcked = a /\ rp'[r].requested = s
      /\ \A q \in Readers \ {r} : rp'[q] = rp[q]
  BY <1>2, <1>3, <1>4 DEF ReaderProxy
<1>6. ProcessAckedChanges(MinAcked(rp'))
  BY <1>4, Zenon DEF HandleAcknack, a, s
<1>7. PICK q : q = rp'
  BY Zenon
<1>8. q \in [Readers -> ReaderProxy] /\ ProcessAckedChanges(MinAcked(q))
  BY <1>3, <1>6, <1>7, Zenon
<1>9. cache' \subseteq cache /\ (~PurgeAcked => cache' = cache)
  BY <1>8, PurgeSubset, Zenon
<1>10. CacheInv'
  BY <1>0, <1>9, Zenon DEF KeepInv, CacheInv, Writing
<1>11. AcknackFits(m)
  BY <1>2, Zenon DEF KeepInv, MessageInv, MessageFits
<1>12. a \in Int /\ rp[r].maxAcked <= a
  <2>1. m.base - 1 \in Int
    BY <1>2
  <2> QED
    BY <1>3, <2>1, LargerOfType, Zenon DEF a
<1>13. ASSUME Prompt PROVE a <= 0 \/ a < wp[r].expected
  <2>1. rp[r].maxAcked <= 0 \/ rp[r].maxAcked < wp[r].expected
    BY <1>2, <1>13, Zenon DEF KeepInv, ProxyInv, AckFits
  <2>2. m.base <= 1 \/ m.base <= wp[r].expected
    BY <1>11, <1>13, Zenon DEF AcknackFits
  <2> QED
    <3>1. PICK x, y, e : x = rp[r].maxAcked /\ y = m.base /\ e = wp[r].expected
      BY Zenon
    <3>2. x \in Int /\ y \in Int /\ e \in Int
      <4>1. x \in Int /\ y \in Nat /\ e \in Int
        BY <1>2, <1>3, <3>1, Zenon
      <4> QED
        BY ONLY <4>1
    <3>3. a = LargerOf(x, y - 1)
      BY <3>1, Zenon DEF a
    <3>4. (x <= 0 \/ x < e) /\ (y <= 1 \/ y <= e)
      BY <2>1, <2>2, <3>1, Zenon
    <3>5. LargerOf(x, y - 1) <= 0 \/ LargerOf(x, y - 1) < e
      BY ONLY <3>2, <3>4 DEF LargerOf
    <3> QED
      BY <3>1, <3>3, <3>5, Zenon
<1>14. ASSUME NEW p \in matched PROVE AckFits(p)'
  <2>1. p \in Readers /\ AckFits(p) /\ rp[p].maxAcked \in Int /\ wp[p].expected \in Int
    BY <1>3, NumberTypes, Zenon DEF KeepInv, ProxyInv
  <2>2. /\ q[p].maxAcked \in Int /\ rp[p].maxAcked <= q[p].maxAcked
        /\ Prompt => q[p].maxAcked <= 0 \/ q[p].maxAcked < wp[p].expected
        /\ Irrelevant(p)' = Irrelevant(p)
    <3>1. CASE p = r
      BY <1>5, <1>7, <1>12, <1>13, <3>1, Zenon DEF Irrelevant
    <3>2. CASE p # r
      BY <1>5, <1>7, <2>1, <3>2 DEF AckFits, Irrelevant
    <3> QED
      BY <3>1, <3>2, Zenon
  <2>3. \A n \in SN : n <= highestSN /\ n \notin cache => n <= Irrelevant(p) \/ n <= q[p].maxAcked
    BY <2>1, <2>2, SNInt DEF AckFits
  <2>4. \A n \in SN : n <= highestSN /\ n \notin cache' => n <= Irrelevant(p) \/ n <= q[p].maxAcked
    BY <1>3, <1>8, <2>3, PurgeKeeps, Zenon
  <2> QED
    BY <1>0, <1>1, <1>7, <2>2, <2>4, Zenon DEF AckFits
<1>15. ASSUME NEW p \in Readers, NEW n \in rp'[p].requested PROVE RequestFits(p, n)'
  <2>1. RequestFits(p, n)
    <3>1. CASE p = r
      BY <1>2, <1>5, <1>11, <3>1, Zenon DEF s, AcknackFits, KeepInv, ProxyInv
    <3>2. CASE p # r
      BY <1>5, <3>2, Zenon DEF KeepInv, ProxyInv
    <3> QED
      BY <3>1, <3>2, Zenon
  <2>2. Irrelevant(p)' = Irrelevant(p)
    BY <1>5, Zenon DEF Irrelevant
  <2> QED
    BY <1>0, <1>1, <2>1, <2>2, Zenon DEF RequestFits, Told, KnowsUpTo, Knows
<1>16. ProxyInv'
  BY <1>0, <1>14, <1>15, Zenon DEF ProxyInv
<1>17. Grows
  <2>1. \A p \in Readers : Irrelevant(p)' = Irrelevant(p)
    BY <1>5, Zenon DEF Irrelevant
  <2> QED
    <3>1. PICK h : h = highestSN
      BY Zenon
    <3>2. h \in Nat
      BY <1>3, <3>1, Zenon
    <3>3. h <= h
      BY ONLY <3>2
    <3>4. highestSN <= highestSN'
      BY <1>0, <3>1, <3>3, Zenon
    <3>5. \A p \in matched : p \in matched' /\ Irrelevant(p)' = Irrelevant(p)
      BY <1>0, <1>3, <2>1, Zenon
    <3> QED
      BY <1>1, <3>4, <3>5, GrowsWriter, Zenon
<1> QED
  BY <1>0, <1>1, <1>10, <1>16, <1>17, WriterKeepsCursor, MessagesGrow, Zenon DEF KeepInv

\* The answer to a preemptive ACKNACK fits.
LEMMA PreemptiveAcknackKeeps ==
    ASSUME Inv, Inv', KeepInv, KeepsAll, NEW m \in net, HandlePreemptiveAcknack(m)
    PROVE  KeepInv'
<1>1. /\ UNCHANGED <<lastSN, app, cache, highestSN, matched, rp, preHB>> /\ UNCHANGED readerVars
  BY Zenon DEF HandlePreemptiveAcknack, writerVars
<1>2. m.reader \in matched
  BY Zenon DEF HandlePreemptiveAcknack
<1>3. \A k \in HeartbeatAndGap(m.reader) : MessageFits(k)
  BY <1>2, HeartbeatAndGapFits, Zenon DEF KeepInv
<1>4. \A k \in net' \ net : MessageFits(k)
  BY <1>3, Zenon DEF HandlePreemptiveAcknack, Taken
<1> QED
  BY <1>1, <1>4, TaskKeeps, Zenon

----------------------------------------------------------------------------
(* The readers' steps *)

\* A step that concerns one reader keeps the others where they are.
LEMMA OtherReaders ==
    ASSUME Inv, CursorInv, UNCHANGED writerVars, NEW r \in Readers,
           wp' = [wp EXCEPT ![r] = wp'[r]], delivered' = [delivered EXCEPT ![r] = delivered'[r]],
           rx' = [rx EXCEPT ![r] = rx'[r]], hbSeen' = [hbSeen EXCEPT ![r] = hbSeen'[r]],
           InlineAcknack => UNCHANGED <<ackTimer, ackQueue>>, CursorFits(r)'
    PROVE  CursorInv'
<1> SUFFICES ASSUME NEW q \in Readers, q # r PROVE CursorFits(q)'
  BY Zenon DEF CursorInv
<1>1. /\ wp'[q] = wp[q] /\ delivered'[q] = delivered[q] /\ rx'[q] = rx[q] /\ hbSeen'[q] = hbSeen[q]
  BY Zenon DEF Inv, DeliveryInv, ReaderInv
<1>2. UNCHANGED <<highestSN, matched, rp>>
  BY Zenon DEF writerVars
<1>3. CursorFits(q)
  BY Zenon DEF CursorInv
<1> QED
  BY <1>1, <1>2, <1>3, Zenon DEF CursorFits, HearsInOrder, Faithful, IsSettled, Received,
                                 Told, KnowsUpTo, Knows, HBFits, Irrelevant

\* A handler of one reader leaves everything growing.
LEMMA DeliverGrows ==
    ASSUME Inv, UNCHANGED writerVars, NEW r \in Readers, NEW res, SafeResult(wp[r], res), Deliver(r, res),
           \A n \in SN : Knows(wp[r], n) => Knows(res.wp, n)
    PROVE  Grows
<1>1. UNCHANGED <<highestSN, matched, rp>> /\ highestSN \in Nat
  BY ProxyAssumption DEF writerVars, Inv, WriterInv
<1>2. /\ wp'[r] = res.wp /\ \A q \in Readers \ {r} : wp'[q] = wp[q]
  BY ReceivedGrows, Zenon DEF SafeResult, Inv
<1>3. wp[r].expected <= res.wp.expected
  BY Zenon DEF SafeResult
<1>4. ASSUME NEW q \in Readers PROVE GrowsFor(q)
  <2>1. CASE q = r
    BY <1>1, <1>2, <1>3, <2>1, Zenon DEF GrowsFor, Irrelevant
  <2>2. CASE q # r
    <3>1. wp[q].expected \in Int
      BY NumberTypes, Zenon
    <3>2. wp[q].expected <= wp[q].expected
      BY ONLY <3>1
    <3> QED
      BY <1>1, <1>2, <2>2, <3>2, Zenon DEF GrowsFor, Irrelevant
  <2> QED
    BY <2>1, <2>2, Zenon
<1> QED
  BY <1>1, <1>4 DEF Grows

\* A handler works on the proxy and the history of one reader.
LEMMA DeliverOne ==
    ASSUME Inv, NEW r \in Readers, NEW res, Deliver(r, res)
    PROVE  /\ wp' = [wp EXCEPT ![r] = wp'[r]]
           /\ delivered' = [delivered EXCEPT ![r] = delivered'[r]]
BY Zenon DEF Deliver, Inv, DeliveryInv

\* DATA brings a sample its reader needs, and keeps KeepInv.
LEMMA DataKeeps ==
    ASSUME Inv, Inv', KeepInv, Undisturbed, NEW m \in net, HandleData(m)
    PROVE  KeepInv'
<1> DEFINE r == m.reader
           res == DeliverChangeToReader(wp[r], m.sn)
<1>0. /\ m.type = "DATA" /\ rx[r] = NoHB /\ Deliver(r, res) /\ rx' = [rx EXCEPT ![r] = m.hb]
      /\ net' \subseteq net /\ UNCHANGED writerVars /\ UNCHANGED <<hbSeen, ackTimer, ackQueue>>
  BY Zenon DEF HandleData, Taken
<1>1. r \in Readers /\ m.sn \in SN /\ m.hb \in HBRange
  BY <1>0, Zenon DEF Inv, NetInv, Messages
<1>2. r \in matched /\ DataFits(m)
  BY <1>0, Zenon DEF KeepInv, MessageInv, MessageFits
<1>3. Separated(wp[r]) /\ SafeResult(wp[r], res) /\ CursorFits(r) /\ Irrelevant(r) \in Nat
  BY <1>1, DataSafe, NumberTypes, Zenon DEF Inv, DeliveryInv, KeepInv, CursorInv
<1>4. \A n \in SN : /\ Knows(wp[r], n) => Knows(res.wp, n)
                    /\ res.wp.ledger[n] # "none" => n = m.sn \/ wp[r].ledger[n] # "none"
  BY <1>1, <1>3, DataKnows, Zenon
<1>5. Faithful(res.wp, Received(r) \cup res.out, Irrelevant(r))
  <2>1. /\ Faithful(wp[r], Received(r), Irrelevant(r)) /\ m.sn > Irrelevant(r)
        /\ Cardinality(wp[r].buffered) + 1 < InOrderBuffer
    BY <1>1, <1>2, <1>3, Zenon DEF DataFits, CursorFits, Undisturbed
  <2>2. Irrelevant(r) \in Int
    BY <1>3
  <2> QED
    BY <1>1, <1>3, <2>1, <2>2, DataFaithful, Zenon
<1> HIDE DEF res
<1>6. Grows
  BY <1>0, <1>1, <1>3, <1>4, DeliverGrows, Zenon
<1>7. CacheInv' /\ ProxyInv' /\ MessageInv'
  BY <1>0, <1>6, ReaderKeepsProxy, MessagesGrow, Zenon DEF KeepInv
<1>8. CursorFits(r)'
  <2>1. /\ wp'[r] = res.wp /\ Received(r)' = Received(r) \cup res.out
        /\ Irrelevant(r)' = Irrelevant(r) /\ r \in matched'
    BY <1>0, <1>1, <1>2, <1>3, <1>6, ReceivedGrows, Zenon DEF SafeResult, Inv, Grows, GrowsFor
  <2>2. /\ rx'[r] = m.hb /\ hbSeen'[r] = hbSeen[r]
        /\ InlineAcknack => r \notin ackTimer' /\ ackQueue'[r] = 0
    BY <1>0, <1>1, <1>3, Zenon DEF Inv, ReaderInv, CursorFits
  <2>3. Faithful(wp[r], Received(r), Irrelevant(r))'
    BY <1>5, <2>1, Zenon DEF Faithful, IsSettled
  <2>4. ASSUME Prompt, NEW k \in SN, NEW n \in SN, n < k, res.wp.ledger[k] # "none"
        PROVE  Knows(res.wp, n) \/ n <= m.hb.last
    <3>1. CASE k = m.sn
      BY <1>2, <1>4, <2>4, <3>1, Zenon DEF DataFits
    <3>2. CASE wp[r].ledger[k] # "none"
      <4>1. Knows(wp[r], n) \/ n <= 0
        <5>1. Knows(wp[r], n) \/ n <= rx[r].last
          BY <1>3, <2>4, <3>2, Zenon DEF CursorFits, HearsInOrder
        <5>2. rx[r].last = 0
          BY <1>0 DEF NoHB
        <5> QED
          BY <5>1, <5>2, Zenon
      <4> QED
        BY <1>4, <4>1, SNInt
    <3> QED
      BY <1>4, <2>4, <3>1, <3>2, Zenon
  <2>5. Prompt => KnowsUpTo(r, hbSeen[r])'
    BY <1>3, <1>4, <2>1, <2>2, Zenon DEF CursorFits, HearsInOrder, KnowsUpTo, Knows
  <2>6. (rx[r] # NoHB => r \in matched /\ HBFits(r, rx[r]))'
    BY <1>1, <1>2, <1>6, <2>1, <2>2, HBFitsGrows, Zenon DEF DataFits
  <2>7. \A n \in SN : res.wp.ledger[n] # "none" => Told(r, n)'
    BY <1>1, <1>2, <1>3, <1>4, <1>6, ToldGrows, Zenon DEF CursorFits, DataFits
  <2>8. (Prompt => HearsInOrder(r))'
    BY <2>1, <2>2, <2>4, <2>5, Zenon DEF HearsInOrder, Knows
  <2> QED
    BY <2>1, <2>2, <2>3, <2>6, <2>7, <2>8, Zenon DEF CursorFits
<1>9. CursorInv'
  <2>1. hbSeen' = [hbSeen EXCEPT ![r] = hbSeen'[r]] /\ rx' = [rx EXCEPT ![r] = rx'[r]]
    BY <1>0, <1>1, Zenon DEF Inv, ReaderInv
  <2> QED
    BY <1>0, <1>1, <1>8, <2>1, DeliverOne, OtherReaders, Zenon DEF KeepInv
<1> QED
  BY <1>7, <1>9, Zenon DEF KeepInv

\* A GAP moves the cursor of its reader over nothing the reader needs.
LEMMA GapKeeps ==
    ASSUME Inv, Inv', KeepInv, NEW m \in net, HandleGap(m)
    PROVE  KeepInv'
<1> DEFINE r == m.reader
           res == GapHandler(wp[r], m.sns)
<1>0. /\ m.type = "GAP" /\ rx[r] = NoHB /\ Deliver(r, res) /\ UNCHANGED rx
      /\ net' \subseteq net /\ UNCHANGED writerVars /\ UNCHANGED <<hbSeen, ackTimer, ackQueue>>
  BY Zenon DEF HandleGap, Taken
<1>1. r \in Readers /\ m.sns \in SUBSET SN /\ m.sns # {}
  BY <1>0, Zenon DEF Inv, NetInv, Messages
<1>2. r \in matched /\ GapFits(m)
  BY <1>0, Zenon DEF KeepInv, MessageInv, MessageFits
<1>3. Separated(wp[r]) /\ SafeResult(wp[r], res) /\ CursorFits(r) /\ Irrelevant(r) \in Nat
  BY <1>1, GapSafe, NumberTypes, Zenon DEF Inv, DeliveryInv, KeepInv, CursorInv
<1>4. \A n \in SN : /\ Knows(wp[r], n) => Knows(res.wp, n)
                    /\ res.wp.ledger[n] # "none" => n \in m.sns \/ wp[r].ledger[n] # "none"
                    /\ n \in m.sns => n < res.wp.expected
  BY <1>1, <1>3, GapKnows, Zenon
<1>5. Faithful(res.wp, Received(r) \cup res.out, Irrelevant(r))
  <2>1. \A n \in m.sns : n <= Irrelevant(r) \/ n < wp[r].expected
    BY <1>2, Zenon DEF GapFits
  <2>2. Faithful(wp[r], Received(r), Irrelevant(r))
    BY <1>3, Zenon DEF CursorFits
  <2>3. Irrelevant(r) \in Int
    <3>1. \A n \in Nat : n \in Int
      OBVIOUS
    <3> QED
      BY <1>3, <3>1, Zenon
  <2> QED
    BY <1>1, <1>3, <2>1, <2>2, <2>3, GapFaithful, Zenon
<1> HIDE DEF res
<1>6. Grows
  BY <1>0, <1>1, <1>3, <1>4, DeliverGrows, Zenon
<1>7. CacheInv' /\ ProxyInv' /\ MessageInv'
  BY <1>0, <1>6, ReaderKeepsProxy, MessagesGrow, Zenon DEF KeepInv
<1>8. CursorFits(r)'
  <2>1. /\ wp'[r] = res.wp /\ Received(r)' = Received(r) \cup res.out
        /\ Irrelevant(r)' = Irrelevant(r) /\ r \in matched'
    BY <1>0, <1>1, <1>2, <1>3, <1>6, ReceivedGrows, Zenon DEF SafeResult, Inv, Grows, GrowsFor
  <2>2. /\ rx'[r] = NoHB /\ hbSeen'[r] = hbSeen[r]
        /\ InlineAcknack => r \notin ackTimer' /\ ackQueue'[r] = 0
    BY <1>0, <1>1, <1>3, Zenon DEF CursorFits
  <2>3. Faithful(wp[r], Received(r), Irrelevant(r))'
    BY <1>5, <2>1, Zenon DEF Faithful, IsSettled
  <2>4. ASSUME Prompt, NEW k \in SN, NEW n \in SN, n < k, res.wp.ledger[k] # "none"
        PROVE  Knows(res.wp, n)
    <3>1. CASE k \in m.sns
      <4>1. k < res.wp.expected /\ res.wp.expected \in Int
        BY <1>3, <1>4, <3>1, Zenon DEF SafeResult, Separated, Proxy
      <4> QED
        BY <2>4, <4>1, SNInt DEF Knows
    <3>2. CASE wp[r].ledger[k] # "none"
      <4>1. Knows(wp[r], n) \/ n <= 0
        <5>1. Knows(wp[r], n) \/ n <= rx[r].last
          BY <1>3, <2>4, <3>2, Zenon DEF CursorFits, HearsInOrder
        <5>2. rx[r].last = 0
          BY <1>0 DEF NoHB
        <5> QED
          BY <5>1, <5>2, Zenon
      <4> QED
        BY <1>4, <4>1, SNInt
    <3> QED
      BY <1>4, <2>4, <3>1, <3>2, Zenon
  <2>5. Prompt => KnowsUpTo(r, hbSeen[r])'
    BY <1>3, <1>4, <2>1, <2>2, Zenon DEF CursorFits, HearsInOrder, KnowsUpTo, Knows
  <2>6. \A n \in SN : res.wp.ledger[n] # "none" => Told(r, n)'
    BY <1>1, <1>2, <1>3, <1>4, <1>6, ToldGrows, Zenon DEF CursorFits, GapFits
  <2>7. (Prompt => HearsInOrder(r))'
    BY <2>1, <2>2, <2>4, <2>5, Zenon DEF HearsInOrder, Knows
  <2> QED
    BY <2>1, <2>2, <2>3, <2>6, <2>7, Zenon DEF CursorFits
<1>9. CursorInv'
  <2>1. hbSeen' = [hbSeen EXCEPT ![r] = hbSeen'[r]] /\ rx' = [rx EXCEPT ![r] = rx'[r]]
    BY <1>0, <1>1, Zenon DEF Inv, ReaderInv
  <2> QED
    BY <1>0, <1>1, <1>8, <2>1, DeliverOne, OtherReaders, Zenon DEF KeepInv
<1> QED
  BY <1>7, <1>9, Zenon DEF KeepInv

\* A HEARTBEAT that fits moves the cursor of its reader over nothing the reader needs, and
\* a prompt ACKNACK to it claims nothing at or above the cursor.
LEMMA HeartbeatKeeps ==
    ASSUME Inv, Inv', KeepInv, NEW r \in matched, NEW hb \in HBRange, HBFits(r, hb),
           NEW rest \in SUBSET net, HandleHeartbeat(r, hb, rest), rx[r] \in {NoHB, hb},
           rx' = [rx EXCEPT ![r] = NoHB], UNCHANGED writerVars, UNCHANGED ackQueue
    PROVE  KeepInv'
<1> DEFINE p   == ProcessHeartbeat(wp[r], hb.first, hb.last)
           res == HeartbeatHandler(wp[r], hb.first, hb.last)
           S   == MissingChanges(p, p.expected, hb.last)
           a   == AcknackOf(r, CalculateBitmapBase(p), S)
<1>0. r \in Readers /\ hb.first \in Nat /\ hb.last \in Nat /\ hb.first >= 1 /\ hb.last <= highestSN
  BY Zenon DEF Inv, WriterInv, HBRange, HBFits
<1>1. /\ Deliver(r, res) /\ hbSeen' = [hbSeen EXCEPT ![r] = LargerOf(@, hb.last)]
      /\ net' = rest \cup {a} \/ net' = rest
      /\ InlineAcknack => UNCHANGED ackTimer
  BY Zenon DEF HandleHeartbeat
<1>2. Separated(wp[r]) /\ SafeResult(wp[r], res) /\ CursorFits(r) /\ Irrelevant(r) \in Int
  <2>1. wp[r] \in Proxy /\ Irrelevant(r) \in Int
    BY <1>0, NumberTypes
  <2>2. Separated(wp[r]) /\ CursorFits(r)
    BY <1>0, Zenon DEF Inv, DeliveryInv, KeepInv, CursorInv
  <2>3. SafeResult(wp[r], res)
    BY <1>0, <2>1, <2>2, HeartbeatSafe, Zenon
  <2> QED
    BY <2>1, <2>2, <2>3, Zenon
<1>3. /\ res.wp.ledger = p.ledger /\ hb.first <= res.wp.expected
      /\ \A n \in SN : /\ Knows(wp[r], n) => Knows(res.wp, n)
                       /\ n <= hb.last => Knows(res.wp, n)
                       /\ res.wp.ledger[n] # "none" => n <= hb.last \/ wp[r].ledger[n] # "none"
  <2>1. \A n \in SN : /\ Knows(wp[r], n) => Knows(res.wp, n)
                      /\ n <= hb.last => Knows(res.wp, n)
                      /\ res.wp.ledger[n] # "none" => n <= hb.last \/ wp[r].ledger[n] # "none"
    BY <1>0, <1>2, HeartbeatKnows, ZenonT(30)
  <2>2. res.wp.ledger = p.ledger /\ hb.first <= res.wp.expected
    BY <1>0, <1>2, HeartbeatCursor, Zenon
  <2> QED
    BY <2>1, <2>2, Zenon
<1>4. Faithful(res.wp, Received(r) \cup res.out, Irrelevant(r))
  <2>1. hb.first <= Irrelevant(r) + 1 \/ hb.first <= wp[r].expected
    BY Zenon DEF HBFits
  <2>2. Faithful(wp[r], Received(r), Irrelevant(r))
    BY <1>2, Zenon DEF CursorFits
  <2> QED
    BY <1>0, <1>2, <2>1, <2>2, HeartbeatFaithful, Zenon
<1>5. CalculateBitmapBase(p) = CalculateBitmapBase(res.wp)
  BY <1>3, BaseOfLedger, Zenon
<1>6. ASSUME NEW n \in S PROVE n \in SN /\ n \in Int /\ n <= hb.last
  BY <1>0, SNInt DEF MissingChanges
<1> HIDE DEF res, p, S
<1>7. ASSUME Prompt, NEW k \in SN, NEW n \in SN, n < k, res.wp.ledger[k] # "none"
      PROVE  Knows(res.wp, n)
  <2>1. CASE k <= hb.last
    BY <1>0, <1>3, <1>7, <2>1, SNInt
  <2>2. CASE wp[r].ledger[k] # "none"
    <3>1. Knows(wp[r], n) \/ n <= rx[r].last
      BY <1>2, <1>7, <2>2, Zenon DEF CursorFits, HearsInOrder
    <3>2. CASE rx[r] = NoHB
      <4>1. rx[r].last = 0 /\ n \in Int /\ n >= 1
        BY <3>2, SNInt DEF NoHB
      <4>2. Knows(wp[r], n)
        BY <3>1, <4>1
      <4> QED
        BY <1>3, <4>2, Zenon
    <3>3. CASE rx[r] = hb
      BY <1>3, <3>1, <3>3, Zenon
    <3> QED
      BY <3>2, <3>3, Zenon
  <2> QED
    BY <1>3, <1>7, <2>1, <2>2, Zenon
<1>8. Grows
  BY <1>0, <1>1, <1>2, <1>3, DeliverGrows, Zenon
<1>9. /\ wp'[r] = res.wp /\ Received(r)' = Received(r) \cup res.out
      /\ Irrelevant(r)' = Irrelevant(r) /\ r \in matched'
  BY <1>0, <1>1, <1>2, <1>8, ReceivedGrows, Zenon DEF SafeResult, Inv, Grows, GrowsFor
<1>10. CursorFits(r)'
  <2>1. /\ rx'[r] = NoHB /\ hbSeen'[r] = LargerOf(hbSeen[r], hb.last)
        /\ InlineAcknack => r \notin ackTimer' /\ ackQueue'[r] = 0
    BY <1>0, <1>1, <1>2, Zenon DEF Inv, ReaderInv, CursorFits
  <2>2. Faithful(wp[r], Received(r), Irrelevant(r))'
    BY <1>4, <1>9, Zenon DEF Faithful, IsSettled
  <2>3. ASSUME Prompt PROVE KnowsUpTo(r, hbSeen[r])'
    <3>1. \A k \in SN : k <= hbSeen[r] => Knows(wp[r], k)
      BY <1>2, <2>3, Zenon DEF CursorFits, HearsInOrder, KnowsUpTo
    <3>2. hbSeen[r] \in Nat
      BY <1>0, NumberTypes, Zenon
    <3>3. \A k \in SN : k <= LargerOf(hbSeen[r], hb.last) => Knows(res.wp, k)
      BY <1>0, <1>3, <3>1, <3>2, SNInt, Zenon DEF LargerOf
    <3> QED
      BY <1>9, <2>1, <3>3, Zenon DEF KnowsUpTo
  <2>4. (Prompt => HearsInOrder(r))'
    BY <1>7, <1>9, <2>1, <2>3, Zenon DEF HearsInOrder, Knows
  <2>5. ASSUME NEW n \in SN, res.wp.ledger[n] # "none" PROVE Told(r, n)'
    <3>1. CASE n <= hb.last
      <4>1. n \in Int /\ highestSN \in Nat
        BY <1>0, SNInt, NumberTypes, Zenon
      <4>2. n <= highestSN
        BY <1>0, <3>1, <4>1
      <4> QED
        BY <1>0, <1>8, <4>2, ToldGrows, Zenon DEF Told
    <3>2. CASE wp[r].ledger[n] # "none"
      BY <1>0, <1>2, <1>8, <3>2, ToldGrows, Zenon DEF CursorFits
    <3> QED
      BY <1>3, <2>5, <3>1, <3>2, Zenon
  <2> QED
    BY <1>9, <2>1, <2>2, <2>4, <2>5, Zenon DEF CursorFits
<1>11. CursorInv'
  <2>1. hbSeen' = [hbSeen EXCEPT ![r] = hbSeen'[r]] /\ rx' = [rx EXCEPT ![r] = rx'[r]]
    BY <1>0, <1>1, Zenon DEF Inv, ReaderInv
  <2> QED
    BY <1>0, <1>1, <1>10, <2>1, DeliverOne, OtherReaders, Zenon DEF KeepInv
<1>b. PICK c : c = a
  BY Zenon
<1>12. MessageFits(c)'
  <2>1. PICK b, T : b = CalculateBitmapBase(p) /\ T = {n \in S : n >= b}
    BY Zenon
  <2>2. ASSUME Prompt PROVE b <= 1 \/ b <= res.wp.expected
    <3>1. res.wp.expected \in Int /\ Separated(res.wp)
      BY <1>2, Zenon DEF SafeResult, Separated, Proxy
    <3>2. res.wp.expected >= 1
      <4>1. \A x \in Nat, y \in Int : x >= 1 /\ x <= y => y >= 1
        OBVIOUS
      <4>2. hb.first <= res.wp.expected
        BY <1>3, Zenon
      <4> QED
        BY <1>0, <3>1, <4>1, <4>2, Zenon
    <3> QED
      BY <1>4, <1>5, <1>7, <2>1, <2>2, <3>1, <3>2, BaseBelowCursor, Zenon
  <2>3. ASSUME NEW n \in T PROVE RequestFits(r, n)'
    <3>1. n \in SN /\ n \in Int /\ n <= hb.last
      BY <1>6, <2>1, Zenon
    <3>2. highestSN' = highestSN /\ highestSN \in Nat
      BY ProxyAssumption DEF writerVars, Inv, WriterInv
    <3>3. \A k \in SN : k <= n => Knows(res.wp, k)
      BY <1>0, <1>3, <3>1, SNInt
    <3>4. n <= highestSN'
      BY <1>0, <3>1, <3>2
    <3>5. KnowsUpTo(r, n)'
      BY <1>9, <3>3, Zenon DEF KnowsUpTo
    <3> QED
      BY <1>9, <3>4, <3>5, Zenon DEF RequestFits, Told
  <2>4. c.type = "ACKNACK" /\ c.reader = r /\ c.base = b /\ c.missing = T
    BY <1>b, <2>1, Zenon DEF AcknackOf, Acknack
  <2> QED
    BY <1>9, <2>2, <2>3, <2>4, Zenon DEF MessageFits, AcknackFits
<1> QED
  BY <1>1, <1>8, <1>11, <1>12, <1>b, ReaderKeepsProxy, MessagesGrow, Zenon DEF KeepInv

\* A HEARTBEAT in a datagram of its own.
LEMMA HeartbeatMessageKeeps ==
    ASSUME Inv, Inv', KeepInv, NEW m \in net, HandleHeartbeatMessage(m)
    PROVE  KeepInv'
<1>1. /\ m.type = "HEARTBEAT" /\ rx[m.reader] = NoHB /\ HandleHeartbeat(m.reader, m.hb, Taken(m))
      /\ UNCHANGED writerVars /\ UNCHANGED rx /\ UNCHANGED ackQueue
  BY Zenon DEF HandleHeartbeatMessage
<1>2. m.reader \in Readers /\ m.hb \in HBRange
  BY <1>1, Zenon DEF Inv, NetInv, Messages
<1>3. m.reader \in matched /\ HBFits(m.reader, m.hb)
  BY <1>1, Zenon DEF KeepInv, MessageInv, MessageFits
<1>4. rx' = [rx EXCEPT ![m.reader] = NoHB]
  BY <1>1, <1>2, Zenon DEF Inv, ReaderInv
<1>5. Taken(m) \in SUBSET net
  BY Zenon DEF Taken
<1> QED
  BY <1>1, <1>2, <1>3, <1>4, <1>5, HeartbeatKeeps, Zenon

\* A delayed ACKNACK asks only for what its reader may have heard of; without a response
\* delay none is ever queued.
LEMMA SendAcknackKeeps ==
    ASSUME Inv, KeepInv, NEW r \in Readers, SendAcknack(r), NEW m \in net' \ net
    PROVE  MessageFits(m)
<1> DEFINE b == CalculateBitmapBase(wp[r])
           S == MissingChanges(wp[r], b, ChangesFromWriterMax(wp[r]))
<1>1. ackQueue[r] > 0 /\ m = AcknackOf(r, b, S)
  BY Zenon DEF SendAcknack, Send
<1>2. CursorFits(r)
  BY Zenon DEF KeepInv, CursorInv
<1>3. ~InlineAcknack
  <2>1. ackQueue[r] # 0
    BY <1>1
  <2> QED
    BY <1>2, <2>1, Zenon DEF CursorFits
<1>4. ASSUME NEW n \in S PROVE Told(r, n)
  <2> DEFINE E == Entries(wp[r])
  <2>1. E \in SUBSET SN
    BY Zenon DEF Entries
  <2>2. n \in SN /\ n \in b..ChangesFromWriterMax(wp[r])
    BY Zenon DEF MissingChanges
  <2>3. E # {}
    <3>1. SUFFICES ASSUME E = {} PROVE FALSE
      OBVIOUS
    <3>2. b = 1 /\ ChangesFromWriterMax(wp[r]) = Unknown
      BY <3>1, Zenon DEF CalculateBitmapBase, ChangesFromWriterMax
    <3>3. n \in 1..Unknown
      BY <2>2, <3>2, Zenon
    <3> QED
      BY <3>3 DEF Unknown
  <2>4. PICK k : k = Max(E)
    BY Zenon
  <2>5. k \in E /\ k \in SN
    BY <2>1, <2>3, <2>4, MaxSNs, Zenon
  <2>6. n <= k
    <3>1. n \in b..k
      BY <2>2, <2>3, <2>4, Zenon DEF ChangesFromWriterMax
    <3>2. n \in Int /\ k \in Int /\ b \in Int
      BY <2>2, <2>5, SNInt, BitmapBaseType, NatIsInt, Zenon DEF Inv, DeliveryInv
    <3> QED
      BY ONLY <3>1, <3>2
  <2>7. Told(r, k)
    BY <1>2, <2>5, Zenon DEF CursorFits, Entries
  <2>8. n \in Int /\ k \in Int /\ highestSN \in Nat /\ Irrelevant(r) \in Nat
    BY <2>2, <2>5, SNInt, NumberTypes, Zenon
  <2>9. /\ k <= highestSN => n <= highestSN
        /\ k <= Irrelevant(r) => n <= Irrelevant(r)
    BY ONLY <2>6, <2>8
  <2> QED
    BY <2>7, <2>9, Zenon DEF Told
<1> HIDE DEF b, S
<1>5. m.type = "ACKNACK" /\ m.reader = r /\ m.missing \subseteq S
  BY <1>1, Zenon DEF AcknackOf, Acknack
<1> QED
  BY <1>3, <1>4, <1>5, Zenon DEF MessageFits, AcknackFits, RequestFits, Prompt

\* The tasks of a reader keep KeepInv.
LEMMA ReaderTaskKeeps ==
    ASSUME Inv, Inv', KeepInv, NEW r \in Readers, ReaderTask(r)
    PROVE  KeepInv'
<1>0. /\ CursorFits(r) /\ rx[r] \in HBRange /\ rx \in [Readers -> HBRange]
      /\ hbSeen[r] \in Nat /\ rx[r].last \in Nat
  BY NumberTypes, Zenon DEF KeepInv, CursorInv, Inv, ReaderInv
<1>1. CASE HandlePiggybackHeartbeat(r)
  <2>1. /\ rx[r] # NoHB /\ HandleHeartbeat(r, rx[r], net) /\ rx' = [rx EXCEPT ![r] = NoHB]
        /\ UNCHANGED writerVars /\ UNCHANGED ackQueue
    BY <1>1, Zenon DEF HandlePiggybackHeartbeat
  <2>2. r \in matched /\ HBFits(r, rx[r])
    BY <1>0, <2>1, Zenon DEF CursorFits
  <2>3. net \in SUBSET net /\ rx[r] \in {NoHB, rx[r]}
    BY Zenon
  <2> QED
    BY <1>0, <2>1, <2>2, <2>3, HeartbeatKeeps, Zenon
<1>2. CASE RejectPiggybackHeartbeat(r)
  <2>1. /\ rx[r].last <= hbSeen[r] /\ rx' = [rx EXCEPT ![r] = NoHB] /\ UNCHANGED writerVars
        /\ UNCHANGED <<wp, hbSeen, ackTimer, ackQueue, delivered, net>>
    BY <1>2, Zenon DEF RejectPiggybackHeartbeat
  <2>2. UNCHANGED <<matched, rp, highestSN>> /\ highestSN \in Nat
    BY <2>1, ProxyAssumption DEF writerVars, Inv, WriterInv
  <2>3. highestSN <= highestSN'
    BY <2>2
  <2>4. Grows
    BY <2>1, <2>2, <2>3, GrowsWriter, Zenon DEF Irrelevant
  <2>5. ASSUME Prompt, NEW m \in SN, NEW n \in SN, n < m, wp[r].ledger[m] # "none"
        PROVE  Knows(wp[r], n)
    <3>1. Knows(wp[r], n) \/ n <= rx[r].last
      BY <1>0, <2>5, Zenon DEF CursorFits, HearsInOrder
    <3>2. CASE n <= rx[r].last
      <4>1. n <= hbSeen[r]
        BY <1>0, <2>1, <3>2, SNInt
      <4> QED
        BY <1>0, <2>5, <4>1, Zenon DEF CursorFits, HearsInOrder, KnowsUpTo
    <3> QED
      BY <3>1, <3>2, Zenon
  <2>6. CursorFits(r)'
    <3>1. rx'[r] = NoHB
      BY <1>0, <2>1, Zenon
    <3> QED
      BY <1>0, <2>1, <2>2, <2>5, <3>1, Zenon
         DEF CursorFits, HearsInOrder, Faithful, IsSettled, Received, Told, KnowsUpTo, Knows, Irrelevant
  <2>7. CursorInv'
    <3>1. /\ wp' = [wp EXCEPT ![r] = wp'[r]] /\ delivered' = [delivered EXCEPT ![r] = delivered'[r]]
          /\ rx' = [rx EXCEPT ![r] = rx'[r]] /\ hbSeen' = [hbSeen EXCEPT ![r] = hbSeen'[r]]
      BY <2>1, Zenon DEF Inv, DeliveryInv, ReaderInv
    <3> QED
      BY <2>1, <2>6, <3>1, OtherReaders, Zenon DEF KeepInv
  <2> QED
    BY <2>1, <2>4, <2>7, ReaderKeepsProxy, MessagesGrow, Zenon DEF KeepInv
<1>3. CASE SendPreemptiveAcknack(r) \/ SendAcknack(r) \/ AcknackTimer(r)
  <2>1. UNCHANGED writerVars /\ UNCHANGED <<wp, rx, hbSeen, delivered>>
    BY <1>3, Zenon DEF SendPreemptiveAcknack, SendAcknack, AcknackTimer
  <2>2. UNCHANGED <<matched, rp, highestSN>> /\ highestSN \in Nat
    BY <2>1, ProxyAssumption DEF writerVars, Inv, WriterInv
  <2>3. highestSN <= highestSN'
    BY <2>2
  <2>4. Grows
    BY <2>1, <2>2, <2>3, GrowsWriter, Zenon DEF Irrelevant
  <2>5. \A m \in net' \ net : MessageFits(m)
    <3>1. MessageFits(Preemptive(r))
      BY Zenon DEF MessageFits, Preemptive
    <3>2. CASE SendPreemptiveAcknack(r)
      BY <3>1, <3>2, Zenon DEF SendPreemptiveAcknack, Send
    <3>3. CASE SendAcknack(r)
      BY <3>3, SendAcknackKeeps, Zenon
    <3>4. CASE AcknackTimer(r)
      BY <3>4, Zenon DEF AcknackTimer
    <3> QED
      BY <1>3, <3>2, <3>3, <3>4, Zenon
  <2>6. InlineAcknack => UNCHANGED <<ackTimer, ackQueue>>
    <3>1. InlineAcknack => r \notin ackTimer /\ ~(ackQueue[r] > 0)
      <4>1. ~(0 > 0)
        OBVIOUS
      <4> QED
        BY <1>0, <4>1, Zenon DEF CursorFits
    <3> QED
      BY <1>3, <3>1, Zenon DEF SendPreemptiveAcknack, SendAcknack, AcknackTimer
  <2>7. CursorInv'
    <3>1. ASSUME NEW q \in Readers, CursorFits(q) PROVE CursorFits(q)'
      BY <2>1, <2>2, <2>6, <3>1, Zenon DEF CursorFits, HearsInOrder, Faithful, IsSettled,
                                           Received, Told, KnowsUpTo, Knows, HBFits, Irrelevant
    <3> QED
      BY <3>1, Zenon DEF KeepInv, CursorInv
  <2> QED
    BY <2>1, <2>4, <2>5, <2>7, ReaderKeepsProxy, MessagesGrow, Zenon DEF KeepInv
<1> QED
  BY <1>1, <1>2, <1>3, Zenon DEF ReaderTask

----------------------------------------------------------------------------
(* The theorems *)

\* Nothing is written, matched or on its way at first.
LEMMA InitKeeps == ASSUME Init PROVE KeepInv
<1>1. CacheInv
  BY SNInt DEF Init, CacheInv, Idle, Writing
<1>2. ProxyInv
  BY Zenon DEF Init, ProxyInv, NewReaderProxy
<1>3. ASSUME NEW r \in Readers PROVE CursorFits(r)
  <2>1. /\ wp[r] = NewProxy /\ rx[r] = NoHB /\ hbSeen[r] = 0 /\ r \notin ackTimer /\ ackQueue[r] = 0
    BY Zenon DEF Init
  <2>2. /\ NewProxy.buffered = {} /\ NewProxy.expected = Unknown
        /\ \A n \in SN : NewProxy.ledger[n] = "none"
    BY Zenon DEF NewProxy
  <2>3. \A n \in SN : ~(n < Unknown) /\ ~(n <= 0)
    BY SNInt DEF Unknown
  <2> QED
    BY <2>1, <2>2, <2>3, Zenon DEF CursorFits, HearsInOrder, Faithful, IsSettled, KnowsUpTo
<1>4. MessageInv
  BY Zenon DEF Init, MessageInv
<1> QED
  BY <1>1, <1>2, <1>3, <1>4, Zenon DEF KeepInv, CursorInv

\* Every step between two undisturbed states keeps KeepInv.
LEMMA NextKeeps ==
    ASSUME KeepsAll, Undisturbed, Undisturbed', Inv, KeepInv, [Next]_vars
    PROVE  KeepInv'
<1>0. Inv'
  BY NextInv, Zenon
<1>1. CASE Application
  <2>1. \A t \in Threads : ~EnsureCapacity(t)
    <3>1. Depth = 0
      BY Zenon DEF KeepsAll
    <3>2. ~(Depth > 0)
      BY ONLY <3>1
    <3> QED
      BY <3>2, Zenon DEF EnsureCapacity, IsFull
  <2> QED
    BY <1>0, <1>1, <2>1, AllocateKeeps, AddChangeKeeps, PurgeAfterWriteKeeps, Zenon DEF Application
<1>2. CASE WriterTasks
  <2>1. CASE \E r \in Readers : \/ MatchedReaderAdd(r) \/ PreemptiveHeartbeat(r)
                                \/ SendRequestedChanges(r)
    BY <1>0, <2>1, MatchedReaderAddKeeps, HeartbeatTasksKeep, SendRequestedKeeps, Zenon
  <2>2. CASE \E n \in SN : OnWriterCacheChangeRemoval(n)
    BY <1>0, <2>2, RemovalKeeps, Zenon
  <2>3. CASE RestartPeriodicHeartbeat \/ PeriodicHeartbeat \/ \E s \in Stoppers : StopHeartbeat(s)
    BY <1>0, <2>3, HeartbeatTasksKeep, Zenon
  <2> QED
    BY <1>2, <2>1, <2>2, <2>3, Zenon DEF WriterTasks
<1>3. ASSUME NEW r \in Readers, ReaderTask(r) PROVE KeepInv'
  BY <1>0, <1>3, ReaderTaskKeeps, Zenon
<1>4. ASSUME NEW m \in net, Receive(m) PROVE KeepInv'
  BY <1>0, <1>4, AcknackKeeps, PreemptiveAcknackKeeps, DataKeeps, HeartbeatMessageKeeps, GapKeeps, Zenon
     DEF Receive
<1>5. CASE UNCHANGED vars
  <2>1. UNCHANGED writerVars /\ UNCHANGED readerVars /\ UNCHANGED net
    BY <1>5, Zenon DEF vars
  <2>2. /\ UNCHANGED <<lastSN, app, cache, highestSN, matched, rp, preHB>>
    BY <2>1, Zenon DEF writerVars
  <2> QED
    BY <1>0, <2>1, <2>2, TaskKeeps, Zenon
<1> QED
  BY <1>1, <1>2, <1>3, <1>4, <1>5, Zenon DEF Next

\* KeepInv holds as long as nothing disturbs it.
THEOREM KeepInvariance == ASSUME KeepsAll PROVE Spec /\ []Undisturbed => []KeepInv
<1>1. Init => KeepInv
  BY InitKeeps, Zenon
<1>2. Undisturbed /\ Undisturbed' /\ Inv /\ KeepInv /\ [Next]_vars => KeepInv'
  BY NextKeeps, Zenon
<1> QED
  BY <1>1, <1>2, Invariance, PTL DEF Spec

\* What KeepInv says of the three properties.
LEMMA KeepIsSafe ==
    ASSUME Inv, KeepInv, KeepsAll
    PROVE  (Prompt => AckedIsReceived) /\ PurgedIsReceived /\ NothingSkipped
<1>1. ASSUME NEW r \in Readers, NEW n \in SN, Owed(r, n), n < wp[r].expected
      PROVE  n \in Received(r)
  <2>1. n > Irrelevant(r) /\ Irrelevant(r) \in Nat /\ n \in Int
    BY <1>1, NumberTypes, SNInt, Zenon DEF Owed, Irrelevant
  <2>2. Faithful(wp[r], Received(r), Irrelevant(r))
    BY Zenon DEF KeepInv, CursorInv, CursorFits
  <2>3. ~(n <= Irrelevant(r))
    BY ONLY <2>1
  <2> QED
    BY <1>1, <2>2, <2>3, Zenon DEF Faithful
<1>2. ASSUME Prompt PROVE AckedIsReceived
  <2> SUFFICES ASSUME NEW r \in Readers, NEW n \in SN, Owed(r, n), n <= rp[r].maxAcked
               PROVE  n \in Received(r)
    BY Zenon DEF AckedIsReceived, Holds
  <2>1. rp[r].maxAcked \in Int /\ wp[r].expected \in Int /\ n \in Int /\ n >= 1
    BY NumberTypes, SNInt, Zenon
  <2>2. rp[r].maxAcked <= 0 \/ rp[r].maxAcked < wp[r].expected
    BY <1>2, Zenon DEF Owed, KeepInv, ProxyInv, AckFits
  <2>3. n < wp[r].expected
    BY <2>1, <2>2
  <2> QED
    BY <1>1, <2>3, Zenon
<1>3. PurgedIsReceived
  <2> SUFFICES ASSUME NEW r \in Readers, NEW n \in SN, Owed(r, n), n \notin cache
               PROVE  n \in Received(r)
    BY Zenon DEF PurgedIsReceived, Holds
  <2>1. r \in matched /\ n > Irrelevant(r) /\ n <= highestSN /\ Irrelevant(r) \in Nat /\ n \in Int
    BY NumberTypes, SNInt, Zenon DEF Owed, Irrelevant
  <2>2. n < wp[r].expected
    BY <2>1, GoneIsPassed DEF KeepInv
  <2> QED
    BY <1>1, <2>2, Zenon
<1>4. NothingSkipped
  BY <1>1, Zenon DEF NothingSkipped, Inv, WriterInv
<1> QED
  BY <1>2, <1>3, <1>4, Zenon

\* calculate_bitmap_base and handle_acknack_message: what a matched reader acknowledged
\* and was owed, it was given or holds.  This is for a KEEP_ALL writer whose first
\* transmissions carry a HEARTBEAT and for readers whose heartbeat_response_delay is zero,
\* as long as no two writes overlap and no in-order buffer is about to be full.
THEOREM AcksAreTrue ==
    ASSUME Depth = 0, Piggyback, InlineAcknack
    PROVE  Spec /\ []Undisturbed => []AckedIsReceived
<1>1. KeepsAll /\ Prompt
  BY Zenon DEF KeepsAll, Prompt
<1>2. Inv /\ KeepInv => AckedIsReceived
  BY <1>1, KeepIsSafe, Zenon
<1>3. Spec /\ []Undisturbed => []KeepInv
  BY <1>1, KeepInvariance, Zenon
<1> QED
  BY <1>2, <1>3, Invariance, PTL

\* remove_changes_acked_up_to: a sample the writer dropped had reached every matched
\* reader it was owed to.  This is for a KEEP_ALL writer that keeps what is acknowledged,
\* or whose first transmissions carry a HEARTBEAT that is answered without delay, as long
\* as no two writes overlap and no in-order buffer is about to be full.
THEOREM PurgesAreSafe ==
    ASSUME Depth = 0, PurgeAcked => Piggyback /\ InlineAcknack
    PROVE  Spec /\ []Undisturbed => []PurgedIsReceived
<1>1. KeepsAll
  BY Zenon DEF KeepsAll, Prompt
<1>2. Inv /\ KeepInv => PurgedIsReceived
  BY <1>1, KeepIsSafe, Zenon
<1>3. Spec /\ []Undisturbed => []KeepInv
  BY <1>1, KeepInvariance, Zenon
<1> QED
  BY <1>2, <1>3, Invariance, PTL

\* Reliable delivery, the safety half: the cursor of a reader never passes a sample the
\* writer still holds for it, whatever is lost, duplicated or reordered.  This is for a
\* KEEP_ALL writer that keeps what is acknowledged, whatever the response delay and with
\* or without HEARTBEATs on first transmissions, and for one that purges if they are there
\* and answered without delay; as long as no two writes overlap and no in-order buffer is
\* about to be full.
THEOREM Reliable ==
    ASSUME Depth = 0, PurgeAcked => Piggyback /\ InlineAcknack
    PROVE  Spec /\ []Undisturbed => []NothingSkipped
<1>1. KeepsAll
  BY Zenon DEF KeepsAll, Prompt
<1>2. Inv /\ KeepInv => NothingSkipped
  BY <1>1, KeepIsSafe, Zenon
<1>3. Spec /\ []Undisturbed => []KeepInv
  BY <1>1, KeepInvariance, Zenon
<1> QED
  BY <1>2, <1>3, Invariance, PTL
==============================================================================
