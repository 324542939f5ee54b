---------------------- MODULE DataWriterHistory_proofs ----------------------
(***************************************************************************)
(* Proofs about DataWriterHistory: its limits are kept, KEEP_ALL removes    *)
(* only what all readers acknowledged, and what they acknowledged is purged. *)
(***************************************************************************)
EXTENDS DataWriterHistory, FiniteSetTheorems, WellFoundedInduction, TLAPS

----------------------------------------------------------------------------
(* The invariant *)

Processes == Threads \cup {rx}

ChangeType == [n : Nat, i : Instances, at : Nat]

TypeInv ==
    /\ qos \in Profiles
    /\ lastSeq \in Nat /\ added \in Nat /\ highest \in Nat /\ notified \in Nat
    /\ changes \subseteq ChangeType /\ IsFiniteSet(changes)
    /\ buckets \subseteq Instances /\ IsFiniteSet(buckets)
    /\ readers \subseteq Readers /\ sent \in [Readers -> Nat] /\ acked \in [Readers -> Nat]
    /\ thread = [p \in Processes |-> thread[p]]

\* A write with a sequence number whose change is not in the history yet.
Pending(p) == thread[p].at \in {"add", "wait"}

\* Its number is taken by nobody else.
PendingInv(p) ==
    /\ thread[p].change \in [n : Nat, i : Instances]
    /\ thread[p].change.i \in buckets
    /\ thread[p].change.n >= 1 /\ thread[p].change.n <= lastSeq
    /\ thread[p].change.n # highest /\ thread[p].change.n \notin Ids(changes)

NumbersInv ==
    /\ highest <= lastSeq /\ notified <= highest
    /\ \A c \in changes : c.n <= highest
    /\ \A c, d \in changes : c.n = d.n => c = d
    /\ \A p \in Threads : Pending(p) => PendingInv(p)
    /\ \A p, q \in Threads : Pending(p) /\ Pending(q) /\ p # q
                              => thread[p].change.n # thread[q].change.n

\* The lock is held by one write, which waits for one of the changes in its way.
LockInv ==
    /\ \A s, t \in Threads : thread[s].at = "wait" /\ thread[t].at = "wait" => s = t
    /\ \A t \in Threads : thread[t].at = "wait" =>
         /\ InstanceFull(thread[t].change.i) \/ Full
         /\ thread[t].among = Candidates(thread[t].change.i)

RoomInv ==
    /\ \A c \in changes : c.i \in buckets
    /\ \A t \in Threads : thread[t].at = "allocate" => thread[t].i \in buckets
    /\ Cardinality(buckets) <= qos.instances
    /\ Cardinality(changes) <= qos.samples
    /\ qos.keyed => \A i \in Instances : Cardinality(OfInstance(i)) <= qos.perInstance

\* What a purge was told to remove is acknowledged by the readers that are left.
AckInv ==
    /\ \A r \in Readers : acked[r] <= sent[r] /\ sent[r] <= highest
    /\ \A p \in Processes : thread[p].at = "purge" =>
         /\ thread[p].upTo \in Nat
         /\ \A r \in readers : thread[p].upTo <= acked[r]

\* What a purge will remove, and what a notification still has to find.
Doomed(n) == \E p \in Processes : thread[p].at = "purge" /\ n <= thread[p].upTo

NoticeDue == \E p \in Processes : thread[p].at = "sent"

PurgeInv ==
    Purges => \A c \in changes : c.n \notin late =>
        /\ c.n <= notified => Doomed(c.n)
        /\ c.n > notified /\ AckedByAll(c.n) => NoticeDue

Inv == TypeInv /\ NumbersInv /\ LockInv /\ RoomInv /\ AckInv /\ PurgeInv

----------------------------------------------------------------------------
(* Threads *)

LEMMA ThreadsApart == Threads \subseteq Processes /\ rx \in Processes /\ rx \notin Threads
BY WriterHistoryAssumption, Zenon DEF Processes, rx

\* A step of one thread leaves the others where they are.
LEMMA GotoStep ==
    ASSUME TypeInv, NEW p \in Processes, NEW s, Goto(p, s)
    PROVE  /\ thread'[p] = s /\ (\A q \in Processes \ {p} : thread'[q] = thread[q])
           /\ thread' = [q \in Processes |-> thread'[q]]
BY Zenon DEF Goto, TypeInv

LEMMA IdleAt == Idle.at = "idle"
BY Zenon DEF Idle

----------------------------------------------------------------------------
(* What leaves a part of the invariant alone *)

LEMMA NumbersKept ==
    ASSUME TypeInv, NumbersInv, UNCHANGED highest, changes' \subseteq changes,
           lastSeq' \in Nat, lastSeq <= lastSeq', buckets \subseteq buckets', notified' <= highest,
           \A p \in Threads : Pending(p)' => Pending(p) /\ thread'[p].change = thread[p].change
    PROVE  NumbersInv'
<1>1. highest <= lastSeq'
  BY SMT DEF TypeInv, NumbersInv
<1>2. ASSUME NEW p \in Threads, Pending(p)' PROVE PendingInv(p)'
  <2>1. PendingInv(p) /\ thread'[p].change = thread[p].change
    BY <1>2, Zenon DEF NumbersInv
  <2>2. thread[p].change.n \in Nat /\ lastSeq \in Nat /\ thread[p].change.n <= lastSeq
    BY <2>1, Zenon DEF PendingInv, TypeInv
  <2>3. thread[p].change.n <= lastSeq'
    BY <2>2, SMT
  <2>4. thread[p].change.n \notin Ids(changes')
    BY <2>1, Zenon DEF PendingInv, Ids
  <2> QED
    BY <2>1, <2>3, <2>4, Zenon DEF PendingInv, Ids
<1> QED
  BY <1>1, <1>2, Zenon DEF NumbersInv

LEMMA LockKept ==
    ASSUME LockInv, UNCHANGED <<qos, changes>>,
           \A t \in Threads : thread'[t].at = "wait" => thread'[t] = thread[t]
    PROVE  LockInv'
<1>1. ASSUME NEW t \in Threads, thread'[t].at = "wait"
      PROVE  /\ (InstanceFull(thread[t].change.i) \/ Full)'
             /\ thread'[t].among = Candidates(thread[t].change.i)'
  <2>1. /\ thread'[t] = thread[t] /\ thread[t].at = "wait"
        /\ InstanceFull(thread[t].change.i) \/ Full
        /\ thread[t].among = Candidates(thread[t].change.i)
    BY <1>1, Zenon DEF LockInv
  <2>2. Full' = Full /\ OfInstance(thread[t].change.i)' = OfInstance(thread[t].change.i)
    BY <2>1, Zenon DEF Full, OfInstance
  <2>3. InstanceFull(thread[t].change.i)' = InstanceFull(thread[t].change.i)
    BY <2>2, Zenon DEF InstanceFull
  <2>4. Removable' = Removable
    BY Zenon DEF Removable, OfInstance
  <2>5. Candidates(thread[t].change.i)' = Candidates(thread[t].change.i)
    BY <2>2, <2>3, <2>4, Zenon DEF Candidates, Ids
  <2> QED
    BY <2>1, <2>2, <2>3, <2>5, Zenon
<1> QED
  BY <1>1, Zenon DEF LockInv

LEMMA LockFree ==
    ASSUME \A t \in Threads : thread'[t].at # "wait"
    PROVE  LockInv'
BY Zenon DEF LockInv

LEMMA RoomKept ==
    ASSUME TypeInv, RoomInv, UNCHANGED <<qos, buckets>>, changes' \subseteq changes,
           \A t \in Threads : thread'[t].at = "allocate" => thread'[t] = thread[t]
    PROVE  RoomInv'
<1>1. Cardinality(changes') <= Cardinality(changes) /\ Cardinality(changes') \in Nat
      /\ Cardinality(changes) \in Nat
  BY FS_Subset, FS_CardinalityType, Zenon DEF TypeInv
<1>2. qos \in Profiles /\ qos.samples \in Nat /\ qos.perInstance \in Nat
  BY WriterHistoryAssumption, Zenon DEF TypeInv
<1>3. Cardinality(changes') <= qos.samples
  BY <1>1, <1>2, SMT DEF RoomInv
<1>4. ASSUME NEW i \in Instances, qos.keyed PROVE Cardinality(OfInstance(i)') <= qos.perInstance
  <2>1. OfInstance(i)' \subseteq OfInstance(i) /\ OfInstance(i) \subseteq changes
    BY Zenon DEF OfInstance
  <2>2. IsFiniteSet(OfInstance(i))
    BY <2>1, FS_Subset, Zenon DEF TypeInv
  <2>3. /\ Cardinality(OfInstance(i)') <= Cardinality(OfInstance(i))
        /\ Cardinality(OfInstance(i)') \in Nat /\ Cardinality(OfInstance(i)) \in Nat
    BY <2>1, <2>2, FS_Subset, FS_CardinalityType, Zenon
  <2>4. Cardinality(OfInstance(i)) <= qos.perInstance
    BY <1>4, Zenon DEF RoomInv
  <2> QED
    BY <1>2, <2>3, <2>4, SMT
<1> QED
  BY <1>3, <1>4, Zenon DEF RoomInv

LEMMA AckKept ==
    ASSUME TypeInv, AckInv, UNCHANGED <<acked, sent>>, highest' \in Nat, highest <= highest',
           readers' \subseteq readers,
           \A p \in Processes : thread'[p].at = "purge" => thread'[p] = thread[p]
    PROVE  AckInv'
<1>1. ASSUME NEW r \in Readers PROVE acked'[r] <= sent'[r] /\ sent'[r] <= highest'
  <2>1. sent[r] \in Nat /\ highest \in Nat
    BY Zenon DEF TypeInv
  <2>2. acked[r] <= sent[r] /\ sent[r] <= highest
    BY Zenon DEF AckInv
  <2> QED
    BY <2>1, <2>2, SMT
<1> QED
  BY <1>1, Zenon DEF AckInv

LEMMA PurgeKept ==
    ASSUME PurgeInv, UNCHANGED <<qos, notified, readers, acked>>, changes' \subseteq changes,
           late \subseteq late',
           \A p \in Processes : thread[p].at \in {"purge", "sent"} => thread'[p] = thread[p]
    PROVE  PurgeInv'
<1> SUFFICES ASSUME Purges, NEW c \in changes', c.n \notin late'
             PROVE  /\ c.n <= notified => Doomed(c.n)'
                    /\ c.n > notified /\ AckedByAll(c.n) => NoticeDue'
  BY Zenon DEF PurgeInv, Purges, AckedByAll
<1>1. /\ c.n <= notified => Doomed(c.n)
      /\ c.n > notified /\ AckedByAll(c.n) => NoticeDue
  BY Zenon DEF PurgeInv
<1>2. Doomed(c.n) => Doomed(c.n)'
  BY Zenon DEF Doomed
<1>3. NoticeDue => NoticeDue'
  BY Zenon DEF NoticeDue
<1> QED
  BY <1>1, <1>2, <1>3, Zenon

----------------------------------------------------------------------------
(* Making room *)

\* A set of natural numbers that is not empty has a least element.
LEMMA LeastNumber ==
    ASSUME NEW S \in SUBSET Nat, S # {}
    PROVE  Min(S) \in S /\ \A y \in S : Min(S) <= y
<1>1. PICK x \in S : \A y \in S : ~(<<y, x>> \in OpToRel(<, Nat))
  BY NatLessThanWellFounded, WFMin, Zenon
<1>2. \A y \in S : x <= y
  <2> SUFFICES ASSUME NEW y \in S PROVE x <= y
    BY Zenon
  <2>1. ~(<<y, x>> \in OpToRel(<, Nat))
    BY <1>1, Zenon
  <2>2. x \in Nat /\ y \in Nat
    BY Zenon
  <2>3. ~(y < x)
    BY <2>1, <2>2, Zenon DEF OpToRel
  <2> QED
    BY <2>2, <2>3
<1> QED
  BY <1>2, Zenon DEF Min

\* The oldest of some changes is one of them.
LEMMA SomeFirstAdded ==
    ASSUME NEW q \in SUBSET ChangeType, q # {}
    PROVE  \E c \in q : c.n \in Ids(FirstAdded(q))
<1> DEFINE S == {c.at : c \in q}
<1>1. S \in SUBSET Nat /\ S # {}
  BY Zenon DEF ChangeType
<1>2. Min(S) \in S /\ \A y \in S : Min(S) <= y
  BY <1>1, LeastNumber, Zenon
<1>3. PICK c \in q : c.at = Min(S)
  BY <1>2, Zenon
<1>4. \A d \in q : c.at <= d.at
  BY <1>2, <1>3, Zenon
<1> QED
  BY <1>4, Zenon DEF Ids, FirstAdded

LEMMA SomeLowestNumber ==
    ASSUME NEW q \in SUBSET ChangeType, q # {}
    PROVE  \E c \in q : c.n \in Ids(LowestNumber(q))
<1> DEFINE S == {c.n : c \in q}
<1>1. S \in SUBSET Nat /\ S # {}
  BY Zenon DEF ChangeType
<1>2. Min(S) \in S /\ \A y \in S : Min(S) <= y
  BY <1>1, LeastNumber, Zenon
<1>3. PICK c \in q : c.n = Min(S)
  BY <1>2, Zenon
<1>4. \A d \in q : c.n <= d.n
  BY <1>2, <1>3, Zenon
<1> QED
  BY <1>4, Zenon DEF Ids, LowestNumber

\* A set takes one more element if it was not full or lost one.
LEMMA OneMoreFits ==
    ASSUME NEW S, IsFiniteSet(S), NEW R \in SUBSET S, NEW x, NEW k \in Nat,
           Cardinality(S) <= k, Cardinality(S) < k \/ R # S
    PROVE  IsFiniteSet(R \cup {x}) /\ Cardinality(R \cup {x}) <= k
<1>1. /\ IsFiniteSet(R) /\ Cardinality(R) <= Cardinality(S)
      /\ Cardinality(S) = Cardinality(R) => S = R
  BY FS_Subset, Zenon
<1>2. Cardinality(S) \in Nat /\ Cardinality(R) \in Nat
  BY <1>1, FS_CardinalityType, Zenon
<1>3. Cardinality(R) < k
  BY <1>1, <1>2
<1>4. /\ IsFiniteSet(R \cup {x})
      /\ Cardinality(R \cup {x}) = IF x \in R THEN Cardinality(R) ELSE Cardinality(R) + 1
  BY <1>1, FS_AddElement, Zenon
<1> QED
  BY <1>2, <1>3, <1>4

\* What ensure_capacity leaves behind: the history was not full or loses a change,
\* and so was the instance.
Room(i, evict) ==
    /\ ~Full \/ \E c \in changes : c.n \in evict
    /\ qos.keyed => ~InstanceFull(i) \/ \E c \in OfInstance(i) : c.n \in evict

LEMMA NoNeed ==
    ASSUME NEW i, ~(InstanceFull(i) \/ Full)
    PROVE  Room(i, {})
BY Zenon DEF Room

\* KEEP_LAST evicts the oldest change of the instance, or of the history.
LEMMA OldestMakesRoom ==
    ASSUME TypeInv, NEW i \in Instances, Candidates(i) # {}
    PROVE  Room(i, Oldest(i))
<1>1. changes # {}
  BY Zenon DEF Candidates, Removable, OfInstance, Ids
<1>2. CASE qos.keyed /\ InstanceFull(i)
  <2>1. OfInstance(i) # {} /\ OfInstance(i) \in SUBSET ChangeType /\ OfInstance(i) \subseteq changes
    BY <1>2, Zenon DEF Candidates, OfInstance, Ids, TypeInv
  <2>2. \E c \in OfInstance(i) : c.n \in Oldest(i)
    BY <1>2, <2>1, SomeLowestNumber, Zenon DEF Oldest
  <2> QED
    BY <2>1, <2>2, Zenon DEF Room
<1>3. CASE ~(qos.keyed /\ InstanceFull(i))
  <2>1. \E c \in changes : c.n \in Oldest(i)
    BY <1>1, <1>3, SomeFirstAdded, Zenon DEF Oldest, TypeInv
  <2> QED
    BY <1>3, <2>1, Zenon DEF Room
<1> QED
  BY <1>2, <1>3, Zenon

\* KEEP_ALL evicts a change that stood in the way, once it is acknowledged.
LEMMA AckedMakesRoom ==
    ASSUME NEW i, NEW n \in FirstAcked(Candidates(i))
    PROVE  Room(i, {n}) /\ AckedByAll(n)
<1>1. PICK c \in changes : c.n = n /\ n \in Candidates(i) /\ AckedByAll(n)
  BY Zenon DEF FirstAcked, Ids
<1>2. InstanceFull(i) => \E d \in OfInstance(i) : d.n = n
  BY <1>1, Zenon DEF Candidates, Ids
<1> QED
  BY <1>1, <1>2, Zenon DEF Room

----------------------------------------------------------------------------
(* A change is added *)

\* Everything the step of adding a change of t says.
Adds(t, evict) ==
    /\ Add(t, evict)
    /\ UNCHANGED <<qos, lastSeq, buckets, readers, sent, acked, notified>>

\* Where the step is taken from: t holds the lock, and there is room.
MayAdd(t, evict) ==
    /\ Pending(t) /\ Room(thread[t].change.i, evict)
    /\ \A p \in Threads \ {t} : thread[p].at # "wait"

LEMMA AddFacts ==
    ASSUME Inv, NEW t \in Threads, NEW evict, MayAdd(t, evict), Adds(t, evict)
    PROVE  LET c == thread[t].change
               new == [n |-> c.n, i |-> c.i, at |-> added + 1]
           IN  /\ c.n \in Nat /\ c.i \in Instances /\ c.i \in buckets
               /\ c.n <= lastSeq /\ c.n # highest /\ c.n \notin Ids(changes)
               /\ new \in ChangeType /\ new.n = c.n /\ new.i = c.i
               /\ changes' = Without(evict) \cup {new} /\ added' = added + 1
               /\ highest' = (IF c.n > highest THEN c.n ELSE highest)
               /\ late' = (IF c.n < highest THEN late \cup {c.n} ELSE late)
               /\ thread'[t] = [at |-> "sent"]
               /\ \A q \in Processes \ {t} : thread'[q] = thread[q]
               /\ thread' = [q \in Processes |-> thread'[q]]
<1> DEFINE c == thread[t].change
           new == [n |-> c.n, i |-> c.i, at |-> added + 1]
<1>1. PendingInv(t)
  BY Zenon DEF MayAdd, Inv, NumbersInv
<1>2. /\ c.n \in Nat /\ c.i \in Instances /\ c.i \in buckets
      /\ c.n <= lastSeq /\ c.n # highest /\ c.n \notin Ids(changes)
  BY <1>1, Zenon DEF PendingInv
<1>3. new \in ChangeType /\ new.n = c.n /\ new.i = c.i
  BY <1>2 DEF ChangeType, Inv, TypeInv
<1>4. /\ thread'[t] = [at |-> "sent"] /\ (\A q \in Processes \ {t} : thread'[q] = thread[q])
      /\ thread' = [q \in Processes |-> thread'[q]]
  <2>1. t \in Processes /\ TypeInv /\ Goto(t, [at |-> "sent"])
    BY ThreadsApart, Zenon DEF Adds, Add, Inv
  <2> QED
    BY <2>1, GotoStep, Zenon
<1> QED
  BY <1>2, <1>3, <1>4, Zenon DEF Adds, Add

LEMMA AddTypes ==
    ASSUME Inv, NEW t \in Threads, NEW evict, MayAdd(t, evict), Adds(t, evict)
    PROVE  TypeInv' /\ RoomInv'
<1> DEFINE c == thread[t].change
           new == [n |-> c.n, i |-> c.i, at |-> added + 1]
<1>1. /\ c.n \in Nat /\ c.i \in Instances /\ c.i \in buckets
      /\ new \in ChangeType /\ new.i = c.i /\ changes' = Without(evict) \cup {new}
      /\ added' = added + 1 /\ highest' = (IF c.n > highest THEN c.n ELSE highest)
      /\ thread'[t] = [at |-> "sent"] /\ (\A q \in Processes \ {t} : thread'[q] = thread[q])
      /\ thread' = [q \in Processes |-> thread'[q]]
  BY AddFacts, Zenon
<1> HIDE DEF c, new
<1>2. /\ qos \in Profiles /\ qos.samples \in Nat /\ qos.perInstance \in Nat
  BY WriterHistoryAssumption, Zenon DEF Inv, TypeInv
<1>3. UNCHANGED <<qos, lastSeq, buckets, readers, sent, acked, notified>>
  BY Zenon DEF Adds
<1>4. Without(evict) \in SUBSET changes /\ changes \in SUBSET ChangeType /\ IsFiniteSet(changes)
  BY Zenon DEF Without, Inv, TypeInv
<1>5. IsFiniteSet(changes') /\ Cardinality(changes') <= qos.samples
  <2>1. Cardinality(changes) < qos.samples \/ Without(evict) # changes
    <3>1. CASE ~Full
      <4>1. Cardinality(changes) \in Nat
        BY <1>4, FS_CardinalityType, Zenon
      <4> QED
        BY <3>1, <4>1, <1>2 DEF Full
    <3>2. CASE \E d \in changes : d.n \in evict
      BY <3>2, Zenon DEF Without
    <3> QED
      BY <3>1, <3>2, Zenon DEF MayAdd, Room
  <2>2. Cardinality(changes) <= qos.samples
    BY Zenon DEF Inv, RoomInv
  <2> QED
    BY <1>1, <1>2, <1>4, <2>1, <2>2, OneMoreFits, Zenon
<1>6. ASSUME NEW i \in Instances, qos.keyed PROVE Cardinality(OfInstance(i)') <= qos.perInstance
  <2> DEFINE R == {d \in Without(evict) : d.i = i}
  <2>1. OfInstance(i) \in SUBSET changes /\ R \in SUBSET OfInstance(i)
    BY <1>4, Zenon DEF OfInstance, Without
  <2>2. IsFiniteSet(OfInstance(i)) /\ Cardinality(OfInstance(i)) \in Nat
    BY <2>1, <1>4, FS_Subset, FS_CardinalityType, Zenon
  <2>3. Cardinality(OfInstance(i)) <= qos.perInstance
    BY <1>6, Zenon DEF Inv, RoomInv
  <2>4. CASE i = c.i
    <3>1. OfInstance(i)' = R \cup {new}
      BY <1>1, <2>4, Zenon DEF OfInstance
    <3>2. Cardinality(OfInstance(i)) < qos.perInstance \/ R # OfInstance(i)
      <4>1. CASE ~InstanceFull(i)
        BY <1>2, <1>6, <2>2, <4>1 DEF InstanceFull
      <4>2. CASE \E d \in OfInstance(i) : d.n \in evict
        BY <4>2, Zenon DEF Without
      <4> QED
        BY <1>6, <2>4, <4>1, <4>2, Zenon DEF MayAdd, Room, c
    <3> HIDE DEF R
    <3> QED
      BY <1>2, <2>1, <2>2, <2>3, <3>1, <3>2, OneMoreFits, Zenon
  <2>5. CASE i # c.i
    <3>1. OfInstance(i)' = R
      BY <1>1, <2>5, Zenon DEF OfInstance
    <3>2. Cardinality(R) \in Nat /\ Cardinality(R) <= Cardinality(OfInstance(i))
      BY <2>1, <2>2, FS_Subset, FS_CardinalityType, Zenon
    <3> QED
      BY <1>2, <2>2, <2>3, <3>1, <3>2, SMT
  <2> QED
    BY <2>4, <2>5, Zenon
<1>7. RoomInv'
  <2>1. \A d \in changes' : d.i \in buckets
    BY <1>1, <1>4, Zenon DEF Inv, RoomInv
  <2>2. \A p \in Threads : thread'[p].at = "allocate" => thread'[p].i \in buckets
    <3> SUFFICES ASSUME NEW p \in Threads, thread'[p].at = "allocate" PROVE thread'[p].i \in buckets
      BY Zenon
    <3>1. p # t
      BY <1>1
    <3> QED
      BY <1>1, <3>1, ThreadsApart, Zenon DEF Inv, RoomInv
  <2> QED
    BY <1>3, <1>5, <1>6, <2>1, <2>2, Zenon DEF Inv, RoomInv
<1>8. TypeInv'
  <2>1. added' \in Nat /\ highest' \in Nat
    BY <1>1 DEF Inv, TypeInv
  <2> QED
    BY <1>1, <1>3, <1>4, <1>5, <2>1, Zenon DEF Inv, TypeInv
<1> QED
  BY <1>7, <1>8, Zenon

LEMMA AddNumbers ==
    ASSUME Inv, NEW t \in Threads, NEW evict, MayAdd(t, evict), Adds(t, evict)
    PROVE  NumbersInv'
<1> DEFINE c == thread[t].change
           new == [n |-> c.n, i |-> c.i, at |-> added + 1]
<1>1. /\ c.n \in Nat /\ c.n <= lastSeq /\ c.n # highest /\ c.n \notin Ids(changes)
      /\ new \in ChangeType /\ new.n = c.n /\ changes' = Without(evict) \cup {new}
      /\ highest' = (IF c.n > highest THEN c.n ELSE highest)
      /\ thread'[t] = [at |-> "sent"] /\ (\A q \in Processes \ {t} : thread'[q] = thread[q])
  BY AddFacts, Zenon
<1> HIDE DEF new
<1>2. UNCHANGED <<qos, lastSeq, buckets, readers, sent, acked, notified>>
  BY Zenon DEF Adds
<1>3. Without(evict) \in SUBSET changes /\ changes \in SUBSET ChangeType
  BY Zenon DEF Without, Inv, TypeInv
<1>4. highest \in Nat /\ notified \in Nat /\ lastSeq \in Nat
  BY Zenon DEF Inv, TypeInv
<1>5. /\ highest <= lastSeq /\ notified <= highest /\ (\A d \in changes : d.n <= highest)
      /\ \A d, e \in changes : d.n = e.n => d = e
  BY Zenon DEF Inv, NumbersInv
<1>6. highest' <= lastSeq' /\ notified' <= highest' /\ highest <= highest' /\ c.n <= highest'
      /\ highest' \in Nat /\ (highest' = c.n \/ highest' = highest)
  BY <1>1, <1>2, <1>4, <1>5, SMT
<1>7. \A d \in changes' : d.n <= highest'
  <2> SUFFICES ASSUME NEW d \in changes' PROVE d.n <= highest'
    BY Zenon
  <2>1. CASE d = new
    BY <1>1, <1>6, <2>1, Zenon
  <2>2. CASE d \in changes
    <3>1. d.n \in Nat /\ d.n <= highest
      BY <1>3, <1>5, <2>2, Zenon DEF ChangeType
    <3> QED
      BY <1>4, <1>6, <3>1
  <2> QED
    BY <1>1, <1>3, <2>1, <2>2, Zenon
<1>8. \A d, e \in changes' : d.n = e.n => d = e
  <2> SUFFICES ASSUME NEW d \in changes', NEW e \in changes', d.n = e.n PROVE d = e
    BY Zenon
  <2>1. \A f \in changes : f.n # new.n
    BY <1>1, Zenon DEF Ids
  <2> QED
    BY <1>1, <1>3, <1>5, <2>1, Zenon
<1>9. ASSUME NEW p \in Threads, Pending(p)' PROVE p # t /\ Pending(p) /\ thread'[p] = thread[p]
  <2>1. p # t
    BY <1>1, <1>9 DEF Pending
  <2> QED
    BY <1>1, <1>9, <2>1, ThreadsApart, Zenon DEF Pending
<1>10. ASSUME NEW p \in Threads, Pending(p)' PROVE PendingInv(p)'
  <2>1. p # t /\ Pending(p) /\ thread'[p] = thread[p]
    BY <1>9, <1>10, Zenon
  <2>2. PendingInv(p) /\ thread[p].change.n # c.n
    BY <2>1, Zenon DEF Inv, NumbersInv, MayAdd
  <2>3. thread[p].change.n # highest'
    BY <1>6, <2>2, Zenon DEF PendingInv
  <2>4. thread[p].change.n \notin Ids(changes')
    BY <1>1, <1>3, <2>2, Zenon DEF PendingInv, Ids
  <2> QED
    BY <1>2, <2>1, <2>2, <2>3, <2>4, Zenon DEF PendingInv
<1>11. ASSUME NEW p \in Threads, NEW q \in Threads, Pending(p)', Pending(q)', p # q
       PROVE  thread'[p].change.n # thread'[q].change.n
  BY <1>9, <1>11, Zenon DEF Inv, NumbersInv
<1> QED
  BY <1>6, <1>7, <1>8, <1>10, <1>11, Zenon DEF NumbersInv

LEMMA AddRest ==
    ASSUME Inv, NEW t \in Threads, NEW evict, MayAdd(t, evict), Adds(t, evict)
    PROVE  LockInv' /\ AckInv' /\ PurgeInv'
<1> DEFINE c == thread[t].change
           new == [n |-> c.n, i |-> c.i, at |-> added + 1]
<1>1. /\ c.n \in Nat /\ c.n # highest
      /\ new \in ChangeType /\ new.n = c.n /\ changes' = Without(evict) \cup {new}
      /\ highest' = (IF c.n > highest THEN c.n ELSE highest)
      /\ late' = (IF c.n < highest THEN late \cup {c.n} ELSE late)
      /\ thread'[t] = [at |-> "sent"] /\ (\A q \in Processes \ {t} : thread'[q] = thread[q])
  BY AddFacts, Zenon
<1> HIDE DEF new
<1>2. UNCHANGED <<qos, lastSeq, buckets, readers, sent, acked, notified>>
  BY Zenon DEF Adds
<1>3. Without(evict) \in SUBSET changes
  BY Zenon DEF Without
<1>4. highest \in Nat /\ notified \in Nat /\ notified <= highest
  BY Zenon DEF Inv, TypeInv, NumbersInv
<1>5. thread'[t].at = "sent" /\ t \in Processes
  BY <1>1, ThreadsApart
<1>6. thread[t].at # "purge"
  BY Zenon DEF MayAdd, Pending
<1>7. LockInv'
  <2>1. \A p \in Threads : thread'[p].at # "wait"
    <3> SUFFICES ASSUME NEW p \in Threads PROVE thread'[p].at # "wait"
      BY Zenon
    <3>1. CASE p = t
      BY <1>5, <3>1, Zenon
    <3>2. CASE p # t
      BY <1>1, <3>2, ThreadsApart, Zenon DEF MayAdd
    <3> QED
      BY <3>1, <3>2, Zenon
  <2> QED
    BY <2>1, LockFree, Zenon
<1>8. AckInv'
  <2>1. highest' \in Nat /\ highest <= highest'
    BY <1>1, <1>4, SMT
  <2>2. \A p \in Processes : thread'[p].at = "purge" => thread'[p] = thread[p]
    <3> SUFFICES ASSUME NEW p \in Processes, thread'[p].at = "purge" PROVE p # t
      BY <1>1, Zenon
    <3> QED
      BY <1>5, Zenon
  <2> QED
    BY <1>2, <2>1, <2>2, AckKept, Zenon DEF Inv
<1>9. NoticeDue'
  BY <1>5, Zenon DEF NoticeDue
<1>10. ASSUME NEW d \in changes', Purges, d.n \notin late', d.n <= notified PROVE Doomed(d.n)'
  <2>1. d # new
    BY <1>1, <1>4, <1>10, SMT
  <2>2. d \in changes /\ d.n \notin late
    BY <1>1, <1>3, <1>10, <2>1, Zenon
  <2>3. PICK p \in Processes : thread[p].at = "purge" /\ d.n <= thread[p].upTo
    BY <1>10, <2>2, Zenon DEF Inv, PurgeInv, Doomed
  <2>4. thread'[p] = thread[p]
    BY <1>1, <1>6, <2>3, Zenon
  <2> QED
    BY <2>3, <2>4, Zenon DEF Doomed
<1>11. PurgeInv'
  BY <1>2, <1>9, <1>10, Zenon DEF PurgeInv, Purges
<1> QED
  BY <1>7, <1>8, <1>11, Zenon

LEMMA AddKeeps ==
    ASSUME Inv, NEW t \in Threads, NEW evict, MayAdd(t, evict), Adds(t, evict)
    PROVE  Inv'
BY AddTypes, AddNumbers, AddRest, Zenon DEF Inv

----------------------------------------------------------------------------
(* The other steps of a write *)

LEMMA RegisterKeeps ==
    ASSUME Inv, NEW t \in Threads, NEW i \in Instances, Register(t, i)
    PROVE  Inv'
<1>1. TypeInv /\ t \in Processes /\ Goto(t, [at |-> "allocate", i |-> i])
  BY ThreadsApart, Zenon DEF Register, Inv
<1>2. /\ thread'[t] = [at |-> "allocate", i |-> i]
      /\ (\A q \in Processes \ {t} : thread'[q] = thread[q])
      /\ thread' = [q \in Processes |-> thread'[q]]
  BY <1>1, GotoStep, Zenon
<1>3. /\ UNCHANGED <<qos, lastSeq, changes, added, highest, readers, sent, acked, notified, late>>
      /\ buckets' = buckets \cup {i} /\ thread[t] = Idle
      /\ i \in buckets \/ Cardinality(buckets) < qos.instances
  BY Zenon DEF Register
<1>4. thread'[t].at = "allocate" /\ thread'[t].i = i /\ thread[t].at = "idle"
  BY <1>2, <1>3, IdleAt
<1>5. IsFiniteSet(buckets') /\ Cardinality(buckets') <= qos.instances
  <2>1. IsFiniteSet(buckets) /\ Cardinality(buckets) \in Nat /\ Cardinality(buckets) <= qos.instances
    BY FS_CardinalityType, Zenon DEF Inv, TypeInv, RoomInv
  <2>2. qos \in Profiles /\ qos.instances \in Nat
    BY WriterHistoryAssumption, Zenon DEF Inv, TypeInv
  <2>3. CASE i \in buckets
    <3>1. buckets' = buckets
      BY <1>3, <2>3, Zenon
    <3> QED
      BY <2>1, <3>1, Zenon
  <2>4. CASE i \notin buckets
    <3>1. IsFiniteSet(buckets') /\ Cardinality(buckets') = Cardinality(buckets) + 1
      BY <1>3, <2>1, <2>4, FS_AddElement, Zenon
    <3> QED
      BY <1>3, <2>1, <2>2, <2>4, <3>1
  <2> QED
    BY <2>3, <2>4, Zenon
<1>6. TypeInv'
  BY <1>1, <1>2, <1>3, <1>5, Zenon DEF TypeInv
<1>7. NumbersInv'
  <2>1. \A p \in Threads : Pending(p)' => Pending(p) /\ thread'[p].change = thread[p].change
    <3> SUFFICES ASSUME NEW p \in Threads, Pending(p)' PROVE p # t
      BY <1>2, ThreadsApart, Zenon DEF Pending
    <3> QED
      BY <1>4, Zenon DEF Pending
  <2>2. lastSeq' \in Nat /\ lastSeq <= lastSeq' /\ notified' <= highest
    BY <1>3 DEF Inv, TypeInv, NumbersInv
  <2> QED
    BY <1>3, <2>1, <2>2, NumbersKept, Zenon DEF Inv
<1>8. \A p \in Processes : thread'[p].at \in {"wait", "purge"} => thread'[p] = thread[p]
  <2> SUFFICES ASSUME NEW p \in Processes, thread'[p].at \in {"wait", "purge"} PROVE p # t
    BY <1>2, Zenon
  <2> QED
    BY <1>4, Zenon
<1>9. LockInv'
  BY <1>3, <1>8, ThreadsApart, LockKept, Zenon DEF Inv
<1>10. RoomInv'
  <2>1. \A p \in Threads : thread'[p].at = "allocate" => thread'[p].i \in buckets'
    BY <1>2, <1>3, <1>4, ThreadsApart, Zenon DEF Inv, RoomInv
  <2>2. \A c \in changes' : c.i \in buckets'
    BY <1>3, Zenon DEF Inv, RoomInv
  <2>3. \A k \in Instances : OfInstance(k)' = OfInstance(k)
    BY <1>3, Zenon DEF OfInstance
  <2> QED
    BY <1>3, <1>5, <2>1, <2>2, <2>3, Zenon DEF Inv, RoomInv
<1>11. AckInv'
  <2>1. highest' \in Nat /\ highest <= highest'
    BY <1>3 DEF Inv, TypeInv
  <2> QED
    BY <1>3, <1>8, <2>1, AckKept, Zenon DEF Inv
<1>12. PurgeInv'
  <2>1. \A p \in Processes : thread[p].at \in {"purge", "sent"} => thread'[p] = thread[p]
    <3> SUFFICES ASSUME NEW p \in Processes, thread[p].at \in {"purge", "sent"} PROVE p # t
      BY <1>2, Zenon
    <3> QED
      BY <1>4, Zenon
  <2> QED
    BY <1>3, <2>1, PurgeKept, Zenon DEF Inv
<1> QED
  BY <1>6, <1>7, <1>9, <1>10, <1>11, <1>12, Zenon DEF Inv

\* A step that changes nothing but the place of its thread, and holds no number, no
\* lock and no notification.
LEMMA QuietKeeps ==
    ASSUME Inv, NEW t \in Processes, NEW s, Goto(t, s),
           thread[t].at \notin {"purge", "sent"}, s.at \notin {"allocate", "add", "wait", "purge"},
           UNCHANGED <<qos, lastSeq, changes, added, buckets, highest, readers, sent, acked,
                       notified, late>>
    PROVE  Inv'
<1>1. /\ thread'[t] = s /\ (\A q \in Processes \ {t} : thread'[q] = thread[q])
      /\ thread' = [q \in Processes |-> thread'[q]]
  BY GotoStep, Zenon DEF Inv
<1>2. TypeInv'
  BY <1>1, Zenon DEF Inv, TypeInv
<1>3. \A p \in Processes : thread'[p].at \in {"allocate", "add", "wait", "purge"} => thread'[p] = thread[p]
  BY <1>1, Zenon
<1>4. \A p \in Processes : thread[p].at \in {"purge", "sent"} => thread'[p] = thread[p]
  BY <1>1, Zenon
<1>5. NumbersInv'
  <2>1. \A p \in Threads : Pending(p)' => Pending(p) /\ thread'[p].change = thread[p].change
    BY <1>3, ThreadsApart, Zenon DEF Pending
  <2>2. lastSeq' \in Nat /\ lastSeq <= lastSeq' /\ notified' <= highest
    BY DEF Inv, TypeInv, NumbersInv
  <2> QED
    BY <2>1, <2>2, NumbersKept, Zenon DEF Inv
<1>6. LockInv'
  BY <1>3, ThreadsApart, LockKept, Zenon DEF Inv
<1>7. RoomInv'
  BY <1>3, ThreadsApart, RoomKept, Zenon DEF Inv
<1>8. AckInv'
  <2>1. highest' \in Nat /\ highest <= highest'
    BY DEF Inv, TypeInv
  <2> QED
    BY <1>3, <2>1, AckKept, Zenon DEF Inv
<1>9. PurgeInv'
  BY <1>4, PurgeKept, Zenon DEF Inv
<1> QED
  BY <1>2, <1>5, <1>6, <1>7, <1>8, <1>9, Zenon DEF Inv

LEMMA AllocateKeeps ==
    ASSUME Inv, NEW t \in Threads, Allocate(t)
    PROVE  Inv'
<1> DEFINE c == [n |-> lastSeq + 1, i |-> thread[t].i]
<1>1. TypeInv /\ t \in Processes /\ Goto(t, [at |-> "add", change |-> c])
  BY ThreadsApart, Zenon DEF Allocate, Inv
<1>2. /\ thread'[t] = [at |-> "add", change |-> c]
      /\ (\A q \in Processes \ {t} : thread'[q] = thread[q])
      /\ thread' = [q \in Processes |-> thread'[q]]
  BY <1>1, GotoStep, Zenon
<1>3. /\ UNCHANGED <<qos, changes, added, buckets, highest, readers, sent, acked, notified, late>>
      /\ lastSeq' = lastSeq + 1 /\ thread[t].at = "allocate"
  BY Zenon DEF Allocate
<1>4. thread'[t].at = "add" /\ thread'[t].change = c
  BY <1>2
<1>5. lastSeq \in Nat /\ highest \in Nat /\ highest <= lastSeq
  BY Zenon DEF Inv, TypeInv, NumbersInv
<1>6. thread[t].i \in buckets /\ thread[t].i \in Instances
  BY <1>3, Zenon DEF Inv, RoomInv, TypeInv
<1>7. TypeInv'
  <2>1. lastSeq' \in Nat
    BY <1>3, <1>5
  <2> QED
    BY <1>1, <1>2, <1>3, <2>1, Zenon DEF TypeInv
<1>8. NumbersInv'
  <2>1. c \in [n : Nat, i : Instances] /\ c.n = lastSeq + 1 /\ c.i \in buckets
    BY <1>5, <1>6
  <2>2. c.n >= 1 /\ c.n <= lastSeq' /\ c.n # highest /\ highest <= lastSeq'
    BY <1>3, <1>5, <2>1
  <2>3. c.n \notin Ids(changes)
    <3> SUFFICES ASSUME NEW d \in changes PROVE d.n # c.n
      BY Zenon DEF Ids
    <3>1. d.n \in Nat /\ d.n <= highest
      BY Zenon DEF Inv, TypeInv, ChangeType, NumbersInv
    <3> QED
      BY <1>5, <2>1, <3>1
  <2> HIDE DEF c
  <2>4. PendingInv(t)'
    BY <1>3, <1>4, <2>1, <2>2, <2>3, Zenon DEF PendingInv
  <2>5. ASSUME NEW p \in Threads, Pending(p)', p # t
        PROVE  Pending(p) /\ thread'[p] = thread[p] /\ PendingInv(p)' /\ thread[p].change.n # c.n
    <3>1. Pending(p) /\ thread'[p] = thread[p] /\ PendingInv(p)
      BY <1>2, <2>5, ThreadsApart, Zenon DEF Pending, Inv, NumbersInv
    <3>2. thread[p].change.n \in Nat /\ thread[p].change.n <= lastSeq
      BY <3>1, Zenon DEF PendingInv
    <3>3. thread[p].change.n <= lastSeq' /\ thread[p].change.n # c.n
      BY <1>3, <1>5, <2>1, <3>2
    <3> QED
      BY <1>3, <3>1, <3>3, Zenon DEF PendingInv
  <2>6. \A p \in Threads : Pending(p)' => PendingInv(p)'
    BY <2>4, <2>5, Zenon
  <2>7. \A p, q \in Threads : Pending(p)' /\ Pending(q)' /\ p # q
                               => thread'[p].change.n # thread'[q].change.n
    <3> SUFFICES ASSUME NEW p \in Threads, NEW q \in Threads, Pending(p)', Pending(q)', p # q
                 PROVE  thread'[p].change.n # thread'[q].change.n
      BY Zenon
    <3>1. CASE p = t
      BY <1>4, <2>5, <3>1, Zenon
    <3>2. CASE q = t
      BY <1>4, <2>5, <3>2, Zenon
    <3>3. CASE p # t /\ q # t
      BY <2>5, <3>3, Zenon DEF Inv, NumbersInv
    <3> QED
      BY <3>1, <3>2, <3>3, Zenon
  <2> QED
    BY <1>3, <2>2, <2>6, <2>7, Zenon DEF Inv, NumbersInv
<1>9. \A p \in Processes : thread'[p].at \in {"allocate", "wait", "purge"} => thread'[p] = thread[p]
  <2> SUFFICES ASSUME NEW p \in Processes, thread'[p].at \in {"allocate", "wait", "purge"} PROVE p # t
    BY <1>2, Zenon
  <2> QED
    BY <1>4, Zenon
<1>10. LockInv' /\ RoomInv'
  BY <1>3, <1>9, ThreadsApart, LockKept, RoomKept, Zenon DEF Inv
<1>11. AckInv'
  <2>1. highest' \in Nat /\ highest <= highest'
    BY <1>3, <1>5
  <2> QED
    BY <1>3, <1>9, <2>1, AckKept, Zenon DEF Inv
<1>12. PurgeInv'
  <2>1. \A p \in Processes : thread[p].at \in {"purge", "sent"} => thread'[p] = thread[p]
    <3> SUFFICES ASSUME NEW p \in Processes, thread[p].at \in {"purge", "sent"} PROVE p # t
      BY <1>2, Zenon
    <3> QED
      BY <1>3, Zenon
  <2> QED
    BY <1>3, <2>1, PurgeKept, Zenon DEF Inv
<1> QED
  BY <1>7, <1>8, <1>10, <1>11, <1>12, Zenon DEF Inv

\* A write takes the lock and waits for one of the changes in its way.
LEMMA WaitKeeps ==
    ASSUME Inv, NEW t \in Threads, thread[t].at = "add", Unlocked,
           InstanceFull(thread[t].change.i) \/ Full,
           Goto(t, [at |-> "wait", change |-> thread[t].change,
                    among |-> Candidates(thread[t].change.i)]),
           UNCHANGED <<qos, lastSeq, changes, added, buckets, highest, readers, sent, acked,
                       notified, late>>
    PROVE  Inv'
<1> DEFINE c == thread[t].change
<1>1. TypeInv /\ t \in Processes
  BY ThreadsApart, Zenon DEF Inv
<1>2. /\ thread'[t] = [at |-> "wait", change |-> c, among |-> Candidates(c.i)]
      /\ (\A q \in Processes \ {t} : thread'[q] = thread[q])
      /\ thread' = [q \in Processes |-> thread'[q]]
  BY <1>1, GotoStep, Zenon
<1>3. thread'[t].at = "wait" /\ thread'[t].change = c /\ thread'[t].among = Candidates(c.i)
  BY <1>2
<1>4. TypeInv'
  BY <1>1, <1>2, Zenon DEF TypeInv
<1>5. NumbersInv'
  <2>1. \A p \in Threads : Pending(p)' => Pending(p) /\ thread'[p].change = thread[p].change
    BY <1>2, <1>3, ThreadsApart, Zenon DEF Pending
  <2>2. lastSeq' \in Nat /\ lastSeq <= lastSeq' /\ notified' <= highest
    BY DEF Inv, TypeInv, NumbersInv
  <2> QED
    BY <2>1, <2>2, NumbersKept, Zenon DEF Inv
<1>6. \A p \in Processes : thread'[p].at \in {"allocate", "purge"} => thread'[p] = thread[p]
  <2> SUFFICES ASSUME NEW p \in Processes, thread'[p].at \in {"allocate", "purge"} PROVE p # t
    BY <1>2, Zenon
  <2> QED
    BY <1>3, Zenon
<1>7. LockInv'
  <2>1. \A p \in Threads : thread'[p].at = "wait" => p = t
    BY <1>2, ThreadsApart, Zenon DEF Unlocked
  <2>2. Full' = Full
    BY Zenon DEF Full
  <2>3. InstanceFull(c.i) => InstanceFull(thread[t].change.i)'
    BY <1>3, <2>2, Zenon DEF InstanceFull, OfInstance
  <2>4. Candidates(thread[t].change.i)' = Candidates(c.i)
    BY <1>3, <2>2, Zenon DEF Candidates, InstanceFull, OfInstance, Removable, Ids
  <2> QED
    BY <1>3, <2>1, <2>2, <2>3, <2>4, Zenon DEF LockInv
<1>8. RoomInv'
  BY <1>6, ThreadsApart, RoomKept, Zenon DEF Inv
<1>9. AckInv'
  <2>1. highest' \in Nat /\ highest <= highest'
    BY DEF Inv, TypeInv
  <2> QED
    BY <1>6, <2>1, AckKept, Zenon DEF Inv
<1>10. PurgeInv'
  <2>1. \A p \in Processes : thread[p].at \in {"purge", "sent"} => thread'[p] = thread[p]
    <3> SUFFICES ASSUME NEW p \in Processes, thread[p].at \in {"purge", "sent"} PROVE p # t
      BY <1>2, Zenon
    <3> QED
      BY Zenon
  <2> QED
    BY <2>1, PurgeKept, Zenon DEF Inv
<1> QED
  BY <1>4, <1>5, <1>7, <1>8, <1>9, <1>10, Zenon DEF Inv

LEMMA AddChangeKeeps ==
    ASSUME Inv, NEW t \in Threads, AddChange(t)
    PROVE  Inv'
<1> DEFINE c == thread[t].change
           needed == InstanceFull(c.i) \/ Full
<1>1. /\ thread[t].at = "add" /\ Unlocked
      /\ UNCHANGED <<qos, lastSeq, buckets, readers, sent, acked, notified>>
      /\ \/ ~needed /\ Add(t, {})
         \/ /\ needed /\ Candidates(c.i) # {} /\ KeepAll
            /\ Goto(t, [at |-> "wait", change |-> c, among |-> Candidates(c.i)])
            /\ UNCHANGED <<changes, added, highest, late, lost>>
         \/ needed /\ Candidates(c.i) # {} /\ ~KeepAll /\ Add(t, Oldest(c.i))
         \/ /\ needed /\ Candidates(c.i) = {}
            /\ lost' = lost \cup {c.n} /\ Goto(t, Idle)
            /\ UNCHANGED <<changes, added, highest, late>>
  BY Zenon DEF AddChange
<1>2. Pending(t) /\ \A p \in Threads \ {t} : thread[p].at # "wait"
  BY <1>1, Zenon DEF Pending, Unlocked
<1>3. c.i \in Instances /\ TypeInv
  BY <1>2, Zenon DEF Inv, NumbersInv, PendingInv
<1>4. CASE ~needed /\ Add(t, {})
  <2>1. MayAdd(t, {}) /\ Adds(t, {})
    BY <1>1, <1>2, <1>4, NoNeed, Zenon DEF MayAdd, Adds
  <2> QED
    BY <2>1, AddKeeps, Zenon
<1>5. CASE needed /\ Goto(t, [at |-> "wait", change |-> c, among |-> Candidates(c.i)])
           /\ UNCHANGED <<changes, added, highest, late>>
  BY <1>1, <1>5, WaitKeeps, Zenon
<1>6. CASE Candidates(c.i) # {} /\ Add(t, Oldest(c.i))
  <2>1. MayAdd(t, Oldest(c.i)) /\ Adds(t, Oldest(c.i))
    BY <1>1, <1>2, <1>3, <1>6, OldestMakesRoom, Zenon DEF MayAdd, Adds
  <2> QED
    BY <2>1, AddKeeps, Zenon
<1>7. CASE Goto(t, Idle) /\ UNCHANGED <<changes, added, highest, late>>
  <2>1. thread[t].at \notin {"purge", "sent"} /\ Idle.at \notin {"allocate", "add", "wait", "purge"}
    BY <1>1, IdleAt, Zenon
  <2> QED
    BY <1>1, <1>7, <2>1, QuietKeeps, ThreadsApart, Zenon
<1> QED
  BY <1>1, <1>4, <1>5, <1>6, <1>7, Zenon

\* The write that waits is the one that holds the lock, and what it evicts is one of
\* the changes it found in its way.
LEMMA AddWhenAckedKeeps ==
    ASSUME Inv, NEW t \in Threads, AddWhenAcked(t)
    PROVE  Inv' /\ \E n : AckedByAll(n) /\ Without({n}) \subseteq changes'
<1> DEFINE c == thread[t].change
<1>1. /\ thread[t].at = "wait"
      /\ UNCHANGED <<qos, lastSeq, buckets, readers, sent, acked, notified>>
  BY Zenon DEF AddWhenAcked
<1>2. PICK n \in FirstAcked(thread[t].among) : Add(t, {n})
  BY Zenon DEF AddWhenAcked
<1>3. thread[t].among = Candidates(c.i) /\ \A p \in Threads \ {t} : thread[p].at # "wait"
  BY <1>1, Zenon DEF Inv, LockInv
<1>4. Room(c.i, {n}) /\ AckedByAll(n)
  BY <1>2, <1>3, AckedMakesRoom, Zenon
<1>5. MayAdd(t, {n}) /\ Adds(t, {n})
  BY <1>1, <1>2, <1>3, <1>4, Zenon DEF MayAdd, Adds, Pending
<1>6. Inv'
  BY <1>5, AddKeeps, Zenon
<1>7. Without({n}) \subseteq changes'
  BY <1>2, Zenon DEF Add
<1> QED
  BY <1>4, <1>6, <1>7, Zenon

----------------------------------------------------------------------------
(* Acknowledgements *)

LEMMA SendAckKeeps ==
    ASSUME Inv, NEW r \in Readers, NEW n \in 1..MaxSeq, SendAck(r, n)
    PROVE  Inv'
<1>1. /\ UNCHANGED <<qos, lastSeq, changes, added, buckets, highest, readers, acked, notified,
                     thread, late>>
      /\ sent' = [sent EXCEPT ![r] = n] /\ n \in (sent[r] + 1)..highest
  BY Zenon DEF SendAck
<1>2. highest \in Nat /\ sent \in [Readers -> Nat] /\ acked \in [Readers -> Nat]
      /\ n \in Nat /\ sent[r] < n /\ n <= highest
  BY <1>1, WriterHistoryAssumption DEF Inv, TypeInv
<1>3. TypeInv'
  <2>1. sent' \in [Readers -> Nat]
    BY <1>1, <1>2, Zenon
  <2> QED
    BY <1>1, <2>1, Zenon DEF Inv, TypeInv
<1>4. NumbersInv' /\ LockInv' /\ RoomInv' /\ PurgeInv'
  <2>1. lastSeq' \in Nat /\ lastSeq <= lastSeq' /\ notified' <= highest
    BY <1>1 DEF Inv, TypeInv, NumbersInv
  <2>2. \A p \in Threads : Pending(p)' => Pending(p) /\ thread'[p].change = thread[p].change
    BY <1>1, Zenon DEF Pending
  <2> QED
    BY <1>1, <2>1, <2>2, NumbersKept, LockKept, RoomKept, PurgeKept, Zenon DEF Inv
<1>5. AckInv'
  <2>1. ASSUME NEW s \in Readers PROVE acked'[s] <= sent'[s] /\ sent'[s] <= highest'
    <3>1. acked[s] <= sent[s] /\ sent[s] <= highest /\ acked[s] \in Nat /\ sent[s] \in Nat
      BY <1>2, Zenon DEF Inv, AckInv
    <3>2. sent'[s] = IF s = r THEN n ELSE sent[s]
      BY <1>1, <1>2, Zenon
    <3> QED
      BY <1>1, <1>2, <3>1, <3>2
  <2> QED
    BY <1>1, <2>1, Zenon DEF Inv, AckInv
<1> QED
  BY <1>3, <1>4, <1>5, Zenon DEF Inv

\* The receive thread goes on to process what was acknowledged.
LEMMA ReceiverMoves ==
    ASSUME Inv, thread[rx] = Idle, Goto(rx, [at |-> "sent"]),
           UNCHANGED <<qos, lastSeq, changes, added, buckets, highest, sent, notified, late>>,
           readers' \subseteq readers, acked' \in [Readers -> Nat],
           \A r \in Readers : acked[r] <= acked'[r] /\ acked'[r] <= sent[r]
    PROVE  Inv'
<1>1. /\ thread'[rx] = [at |-> "sent"] /\ (\A q \in Processes \ {rx} : thread'[q] = thread[q])
      /\ thread' = [q \in Processes |-> thread'[q]]
  BY GotoStep, ThreadsApart, Zenon DEF Inv
<1>2. thread'[rx].at = "sent" /\ rx \in Processes /\ thread[rx].at = "idle"
  BY <1>1, ThreadsApart, IdleAt
<1>3. \A t \in Threads : thread'[t] = thread[t]
  BY <1>1, ThreadsApart, Zenon
<1>4. TypeInv'
  BY <1>1, Zenon DEF Inv, TypeInv
<1>5. NumbersInv' /\ LockInv' /\ RoomInv'
  <2>1. lastSeq' \in Nat /\ lastSeq <= lastSeq' /\ notified' <= highest
    BY DEF Inv, TypeInv, NumbersInv
  <2>2. \A p \in Threads : Pending(p)' => Pending(p) /\ thread'[p].change = thread[p].change
    BY <1>3, Zenon DEF Pending
  <2> QED
    BY <1>3, <2>1, <2>2, NumbersKept, LockKept, RoomKept, Zenon DEF Inv
<1>6. AckInv'
  <2>1. ASSUME NEW p \in Processes, thread'[p].at = "purge", NEW r \in readers'
        PROVE  thread'[p].upTo \in Nat /\ thread'[p].upTo <= acked'[r]
    <3>1. p # rx
      BY <1>2, <2>1, Zenon
    <3>2. thread'[p] = thread[p]
      BY <1>1, <3>1, Zenon
    <3>3. r \in readers /\ r \in Readers
      BY <2>1, Zenon DEF Inv, TypeInv
    <3>4. thread[p].upTo \in Nat /\ thread[p].upTo <= acked[r]
      BY <2>1, <3>2, <3>3, Zenon DEF Inv, AckInv
    <3>5. acked[r] \in Nat /\ acked'[r] \in Nat /\ acked[r] <= acked'[r]
      BY <3>3, Zenon DEF Inv, TypeInv
    <3> QED
      BY <3>2, <3>4, <3>5, SMT
  <2>2. ASSUME NEW p \in Processes, thread'[p].at = "purge" PROVE thread'[p].upTo \in Nat
    <3>1. p # rx
      BY <1>2, <2>2, Zenon
    <3> QED
      BY <1>1, <2>2, <3>1, Zenon DEF Inv, AckInv
  <2>3. \A r \in Readers : acked'[r] <= sent'[r] /\ sent'[r] <= highest'
    BY Zenon DEF Inv, AckInv
  <2> QED
    BY <2>1, <2>2, <2>3, Zenon DEF AckInv
<1>7. PurgeInv'
  <2>1. NoticeDue'
    BY <1>2, Zenon DEF NoticeDue
  <2>2. ASSUME NEW n, Doomed(n) PROVE Doomed(n)'
    <3>1. PICK p \in Processes : thread[p].at = "purge" /\ n <= thread[p].upTo
      BY <2>2, Zenon DEF Doomed
    <3>2. p # rx
      BY <1>2, <3>1, Zenon
    <3> QED
      BY <1>1, <3>1, <3>2, Zenon DEF Doomed
  <2> QED
    BY <2>1, <2>2, Zenon DEF Inv, PurgeInv, Purges
<1> QED
  BY <1>4, <1>5, <1>6, <1>7, Zenon DEF Inv

LEMMA ReceiveAckKeeps ==
    ASSUME Inv, NEW r \in Readers, ReceiveAck(r)
    PROVE  Inv'
<1>1. acked \in [Readers -> Nat] /\ sent \in [Readers -> Nat]
  BY Zenon DEF Inv, TypeInv
<1>2. acked' = [acked EXCEPT ![r] = sent[r]] /\ acked[r] < sent[r] /\ readers' = readers
  BY Zenon DEF ReceiveAck
<1>3. acked' \in [Readers -> Nat]
  BY <1>1, <1>2, Zenon
<1>4. ASSUME NEW s \in Readers PROVE acked[s] <= acked'[s] /\ acked'[s] <= sent[s]
  <2>1. acked[s] \in Nat /\ sent[s] \in Nat /\ acked[s] <= sent[s]
    BY <1>1, Zenon DEF Inv, AckInv
  <2>2. acked'[s] = IF s = r THEN sent[r] ELSE acked[s]
    BY <1>1, <1>2, Zenon
  <2> QED
    BY <1>2, <2>1, <2>2
<1> QED
  BY <1>2, <1>3, <1>4, ReceiverMoves, Zenon DEF ReceiveAck

LEMMA UnmatchKeeps ==
    ASSUME Inv, NEW r \in Readers, Unmatch(r)
    PROVE  Inv'
<1>1. acked \in [Readers -> Nat] /\ acked' = acked /\ readers' \subseteq readers
  BY Zenon DEF Inv, TypeInv, Unmatch
<1>2. \A s \in Readers : acked[s] <= acked'[s] /\ acked'[s] <= sent[s]
  <2> SUFFICES ASSUME NEW s \in Readers PROVE acked[s] <= acked'[s] /\ acked'[s] <= sent[s]
    BY Zenon
  <2>1. acked[s] \in Nat /\ acked[s] <= sent[s] /\ acked'[s] = acked[s]
    BY <1>1, Zenon DEF Inv, AckInv
  <2> QED
    BY <2>1
<1> QED
  BY <1>1, <1>2, ReceiverMoves, Zenon DEF Unmatch

\* What process_acked_changes computes: everything up to it is acknowledged by all
\* readers, and nothing beyond it that is in the history.
LEMMA AckedFacts ==
    ASSUME Inv
    PROVE  /\ Acked \in Nat /\ Acked <= highest
           /\ \A r \in readers : Acked <= acked[r]
           /\ \A c \in changes : AckedByAll(c.n) => c.n <= Acked
<1>1. readers \subseteq Readers /\ acked \in [Readers -> Nat] /\ highest \in Nat
  BY Zenon DEF Inv, TypeInv
<1>2. CASE readers = {}
  <2>1. Acked = highest
    BY <1>2, Zenon DEF Acked
  <2>2. \A c \in changes : c.n <= highest
    BY Zenon DEF Inv, NumbersInv
  <2> QED
    BY <1>1, <1>2, <2>1, <2>2
<1>3. CASE readers # {}
  <2> DEFINE S == {acked[r] : r \in readers}
  <2>1. S \in SUBSET Nat /\ S # {}
    BY <1>1, <1>3, Zenon
  <2>2. Min(S) \in S /\ \A y \in S : Min(S) <= y
    BY <2>1, LeastNumber, Zenon
  <2>3. Acked = Min(S)
    BY <1>3, Zenon DEF Acked
  <2>4. PICK r0 \in readers : Acked = acked[r0]
    BY <2>2, <2>3, Zenon
  <2>5. \A r \in readers : Acked <= acked[r]
    BY <2>2, <2>3, Zenon
  <2>6. Acked \in Nat /\ Acked <= highest
    <3>1. acked[r0] \in Nat /\ sent[r0] \in Nat
      BY <1>1, Zenon DEF Inv, TypeInv
    <3>2. acked[r0] <= sent[r0] /\ sent[r0] <= highest
      BY <1>1, Zenon DEF Inv, AckInv
    <3> QED
      BY <1>1, <2>4, <3>1, <3>2
  <2>7. ASSUME NEW c \in changes, AckedByAll(c.n) PROVE c.n <= Acked
    <3>1. acked[r0] >= c.n
      BY <2>7, Zenon DEF AckedByAll
    <3>2. c.n \in Nat
      BY Zenon DEF Inv, TypeInv, ChangeType
    <3> QED
      BY <2>4, <2>6, <3>1, <3>2, Zenon
  <2> QED
    BY <2>5, <2>6, <2>7, Zenon
<1> QED
  BY <1>2, <1>3, Zenon

LEMMA NotifyAckedKeeps ==
    ASSUME Inv, NEW p \in Processes, NotifyAcked(p)
    PROVE  Inv'
<1>1. /\ thread[p].at = "sent"
      /\ UNCHANGED <<qos, lastSeq, changes, added, buckets, highest, readers, sent, acked, late>>
  BY Zenon DEF NotifyAcked
<1>2. PICK s : Goto(p, s) /\ IF Purges /\ Acked > notified
                               THEN notified' = Acked /\ s = [at |-> "purge", upTo |-> Acked]
                               ELSE notified' = notified /\ s = Idle
  BY Zenon DEF NotifyAcked
<1>3. /\ thread'[p] = s /\ (\A q \in Processes \ {p} : thread'[q] = thread[q])
      /\ thread' = [q \in Processes |-> thread'[q]]
  BY <1>2, GotoStep, Zenon DEF Inv
<1>4. s.at \in {"idle", "purge"}
  BY <1>2, IdleAt
<1>5. /\ Acked \in Nat /\ Acked <= highest /\ (\A r \in readers : Acked <= acked[r])
      /\ \A c \in changes : AckedByAll(c.n) => c.n <= Acked
  BY AckedFacts, Zenon
<1>6. notified' \in Nat /\ notified' <= highest
  BY <1>2, <1>5, Zenon DEF Inv, TypeInv, NumbersInv
<1>7. \A q \in Processes : thread'[q].at \in {"allocate", "add", "wait"} => thread'[q] = thread[q]
  <2> SUFFICES ASSUME NEW q \in Processes, thread'[q].at \in {"allocate", "add", "wait"} PROVE q # p
    BY <1>3, Zenon
  <2> QED
    BY <1>3, <1>4, Zenon
<1>8. TypeInv'
  BY <1>1, <1>3, <1>6, Zenon DEF Inv, TypeInv
<1>9. NumbersInv' /\ LockInv' /\ RoomInv'
  <2>1. lastSeq' \in Nat /\ lastSeq <= lastSeq'
    BY <1>1 DEF Inv, TypeInv
  <2>2. \A t \in Threads : Pending(t)' => Pending(t) /\ thread'[t].change = thread[t].change
    BY <1>7, ThreadsApart, Zenon DEF Pending
  <2> QED
    BY <1>1, <1>6, <1>7, <2>1, <2>2, ThreadsApart, NumbersKept, LockKept, RoomKept, Zenon DEF Inv
<1>10. AckInv'
  <2>1. ASSUME NEW q \in Processes, thread'[q].at = "purge"
        PROVE  thread'[q].upTo \in Nat /\ \A r \in readers : thread'[q].upTo <= acked[r]
    <3>1. CASE q = p
      <4>1. s.at = "purge"
        BY <1>3, <2>1, <3>1, Zenon
      <4>2. s.upTo = Acked
        BY <1>2, <4>1, IdleAt
      <4> QED
        BY <1>3, <1>5, <3>1, <4>2, Zenon
    <3>2. CASE q # p
      BY <1>3, <2>1, <3>2, Zenon DEF Inv, AckInv
    <3> QED
      BY <3>1, <3>2, Zenon
  <2> QED
    BY <1>1, <2>1, Zenon DEF Inv, AckInv
<1>11. PurgeInv'
  <2> SUFFICES ASSUME Purges, NEW c \in changes, c.n \notin late
               PROVE  /\ c.n <= notified' => Doomed(c.n)'
                      /\ c.n > notified' => ~AckedByAll(c.n)
    BY <1>1, Zenon DEF PurgeInv, Purges, AckedByAll
  <2>1. c.n \in Nat /\ notified \in Nat
    BY Zenon DEF Inv, TypeInv, ChangeType
  <2>2. CASE Acked > notified
    <3>1. notified' = Acked /\ thread'[p].at = "purge" /\ thread'[p].upTo = Acked
      BY <1>2, <1>3, <2>2
    <3>2. c.n <= notified' => Doomed(c.n)'
      BY <3>1, Zenon DEF Doomed
    <3>3. c.n > notified' => ~AckedByAll(c.n)
      <4>1. AckedByAll(c.n) => c.n <= Acked
        BY <1>5, Zenon
      <4> QED
        BY <1>5, <2>1, <3>1, <4>1
    <3> QED
      BY <3>2, <3>3, Zenon
  <2>3. CASE ~(Acked > notified)
    <3>1. notified' = notified
      BY <1>2, <2>3, Zenon
    <3>2. c.n <= notified' => Doomed(c.n)'
      <4> SUFFICES ASSUME c.n <= notified PROVE Doomed(c.n)'
        BY <3>1, Zenon
      <4>1. PICK q \in Processes : thread[q].at = "purge" /\ c.n <= thread[q].upTo
        BY Zenon DEF Inv, PurgeInv, Doomed
      <4>2. q # p
        BY <1>1, <4>1, Zenon
      <4> QED
        BY <1>3, <4>1, <4>2, Zenon DEF Doomed
    <3>3. c.n > notified' => ~AckedByAll(c.n)
      <4>1. AckedByAll(c.n) => c.n <= Acked
        BY <1>5, Zenon
      <4> QED
        BY <1>5, <2>1, <2>3, <3>1, <4>1
    <3> QED
      BY <3>2, <3>3, Zenon
  <2> QED
    BY <2>2, <2>3, Zenon
<1> QED
  BY <1>8, <1>9, <1>10, <1>11, Zenon DEF Inv

LEMMA PurgeAckedKeeps ==
    ASSUME Inv, NEW p \in Processes, PurgeAcked(p)
    PROVE  Inv' /\ \A c \in changes \ changes' : AckedByAll(c.n)
<1>1. /\ thread[p].at = "purge" /\ Unlocked /\ Goto(p, Idle)
      /\ changes' = {c \in changes : c.n > thread[p].upTo}
      /\ UNCHANGED <<qos, lastSeq, added, buckets, highest, readers, sent, acked, notified, late>>
  BY Zenon DEF PurgeAcked
<1>2. /\ thread'[p] = Idle /\ (\A q \in Processes \ {p} : thread'[q] = thread[q])
      /\ thread' = [q \in Processes |-> thread'[q]]
  BY <1>1, GotoStep, Zenon DEF Inv
<1>3. thread'[p].at = "idle"
  BY <1>2, IdleAt, Zenon
<1>4. changes' \subseteq changes /\ changes \subseteq ChangeType /\ IsFiniteSet(changes)
  BY <1>1, Zenon DEF Inv, TypeInv
<1>5. TypeInv'
  <2>1. IsFiniteSet(changes')
    BY <1>4, FS_Subset, Zenon
  <2> QED
    BY <1>1, <1>2, <1>4, <2>1, Zenon DEF Inv, TypeInv
<1>6. \A q \in Processes : thread'[q].at \in {"allocate", "add", "wait", "purge"} => thread'[q] = thread[q]
  <2> SUFFICES ASSUME NEW q \in Processes, thread'[q].at \in {"allocate", "add", "wait", "purge"}
               PROVE  q # p
    BY <1>2, Zenon
  <2> QED
    BY <1>3, Zenon
<1>7. NumbersInv' /\ RoomInv'
  <2>1. lastSeq' \in Nat /\ lastSeq <= lastSeq' /\ notified' <= highest
    BY <1>1 DEF Inv, TypeInv, NumbersInv
  <2>2. \A t \in Threads : Pending(t)' => Pending(t) /\ thread'[t].change = thread[t].change
    BY <1>6, ThreadsApart, Zenon DEF Pending
  <2> QED
    BY <1>1, <1>4, <1>6, <2>1, <2>2, ThreadsApart, NumbersKept, RoomKept, Zenon DEF Inv
<1>8. LockInv'
  <2>1. \A t \in Threads : thread'[t].at # "wait"
    BY <1>1, <1>6, ThreadsApart, Zenon DEF Unlocked
  <2> QED
    BY <2>1, LockFree, Zenon
<1>9. AckInv'
  <2>1. highest' \in Nat /\ highest <= highest'
    BY <1>1 DEF Inv, TypeInv
  <2> QED
    BY <1>1, <1>6, <2>1, AckKept, Zenon DEF Inv
<1>10. thread[p].upTo \in Nat /\ \A r \in readers : thread[p].upTo <= acked[r]
  BY <1>1, Zenon DEF Inv, AckInv
<1>11. PurgeInv'
  <2> SUFFICES ASSUME Purges, NEW c \in changes', c.n \notin late
               PROVE  /\ c.n <= notified => Doomed(c.n)'
                      /\ c.n > notified /\ AckedByAll(c.n) => NoticeDue'
    BY <1>1, Zenon DEF PurgeInv, Purges, AckedByAll
  <2>1. /\ c.n <= notified => Doomed(c.n)
        /\ c.n > notified /\ AckedByAll(c.n) => NoticeDue
    BY <1>4, Zenon DEF Inv, PurgeInv
  <2>2. Doomed(c.n) => Doomed(c.n)'
    <3> SUFFICES ASSUME NEW q \in Processes, thread[q].at = "purge", c.n <= thread[q].upTo
                 PROVE  q # p
      BY <1>2, Zenon DEF Doomed
    <3>1. c.n \in Nat /\ c.n > thread[p].upTo
      BY <1>1, <1>4, Zenon DEF ChangeType
    <3> QED
      BY <1>10, <3>1
  <2>3. NoticeDue => NoticeDue'
    <3> SUFFICES ASSUME NEW q \in Processes, thread[q].at = "sent" PROVE q # p
      BY <1>2, Zenon DEF NoticeDue
    <3> QED
      BY <1>1, Zenon
  <2> QED
    BY <2>1, <2>2, <2>3, Zenon
<1>12. ASSUME NEW c \in changes \ changes', NEW r \in readers PROVE acked[r] >= c.n
  <2>1. c.n \in Nat /\ ~(c.n > thread[p].upTo)
    BY <1>1, <1>4, <1>12, Zenon DEF ChangeType
  <2>2. acked[r] \in Nat /\ thread[p].upTo <= acked[r]
    BY <1>10, Zenon DEF Inv, TypeInv
  <2> QED
    BY <1>10, <2>1, <2>2
<1> QED
  BY <1>5, <1>7, <1>8, <1>9, <1>11, <1>12, Zenon DEF Inv, AckedByAll

----------------------------------------------------------------------------
(* Every step *)

LEMMA InitHolds == Init => Inv
<1> SUFFICES ASSUME Init PROVE Inv
  BY Zenon
<1>1. \A p \in Processes : thread[p] = Idle /\ thread[p].at = "idle"
  BY IdleAt, Zenon DEF Init, Processes
<1>2. TypeInv
  <2>1. qos \in Profiles /\ readers \subseteq Readers
    BY WriterHistoryAssumption, Zenon DEF Init
  <2> QED
    BY <2>1, FS_EmptySet, Zenon DEF Init, TypeInv, Processes
<1>3. NumbersInv /\ LockInv
  <2>1. \A p \in Threads : ~Pending(p) /\ thread[p].at # "wait"
    BY <1>1, ThreadsApart, Zenon DEF Pending
  <2> QED
    BY <2>1 DEF Init, NumbersInv, LockInv
<1>4. RoomInv
  <2>1. qos.samples \in Nat /\ qos.instances \in Nat /\ qos.perInstance \in Nat
    BY <1>2, WriterHistoryAssumption, Zenon DEF TypeInv
  <2>2. \A i \in Instances : OfInstance(i) = {}
    BY Zenon DEF Init, OfInstance
  <2>3. \A t \in Threads : thread[t].at # "allocate"
    BY <1>1, ThreadsApart, Zenon
  <2> QED
    BY <2>1, <2>2, <2>3, FS_EmptySet DEF Init, RoomInv
<1>5. AckInv
  BY <1>1 DEF Init, AckInv
<1>6. PurgeInv
  BY Zenon DEF Init, PurgeInv
<1> QED
  BY <1>2, <1>3, <1>4, <1>5, <1>6, Zenon DEF Inv

LEMMA AwaitKeeps ==
    ASSUME Inv, NEW t \in Threads,
           WaitForAcknowledgments(t) \/ Await(t) \/ GiveUpWaiting(t) \/ TimeOut(t)
    PROVE  Inv' /\ changes' = changes
<1>1. PICK s : Goto(t, s) /\ \/ s = Idle \/ s = [at |-> "acks"]
                             \/ s = [at |-> "compare", last |-> lastSeq]
  BY Zenon DEF WaitForAcknowledgments, Await, LoadLast, CompareLast, GiveUpWaiting, TimeOut
<1>2. s.at \notin {"allocate", "add", "wait", "purge"}
  BY <1>1, IdleAt
<1>3. thread[t].at \in {"idle", "acks", "compare", "wait"}
  BY IdleAt, Zenon DEF WaitForAcknowledgments, Await, LoadLast, CompareLast, GiveUpWaiting, TimeOut
<1>4. UNCHANGED <<qos, lastSeq, changes, added, buckets, highest, readers, sent, acked, notified, late>>
  BY Zenon DEF WaitForAcknowledgments, Await, LoadLast, CompareLast, GiveUpWaiting, TimeOut, others
<1>5. thread[t].at \notin {"purge", "sent"}
  BY <1>3, Zenon
<1> QED
  BY <1>1, <1>2, <1>4, <1>5, ThreadsApart, QuietKeeps, Zenon

LEMMA StepKeeps == Inv /\ [Next]_vars => Inv'
<1> SUFFICES ASSUME Inv, [Next]_vars PROVE Inv'
  BY Zenon
<1>1. CASE UNCHANGED vars
  <2>1. UNCHANGED <<qos, lastSeq, changes, added, buckets, highest, readers, sent, acked, notified,
                    thread, late>>
    BY <1>1, Zenon DEF vars
  <2>2. TypeInv'
    BY <2>1, Zenon DEF Inv, TypeInv
  <2>3. /\ lastSeq' \in Nat /\ lastSeq <= lastSeq' /\ notified' <= highest
        /\ highest' \in Nat /\ highest <= highest'
    BY <2>1 DEF Inv, TypeInv, NumbersInv
  <2>4. \A p \in Threads : Pending(p)' => Pending(p) /\ thread'[p].change = thread[p].change
    BY <2>1, Zenon DEF Pending
  <2> QED
    BY <2>1, <2>2, <2>3, <2>4, NumbersKept, LockKept, RoomKept, AckKept, PurgeKept, Zenon DEF Inv
<1>2. ASSUME NEW t \in Threads, NEW i \in Instances, Register(t, i) PROVE Inv'
  BY <1>2, RegisterKeeps, Zenon
<1>3. ASSUME NEW t \in Threads, Write(t) PROVE Inv'
  BY <1>3, AllocateKeeps, AddChangeKeeps, AddWhenAckedKeeps, AwaitKeeps, Zenon DEF Write
<1>4. ASSUME NEW t \in Threads, WaitForAcknowledgments(t) \/ Await(t) \/ GiveUpWaiting(t) PROVE Inv'
  BY <1>4, AwaitKeeps, Zenon
<1>5. ASSUME NEW r \in Readers, NEW n \in 1..MaxSeq, SendAck(r, n) PROVE Inv'
  BY <1>5, SendAckKeeps, Zenon
<1>6. ASSUME NEW r \in Readers, ReceiveAck(r) \/ Unmatch(r) PROVE Inv'
  BY <1>6, ReceiveAckKeeps, UnmatchKeeps, Zenon
<1>7. ASSUME NEW p \in Processes, NotifyAcked(p) \/ PurgeAcked(p) PROVE Inv'
  BY <1>7, NotifyAckedKeeps, PurgeAckedKeeps, Zenon
<1> QED
  BY <1>1, <1>2, <1>3, <1>4, <1>5, <1>6, <1>7, Zenon DEF Next, Processes

LEMMA Inductive == Spec => []Inv
BY InitHolds, StepKeeps, PTL DEF Spec

----------------------------------------------------------------------------
(* Theorems *)

\* The history keeps its RESOURCE_LIMITS, lists no change twice, every change has its
\* instance's bucket, nothing is acknowledged before it is sent, and one write at most
\* waits under the lock (data_writer_history.rs, ensure_capacity): for any number of
\* threads, readers, instances and any limits.
THEOREM HistoryLimits == Spec => []LimitsKept
<1>1. ASSUME Inv PROVE LimitsKept
  <2>1. /\ qos \in Profiles /\ qos.samples \in Nat /\ qos.perInstance \in Nat
        /\ ~qos.keyed => qos.samples <= qos.perInstance
    BY <1>1, WriterHistoryAssumption DEF Inv, TypeInv
  <2>2. Cardinality(changes) <= qos.samples /\ IsFiniteSet(changes) /\ Cardinality(changes) \in Nat
    BY <1>1, FS_CardinalityType, Zenon DEF Inv, TypeInv, RoomInv
  <2>3. ASSUME NEW i \in Instances PROVE Cardinality(OfInstance(i)) <= qos.perInstance
    <3>1. CASE qos.keyed
      BY <1>1, <3>1, Zenon DEF Inv, RoomInv
    <3>2. CASE ~qos.keyed
      <4>1. OfInstance(i) \in SUBSET changes
        BY Zenon DEF OfInstance
      <4>2. Cardinality(OfInstance(i)) \in Nat /\ Cardinality(OfInstance(i)) <= Cardinality(changes)
        BY <2>2, <4>1, FS_Subset, FS_CardinalityType, Zenon
      <4> QED
        BY <2>1, <2>2, <3>2, <4>2
    <3> QED
      BY <3>1, <3>2, Zenon
  <2>4. Cardinality({t \in Threads : thread[t].at = "wait"}) <= 1
    <3> DEFINE W == {t \in Threads : thread[t].at = "wait"}
    <3>1. CASE W = {}
      BY <3>1, FS_EmptySet
    <3>2. CASE W # {}
      <4>1. PICK t \in W : W = {t}
        BY <1>1, <3>2, Zenon DEF Inv, LockInv
      <4>2. Cardinality(W) = 1
        BY <4>1, FS_Singleton, Zenon
      <4> QED
        BY <4>2
    <3> QED
      BY <3>1, <3>2, Zenon
  <2> QED
    BY <1>1, <2>2, <2>3, <2>4, Zenon DEF Inv, RoomInv, NumbersInv, AckInv, LimitsKept
<1> QED
  BY <1>1, Inductive, PTL

\* When no thread is at work, a history that purges holds nothing that all readers
\* acknowledged, except what was added after a change with a higher number
\* (process_acked_changes, remove_changes_acked_up_to).
THEOREM AcknowledgedIsPurged == Spec => []AckedIsPurged
<1>1. ASSUME Inv PROVE AckedIsPurged
  <2> SUFFICES ASSUME Purges, \A p \in Processes : thread[p] = Idle,
                      NEW c \in changes, AckedByAll(c.n), c.n \notin late
               PROVE  FALSE
    BY Zenon DEF AckedIsPurged, Processes
  <2>1. \A p \in Processes : thread[p].at = "idle"
    BY IdleAt, Zenon
  <2>2. ~Doomed(c.n) /\ ~NoticeDue
    BY <2>1, Zenon DEF Doomed, NoticeDue
  <2>3. ~(c.n <= notified) /\ ~(c.n > notified)
    BY <1>1, <2>2, Zenon DEF Inv, PurgeInv
  <2>4. c.n \in Nat /\ notified \in Nat
    BY <1>1, Zenon DEF Inv, TypeInv, ChangeType
  <2> QED
    BY <2>3, <2>4
<1> QED
  BY <1>1, Inductive, PTL

\* With KEEP_ALL a change leaves the history only when every matched reader has
\* acknowledged it: a purge told to remove it, or a write that waited for its place
\* (remove_first_acked_change_or_block, remove_changes_acked_up_to).
THEOREM KeepAllKeeps == Spec => NothingUnackedRemoved
<1> DEFINE Safe == KeepAll => \A n \in Ids(changes) \ Ids(changes'), r \in readers : acked[r] >= n
<1>1. ASSUME Inv, [Next]_vars PROVE [Safe]_vars
  <2> SUFFICES ASSUME Next PROVE Safe
    BY <1>1, Zenon
  <2> SUFFICES ASSUME KeepAll, NEW c \in changes, c \notin changes' PROVE AckedByAll(c.n)
    BY Zenon DEF Ids, AckedByAll
  <2>1. ASSUME NEW t \in Threads, AddChange(t) PROVE FALSE
    <3>1. changes' = changes \/ Add(t, {})
      BY <2>1, Zenon DEF AddChange
    <3>2. CASE Add(t, {})
      BY <3>2, Zenon DEF Add, Without
    <3> QED
      BY <3>1, <3>2, Zenon
  <2>2. ASSUME NEW t \in Threads, AddWhenAcked(t) PROVE AckedByAll(c.n)
    <3>1. PICK n : AckedByAll(n) /\ Without({n}) \subseteq changes'
      BY <1>1, <2>2, AddWhenAckedKeeps, Zenon
    <3>2. c.n = n
      BY <3>1, Zenon DEF Without
    <3> QED
      BY <3>1, <3>2, Zenon
  <2>3. ASSUME NEW p \in Processes, PurgeAcked(p) PROVE AckedByAll(c.n)
    BY <1>1, <2>3, PurgeAckedKeeps, Zenon
  <2>4. ASSUME NEW t \in Threads, Write(t) \/ WaitForAcknowledgments(t) \/ Await(t) \/ GiveUpWaiting(t)
        PROVE  AckedByAll(c.n)
    BY <1>1, <2>1, <2>2, <2>4, AwaitKeeps, Zenon DEF Write, Allocate
  <2>5. \A t \in Threads, i \in Instances : Register(t, i) => changes' = changes
    BY Zenon DEF Register
  <2>6. \A r \in Readers : /\ ReceiveAck(r) \/ Unmatch(r) => changes' = changes
                           /\ \A n \in 1..MaxSeq : SendAck(r, n) => changes' = changes
    BY Zenon DEF ReceiveAck, Unmatch, SendAck
  <2>7. \A p \in Processes : NotifyAcked(p) => changes' = changes
    BY Zenon DEF NotifyAcked
  <2> QED
    BY <2>3, <2>4, <2>5, <2>6, <2>7, Zenon DEF Next, Processes
<1>2. Spec => [][Safe]_vars
  BY <1>1, Inductive, PTL DEF Spec
<1> QED
  BY <1>2, Zenon DEF NothingUnackedRemoved
=============================================================================
