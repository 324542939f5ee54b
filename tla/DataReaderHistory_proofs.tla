---------------------- MODULE DataReaderHistory_proofs ----------------------
(***************************************************************************)
(* Proofs about DataReaderHistory, for any writers, instances, limits and  *)
(* number of changes: the limits are kept, an instance that is ALIVE has a *)
(* writer, a held sample is not delivered inside its window, and a         *)
(* notification is pending only while the writers are gone.                *)
(***************************************************************************)
EXTENDS DataReaderHistory, FiniteSetTheorems, WellFoundedInduction, TLAPS

----------------------------------------------------------------------------
(* The invariant *)

InfoEntry == [state : {"alive", "disposed", "no_writers"}, notify : BOOLEAN]
FilterEntry == [open : BOOLEAN, pending : SUBSET Change, armed : BOOLEAN]

CandOK(c) == DOMAIN c \subseteq Instances /\ \A i \in DOMAIN c : c[i] \subseteq Writers

\* The states of the instances, with what NotifiedIsWriterless says of them.
InfoOK(f) ==
    /\ DOMAIN f \subseteq Instances
    /\ \A i \in DOMAIN f : f[i] \in InfoEntry /\ (f[i].notify => f[i].state = "no_writers")

FilterOK(f) ==
    /\ DOMAIN f \subseteq Instances
    /\ \A i \in DOMAIN f : f[i] \in FilterEntry /\ (f[i].pending # {} => f[i].armed)

ThreadOK ==
    \/ thread = Idle
    \/ thread.at \in {"held", "forget"} /\ thread.i \in Instances
    \/ thread.at = "give" /\ thread.change \subseteq Change

StoreOK ==
    /\ store \subseteq Stored /\ IsFiniteSet(store) /\ added \in Nat
    /\ buckets \subseteq Instances /\ IsFiniteSet(buckets)
    /\ \A s \in store : s.change.i \in buckets

TypeInv ==
    /\ qos \in Profiles /\ arrived \in 0..MaxArrivals
    /\ StoreOK /\ CandOK(cand) /\ InfoOK(info) /\ FilterOK(filter) /\ ThreadOK
    /\ tracked \subseteq Instances /\ missed \subseteq Instances
    /\ window \in [Instances -> {"off", "fresh", "stale"}]
    /\ purge \in [PurgeStates -> SUBSET Instances]

\* Unless its instance was forgotten meanwhile, a timer that is set, or whose turn it
\* is, has a delivery scheduled, and when it is its turn the window is over.
Armed(i) == i \in DOMAIN filter /\ filter[i].armed

TimerInv(i) ==
    /\ window[i] # "off" => window[i] = "fresh" /\ Armed(i)
    /\ thread.at = "held" /\ thread.i = i => window[i] = "off" /\ Armed(i) /\ ~filter[i].open

SeparationInv == early \subseteq recycled /\ \A i \in Instances \ recycled : TimerInv(i)

Inv == TypeInv /\ LimitsKept /\ AliveHasWriter /\ SeparationInv

----------------------------------------------------------------------------
(* Maps *)

LEMMA DropFacts ==
    ASSUME NEW f, NEW S
    PROVE  /\ DOMAIN Drop(f, S) = DOMAIN f \ S
           /\ \A j \in DOMAIN f \ S : Drop(f, S)[j] = f[j]
BY Zenon DEF Drop

LEMMA DropOK ==
    ASSUME NEW f, NEW S
    PROVE  InfoOK(f) => InfoOK(Drop(f, S))
<1>1. DOMAIN Drop(f, S) = DOMAIN f \ S /\ \A j \in DOMAIN f \ S : Drop(f, S)[j] = f[j]
  BY DropFacts, Zenon
<1> QED
  BY <1>1, Zenon DEF InfoOK

LEMMA DropFilterOK ==
    ASSUME NEW f, NEW S
    PROVE  FilterOK(f) => FilterOK(Drop(f, S))
<1>1. DOMAIN Drop(f, S) = DOMAIN f \ S /\ \A j \in DOMAIN f \ S : Drop(f, S)[j] = f[j]
  BY DropFacts, Zenon
<1> QED
  BY <1>1, Zenon DEF FilterOK

----------------------------------------------------------------------------
(* Candidates *)

\* add_to_owner_candidate_if_new lists the writer and leaves the other instances alone.
LEMMA EnlistFacts ==
    ASSUME CandOK(cand), NEW s \in Change
    PROVE  LET c == Enlist(cand, s.i, s.w)
           IN  /\ CandOK(c) /\ DOMAIN c = DOMAIN cand \cup {s.i} /\ s.w \in c[s.i]
               /\ \A j \in DOMAIN cand \ {s.i} : c[j] = cand[j]
<1> DEFINE old == IF s.i \in DOMAIN cand THEN cand[s.i] ELSE {}
           c == Enlist(cand, s.i, s.w)
<1>1. s.i \in Instances /\ s.w \in Writers /\ old \subseteq Writers
  BY Zenon DEF CandOK, Change
<1>2. c = Put(cand, s.i, {s.w} \cup old)
  BY Zenon DEF Enlist
<1> HIDE DEF c, old
<1>3. /\ DOMAIN c = DOMAIN cand \cup {s.i} /\ c[s.i] = {s.w} \cup old
      /\ \A j \in DOMAIN cand \ {s.i} : c[j] = cand[j]
  BY <1>2, Zenon DEF Put
<1>4. CandOK(c)
  BY <1>1, <1>3, Zenon DEF CandOK
<1> QED
  BY <1>3, <1>4, Zenon DEF c

LEMMA RevokeFacts ==
    ASSUME NEW c, CandOK(c), NEW s \in Change, s.i \in DOMAIN c
    PROVE  LET c2 == Revoke(c, s)
           IN  /\ CandOK(c2) /\ DOMAIN c2 = DOMAIN c
               /\ s.kind \notin {"unregister", "both"} => c2 = c
               /\ \A j \in DOMAIN c \ {s.i} : c2[j] = c[j]
<1> DEFINE c2 == Revoke(c, s)
<1>1. CASE s.kind \in {"unregister", "both"}
  <2>1. c2 = [c EXCEPT ![s.i] = @ \ {s.w}]
    BY <1>1, Zenon DEF Revoke
  <2>2. DOMAIN c2 = DOMAIN c /\ c2[s.i] = c[s.i] \ {s.w} /\ \A j \in DOMAIN c \ {s.i} : c2[j] = c[j]
    BY <2>1, Zenon
  <2> HIDE DEF c2
  <2>3. CandOK(c2)
    BY <2>2, Zenon DEF CandOK
  <2> QED
    BY <1>1, <2>2, <2>3, Zenon DEF c2
<1>2. CASE s.kind \notin {"unregister", "both"}
  BY <1>2, Zenon DEF Revoke
<1> QED
  BY <1>1, <1>2, Zenon

----------------------------------------------------------------------------
(* Instance states *)

LEMMA EntryFacts ==
    ASSUME NEW f, InfoOK(f), NEW i
    PROVE  Entry(f, i) \in InfoEntry /\ (Entry(f, i).notify => Entry(f, i).state = "no_writers")
<1>1. CASE i \in DOMAIN f
  BY <1>1, Zenon DEF Entry, InfoOK
<1>2. CASE i \notin DOMAIN f
  <2>1. Entry(f, i) = [state |-> "alive", notify |-> FALSE]
    BY <1>2, Zenon DEF Entry
  <2> QED
    BY <2>1 DEF InfoEntry
<1> QED
  BY <1>1, <1>2, Zenon

\* The entry of i was written, and the others were left alone.
Moves(f, g, i) ==
    /\ InfoOK(g) /\ DOMAIN g = DOMAIN f \cup {i}
    /\ \A j \in DOMAIN f \ {i} : g[j] = f[j]

\* update_instance_state: only a transition to ALIVE makes an instance alive, and it
\* takes back the notification that the writers are gone.
LEMMA TransitionFacts ==
    ASSUME NEW f, InfoOK(f), NEW i \in Instances, NEW to \in {"alive", "disposed", "no_writers"}
    PROVE  /\ Moves(f, Transition(f, i, to), i)
           /\ to # "alive" => Transition(f, i, to)[i].state # "alive"
<1> DEFINE e == Entry(f, i)
           v == IF to = "alive"
                  THEN [state |-> "alive", notify |-> e.notify /\ e.state # "no_writers"]
                  ELSE [e EXCEPT !.state = IF @ = "alive" THEN to ELSE @]
           g == Transition(f, i, to)
<1>1. g = Put(f, i, v)
  BY Zenon DEF Transition
<1>2. e \in InfoEntry /\ (e.notify => e.state = "no_writers")
  BY EntryFacts, Zenon
<1> HIDE DEF e
<1>3. v \in InfoEntry /\ (v.notify => v.state = "no_writers") /\ (to # "alive" => v.state # "alive")
  <2>1. CASE to = "alive"
    BY <1>2, <2>1, Zenon DEF InfoEntry
  <2>2. CASE to # "alive"
    BY <1>2, <2>2, Zenon DEF InfoEntry
  <2> QED
    BY <2>1, <2>2, Zenon
<1> HIDE DEF g, v
<1>4. /\ DOMAIN g = DOMAIN f \cup {i} /\ g[i] = v /\ (\A j \in DOMAIN f \ {i} : g[j] = f[j])
  BY <1>1, Zenon DEF Put
<1>5. InfoOK(g)
  BY <1>3, <1>4, Zenon DEF InfoOK
<1> QED
  BY <1>3, <1>4, <1>5, Zenon DEF g, Moves

\* What a change does to the states: only its instance moves, and it ends up ALIVE
\* only with a candidate left.
LEMMA AdvanceFacts ==
    ASSUME NEW f, InfoOK(f), NEW s \in Change, NEW c,
           s.i \in DOMAIN c, s.kind \notin {"unregister", "both"} => c[s.i] # {}
    PROVE  LET h == Advance(f, c, s)
           IN  /\ h = f \/ Moves(f, h, s.i)
               /\ s.i \in DOMAIN h /\ h[s.i].state = "alive" => c[s.i] # {}
<1> DEFINE g == CASE s.kind = "alive"               -> Transition(f, s.i, "alive")
                  [] s.kind \in {"dispose", "both"} -> Transition(f, s.i, "disposed")
                  [] s.kind = "unregister"          -> f
           h == Advance(f, c, s)
<1>1. s.i \in Instances /\ s.kind \in {"alive", "dispose", "unregister", "both"}
  BY HistoryAssumption, Zenon DEF Change
<1>2. h = IF s.kind \in {"unregister", "both"} /\ c[s.i] = {}
            THEN Transition(g, s.i, "no_writers") ELSE g
  BY Zenon DEF Advance
<1> HIDE DEF h
<1>3. g = Transition(f, s.i, "alive") \/ g = Transition(f, s.i, "disposed") \/ g = f
  BY <1>1, Zenon
<1> HIDE DEF g
<1>4. g = f \/ Moves(f, g, s.i)
  <2>1. Moves(f, Transition(f, s.i, "alive"), s.i)
    BY <1>1, TransitionFacts, Zenon
  <2>2. Moves(f, Transition(f, s.i, "disposed"), s.i)
    BY <1>1, TransitionFacts, Zenon
  <2> QED
    BY <1>3, <2>1, <2>2, Zenon
<1>5. CASE s.kind \in {"unregister", "both"} /\ c[s.i] = {}
  <2>1. h = Transition(g, s.i, "no_writers")
    BY <1>2, <1>5, Zenon
  <2>2. InfoOK(g)
    BY <1>4, Zenon DEF Moves
  <2>3. /\ Moves(g, Transition(g, s.i, "no_writers"), s.i)
        /\ Transition(g, s.i, "no_writers")[s.i].state # "alive"
    BY <1>1, <2>2, TransitionFacts, Zenon
  <2>4. Moves(g, h, s.i) /\ h[s.i].state # "alive"
    BY <2>1, <2>3, Zenon
  <2>5. Moves(f, h, s.i)
    BY <1>4, <2>4, Zenon DEF Moves
  <2> QED
    BY <2>4, <2>5, Zenon DEF h
<1>6. CASE ~(s.kind \in {"unregister", "both"} /\ c[s.i] = {})
  <2>1. h = g
    BY <1>2, <1>6, Zenon
  <2>2. c[s.i] # {}
    BY <1>6, Zenon
  <2> QED
    BY <1>4, <2>1, <2>2, Zenon DEF h
<1> QED
  BY <1>5, <1>6, Zenon

----------------------------------------------------------------------------
(* The filter *)

\* A change that is not held opens the window of its instance or empties its slot, and
\* schedules nothing.
LEMMA PassFilterFacts ==
    ASSUME FilterOK(filter), NEW s \in Change, NEW c, NEW filtered \in BOOLEAN
    PROVE  LET f == PassFilter(s, c, filtered)
           IN  /\ FilterOK(f) /\ DOMAIN filter \subseteq DOMAIN f
               /\ DOMAIN f \subseteq DOMAIN filter \cup {s.i}
               /\ \A j \in DOMAIN filter : /\ f[j].armed = filter[j].armed
                                           /\ j # s.i \/ ~Reopens(s, c, filtered)
                                                => f[j].open = filter[j].open
<1> DEFINE f == PassFilter(s, c, filtered)
           new == [open |-> TRUE, pending |-> {}, armed |-> FALSE]
<1>1. s.i \in Instances
  BY Zenon DEF Change
<1>2. \A j \in DOMAIN filter : filter[j] \in FilterEntry /\ (filter[j].pending # {} => filter[j].armed)
  BY Zenon DEF FilterOK
<1>3. CASE Reopens(s, c, filtered) /\ s.i \in DOMAIN filter
  <2>1. f = [filter EXCEPT ![s.i].open = TRUE]
    BY <1>3, Zenon DEF PassFilter, Reopens
  <2> HIDE DEF f
  <2>2. /\ DOMAIN f = DOMAIN filter /\ f[s.i] = [filter[s.i] EXCEPT !.open = TRUE]
        /\ \A j \in DOMAIN filter \ {s.i} : f[j] = filter[j]
    BY <1>3, <2>1, Zenon
  <2>3. /\ f[s.i] \in FilterEntry /\ f[s.i].pending = filter[s.i].pending
        /\ f[s.i].armed = filter[s.i].armed
    BY <1>2, <1>3, <2>2, Zenon DEF FilterEntry
  <2>4. FilterOK(f)
    BY <1>2, <1>3, <2>2, <2>3, Zenon DEF FilterOK
  <2> QED
    BY <1>3, <2>2, <2>3, <2>4, Zenon DEF f
<1>4. CASE Reopens(s, c, filtered) /\ s.i \notin DOMAIN filter
  <2>1. f = Put(filter, s.i, new)
    BY <1>4, Zenon DEF PassFilter
  <2>2. new \in FilterEntry /\ new.pending = {}
    BY Zenon DEF FilterEntry
  <2> HIDE DEF f, new
  <2>3. /\ DOMAIN f = DOMAIN filter \cup {s.i} /\ f[s.i] = new
        /\ \A j \in DOMAIN filter \ {s.i} : f[j] = filter[j]
    BY <2>1, Zenon DEF Put
  <2>4. FilterOK(f)
    BY <1>1, <1>2, <2>2, <2>3, Zenon DEF FilterOK
  <2> QED
    BY <1>4, <2>3, <2>4, Zenon DEF f
<1>5. CASE /\ ~Reopens(s, c, filtered)
           /\ filtered /\ Separation /\ s.kind # "alive" /\ s.i \in DOMAIN filter
  <2>1. f = [filter EXCEPT ![s.i].pending = {}]
    BY <1>5, Zenon DEF PassFilter
  <2> HIDE DEF f
  <2>2. /\ DOMAIN f = DOMAIN filter /\ f[s.i] = [filter[s.i] EXCEPT !.pending = {}]
        /\ \A j \in DOMAIN filter \ {s.i} : f[j] = filter[j]
    BY <1>5, <2>1, Zenon
  <2>3. /\ f[s.i] \in FilterEntry /\ f[s.i].pending = {}
        /\ f[s.i].armed = filter[s.i].armed /\ f[s.i].open = filter[s.i].open
    BY <1>2, <1>5, <2>2, Zenon DEF FilterEntry
  <2>4. FilterOK(f)
    BY <1>2, <1>5, <2>2, <2>3, Zenon DEF FilterOK
  <2> QED
    BY <1>5, <2>2, <2>3, <2>4, Zenon DEF f
<1>6. CASE /\ ~Reopens(s, c, filtered)
           /\ ~(filtered /\ Separation /\ s.kind # "alive" /\ s.i \in DOMAIN filter)
  <2>1. f = filter
    BY <1>6, Zenon DEF PassFilter
  <2> QED
    BY <2>1, Zenon
<1> QED
  BY <1>3, <1>4, <1>5, <1>6, Zenon

----------------------------------------------------------------------------
(* Capacity *)

\* A set of natural numbers that is not empty has a least element.
LEMMA LeastNumber ==
    ASSUME NEW S \in SUBSET Nat, S # {}
    PROVE  Min(S) \in S /\ \A y \in S : Min(S) <= y
<1>1. PICK x \in S : \A y \in S : ~(<<y, x>> \in OpToRel(<, Nat))
  BY NatLessThanWellFounded, WFMin, Zenon
<1>2. \A y \in S : x <= y
  <2> SUFFICES ASSUME NEW y \in S PROVE x <= y
    BY Zenon
  <2>1. ~(<<y, x>> \in OpToRel(<, Nat))
    BY <1>1, Zenon
  <2>2. x \in Nat /\ y \in Nat
    BY Zenon
  <2>3. ~(y < x)
    BY <2>1, <2>2, Zenon DEF OpToRel
  <2> QED
    BY <2>2, <2>3
<1> QED
  BY <1>2, Zenon DEF Min

\* Some change came first.
LEMMA SomeFirst ==
    ASSUME NEW q \in SUBSET Stored, q # {}
    PROVE  First(q) # {} /\ First(q) \subseteq q
<1> DEFINE S == {s.at : s \in q}
<1>1. S \in SUBSET Nat /\ S # {}
  BY Zenon DEF Stored
<1>2. Min(S) \in S /\ \A y \in S : Min(S) <= y
  BY <1>1, LeastNumber, Zenon
<1>3. PICK s \in q : s.at = Min(S)
  BY <1>2, Zenon
<1>4. \A t \in q : s.at <= t.at
  BY <1>2, <1>3, Zenon
<1> QED
  BY <1>4, Zenon DEF First

\* A set takes one more element if it was not full or lost one.
LEMMA OneMoreFits ==
    ASSUME NEW S, IsFiniteSet(S), NEW R \in SUBSET S, NEW x, NEW k \in Nat,
           Cardinality(S) <= k, Cardinality(S) < k \/ R # S
    PROVE  IsFiniteSet(R \cup {x}) /\ Cardinality(R \cup {x}) <= k
<1>1. /\ IsFiniteSet(R) /\ Cardinality(R) <= Cardinality(S)
      /\ Cardinality(S) = Cardinality(R) => S = R
  BY FS_Subset, Zenon
<1>2. Cardinality(S) \in Nat /\ Cardinality(R) \in Nat
  BY <1>1, FS_CardinalityType, Zenon
<1>3. Cardinality(R) < k
  BY <1>1, <1>2
<1>4. /\ IsFiniteSet(R \cup {x})
      /\ Cardinality(R \cup {x}) = IF x \in R THEN Cardinality(R) ELSE Cardinality(R) + 1
  BY <1>1, FS_AddElement, Zenon
<1> QED
  BY <1>2, <1>3, <1>4

\* A set loses an element and gets another one.
LEMMA ReplacedFits ==
    ASSUME NEW S, IsFiniteSet(S), NEW E, E \cap S # {}, NEW x, NEW k \in Nat, Cardinality(S) <= k
    PROVE  IsFiniteSet((S \ E) \cup {x}) /\ Cardinality((S \ E) \cup {x}) <= k
<1>1. (S \ E) \in SUBSET S /\ S \ E # S
  BY Zenon
<1> QED
  BY <1>1, OneMoreFits, Zenon

LEMMA QosTypes ==
    ASSUME TypeInv
    PROVE  /\ MaxSamples \in Nat \ {0} /\ MaxInstances \in Nat \ {0} /\ MaxPerInstance \in Nat \ {0}
           /\ AutoRemove \in BOOLEAN
BY HistoryAssumption, Zenon DEF TypeInv, MaxSamples, MaxInstances, MaxPerInstance, AutoRemove

\* A change that finds room finds it in the store, in its instance and in instance_map;
\* a bucket that is given away is empty and belongs to another instance.
Room(i, room) ==
    /\ room.evict \subseteq store /\ room.drop \subseteq buckets /\ i \notin room.drop
    /\ \A j \in room.drop : OfInstance(j) = {}
    /\ room.ok =>
         /\ Cardinality(store) < MaxSamples \/ room.evict # {}
         /\ Cardinality(OfInstance(i)) < MaxPerInstance \/ room.evict \cap OfInstance(i) # {}
         /\ i \in buckets \/ Cardinality(buckets) < MaxInstances \/ room.drop # {}

LEMMA RoomFacts ==
    ASSUME TypeInv, NEW i \in Instances, NEW c
    PROVE  Room(i, EnsureCapacity(i, c))
<1> DEFINE reuse == IF NoBucketLeft(i) /\ Unused(c) # {} THEN {Min(Unused(c))} ELSE {}
           out(q, r) == [ok |-> AutoRemove, drop |-> r,
                         evict |-> IF AutoRemove THEN First(q) ELSE {}]
           rejected == [ok |-> FALSE, evict |-> {}, drop |-> {}]
           room == EnsureCapacity(i, c)
<1>1. /\ MaxSamples \in Nat \ {0} /\ MaxInstances \in Nat \ {0} /\ MaxPerInstance \in Nat \ {0}
      /\ AutoRemove \in BOOLEAN
  BY QosTypes, Zenon
<1>2. /\ store \subseteq Stored /\ IsFiniteSet(store) /\ buckets \subseteq Instances
      /\ IsFiniteSet(buckets) /\ \A s \in store : s.change.i \in buckets
  BY Zenon DEF TypeInv, StoreOK
<1>3. /\ OfInstance(i) \in SUBSET store
      /\ Cardinality(store) \in Nat /\ Cardinality(OfInstance(i)) \in Nat /\ Cardinality(buckets) \in Nat
  <2>1. OfInstance(i) \in SUBSET store
    BY Zenon DEF OfInstance
  <2>2. IsFiniteSet(OfInstance(i))
    BY <1>2, <2>1, FS_Subset, Zenon
  <2> QED
    BY <1>2, <2>1, <2>2, FS_CardinalityType, Zenon
<1>4. reuse \subseteq Unused(c) /\ (reuse # {} => i \notin buckets)
  <2>1. Unused(c) # {} => Min(Unused(c)) \in Unused(c)
    <3>1. Unused(c) \in SUBSET Nat
      BY <1>2, HistoryAssumption, Zenon DEF Unused
    <3> QED
      BY <3>1, LeastNumber, Zenon
  <2> QED
    BY <2>1, Zenon DEF NoBucketLeft
<1>5. /\ reuse \subseteq buckets /\ i \notin reuse /\ \A j \in reuse : OfInstance(j) = {}
  BY <1>4, Zenon DEF Unused
<1>6. room = IF BucketFull(i) THEN out(OfInstance(i), {})
             ELSE IF NoBucketLeft(i) /\ reuse = {} THEN rejected
             ELSE IF Cardinality(store) >= MaxSamples THEN out(store, reuse)
             ELSE [ok |-> TRUE, evict |-> {}, drop |-> reuse]
  BY Zenon DEF EnsureCapacity
<1>7. ASSUME NEW q \in SUBSET Stored, q # {}, NEW r
      PROVE  /\ out(q, r).drop = r /\ out(q, r).evict \subseteq q
             /\ out(q, r).ok => out(q, r).evict # {}
  <2>1. First(q) # {} /\ First(q) \subseteq q
    BY <1>7, SomeFirst, Zenon
  <2> QED
    BY <1>1, <2>1, Zenon
<1> HIDE DEF reuse, out, room
<1>8. CASE BucketFull(i)
  <2>1. i \in buckets /\ OfInstance(i) # {}
    BY <1>1, <1>8, FS_EmptySet DEF BucketFull
  <2>2. room = out(OfInstance(i), {})
    BY <1>6, <1>8, Zenon
  <2>3. room.drop = {} /\ room.evict \subseteq OfInstance(i) /\ (room.ok => room.evict # {})
    BY <1>2, <1>3, <1>7, <2>1, <2>2, Zenon
  <2> QED
    BY <1>3, <2>1, <2>3, Zenon DEF Room, room
<1>9. CASE ~BucketFull(i) /\ NoBucketLeft(i) /\ reuse = {}
  <2>1. room = rejected
    BY <1>6, <1>9, Zenon
  <2>2. room.evict = {} /\ room.drop = {} /\ room.ok = FALSE
    BY <2>1, Zenon
  <2> QED
    BY <2>2, Zenon DEF Room, room
<1>10. CASE ~BucketFull(i) /\ ~(NoBucketLeft(i) /\ reuse = {})
  <2>1. Cardinality(OfInstance(i)) < MaxPerInstance
    <3>1. CASE i \in buckets
      BY <1>1, <1>3, <1>10, <3>1 DEF BucketFull
    <3>2. CASE i \notin buckets
      <4>1. OfInstance(i) = {}
        BY <1>2, <3>2, Zenon DEF OfInstance
      <4> QED
        BY <1>1, <4>1, FS_EmptySet
    <3> QED
      BY <3>1, <3>2, Zenon
  <2>2. i \in buckets \/ Cardinality(buckets) < MaxInstances \/ reuse # {}
    BY <1>1, <1>3, <1>10 DEF NoBucketLeft
  <2>3. CASE Cardinality(store) >= MaxSamples
    <3>1. room = out(store, reuse)
      BY <1>6, <1>10, <2>3, Zenon
    <3>2. store # {}
      BY <1>1, <2>3, FS_EmptySet
    <3>3. room.drop = reuse /\ room.evict \subseteq store /\ (room.ok => room.evict # {})
      BY <1>2, <1>7, <3>1, <3>2, ZenonT(30)
    <3> QED
      BY <1>5, <2>1, <2>2, <3>3, Zenon DEF Room, room
  <2>4. CASE ~(Cardinality(store) >= MaxSamples)
    <3>1. room = [ok |-> TRUE, evict |-> {}, drop |-> reuse]
      BY <1>6, <1>10, <2>4, Zenon
    <3>2. room.evict = {} /\ room.drop = reuse /\ Cardinality(store) < MaxSamples
      BY <1>1, <1>3, <2>4, <3>1
    <3> QED
      BY <1>5, <2>1, <2>2, <3>2, Zenon DEF Room, room
  <2> QED
    BY <2>3, <2>4, Zenon
<1> QED
  BY <1>8, <1>9, <1>10, Zenon

----------------------------------------------------------------------------
(* A change is held, refused or stored *)

\* The store only lost changes.
LEMMA StoreKept ==
    ASSUME TypeInv, LimitsKept, UNCHANGED <<qos, added, buckets>>, store' \subseteq store
    PROVE  StoreOK' /\ LimitsKept'
<1>1. /\ MaxSamples \in Nat /\ MaxPerInstance \in Nat
      /\ MaxSamples' = MaxSamples /\ MaxPerInstance' = MaxPerInstance /\ MaxInstances' = MaxInstances
  BY QosTypes, Zenon DEF MaxSamples, MaxPerInstance, MaxInstances
<1>2. StoreOK /\ IsFiniteSet(store)
  BY Zenon DEF TypeInv, StoreOK
<1>3. /\ IsFiniteSet(store') /\ Cardinality(store') <= Cardinality(store)
      /\ Cardinality(store) \in Nat /\ Cardinality(store') \in Nat
  BY <1>2, FS_Subset, FS_CardinalityType, Zenon
<1>4. Cardinality(store') <= MaxSamples'
  BY <1>1, <1>3 DEF LimitsKept
<1>5. ASSUME NEW i \in Instances PROVE Cardinality(OfInstance(i)') <= MaxPerInstance'
  <2>1. OfInstance(i)' \in SUBSET OfInstance(i) /\ OfInstance(i) \in SUBSET store
    BY Zenon DEF OfInstance
  <2>2. IsFiniteSet(OfInstance(i)) /\ Cardinality(OfInstance(i)) <= MaxPerInstance
    BY <1>2, <2>1, FS_Subset, Zenon DEF LimitsKept
  <2>3. /\ Cardinality(OfInstance(i)') <= Cardinality(OfInstance(i))
        /\ Cardinality(OfInstance(i)) \in Nat /\ Cardinality(OfInstance(i)') \in Nat
    BY <2>1, <2>2, FS_Subset, FS_CardinalityType, Zenon
  <2> QED
    BY <1>1, <2>2, <2>3
<1>6. StoreOK'
  BY <1>2, <1>3, Zenon DEF StoreOK
<1>7. Cardinality(buckets') <= MaxInstances'
  BY <1>1, Zenon DEF LimitsKept
<1> QED
  BY <1>4, <1>5, <1>6, <1>7, Zenon DEF LimitsKept

LEMMA AliveEnlisted ==
    ASSUME CandOK(cand), AliveHasWriter, NEW s \in Change, UNCHANGED info,
           cand' = Enlist(cand, s.i, s.w), demoted' = demoted \ {s.i}
    PROVE  AliveHasWriter' /\ CandOK(cand)'
<1>1. /\ CandOK(cand') /\ DOMAIN cand' = DOMAIN cand \cup {s.i} /\ s.w \in cand'[s.i]
      /\ \A j \in DOMAIN cand \ {s.i} : cand'[j] = cand[j]
  BY EnlistFacts, Zenon
<1>2. ASSUME NEW i \in DOMAIN info, info[i].state = "alive"
      PROVE  (i \in DOMAIN cand' /\ cand'[i] # {}) \/ i \in demoted'
  <2>1. (i \in DOMAIN cand /\ cand[i] # {}) \/ i \in demoted
    BY <1>2, Zenon DEF AliveHasWriter
  <2> QED
    BY <1>1, <2>1, Zenon
<1> QED
  BY <1>1, <1>2, Zenon DEF AliveHasWriter

\* A change that found room keeps the limits.
LEMMA StoredFits ==
    ASSUME TypeInv, LimitsKept, NEW s \in Change, NEW room, Room(s.i, room), room.ok,
           store' = (store \ room.evict) \cup {[change |-> s, at |-> added + 1]},
           added' = added + 1, buckets' = (buckets \ room.drop) \cup {s.i}, UNCHANGED qos
    PROVE  StoreOK' /\ LimitsKept'
<1> DEFINE r == [change |-> s, at |-> added + 1]
<1>1. /\ MaxSamples \in Nat /\ MaxPerInstance \in Nat /\ MaxInstances \in Nat
      /\ MaxSamples' = MaxSamples /\ MaxPerInstance' = MaxPerInstance /\ MaxInstances' = MaxInstances
  BY QosTypes, Zenon DEF MaxSamples, MaxPerInstance, MaxInstances
<1>2. /\ store \subseteq Stored /\ IsFiniteSet(store) /\ added \in Nat
      /\ buckets \subseteq Instances /\ IsFiniteSet(buckets) /\ \A x \in store : x.change.i \in buckets
  BY Zenon DEF TypeInv, StoreOK
<1>3. s.i \in Instances /\ r \in Stored /\ r.change = s /\ added' \in Nat
  BY <1>2 DEF Change, Stored
<1> HIDE DEF r
<1>4. store' = (store \ room.evict) \cup {r}
  BY Zenon DEF r
<1>5. /\ room.evict \subseteq store /\ room.drop \subseteq buckets /\ s.i \notin room.drop
      /\ \A j \in room.drop : OfInstance(j) = {}
      /\ Cardinality(store) < MaxSamples \/ room.evict # {}
      /\ Cardinality(OfInstance(s.i)) < MaxPerInstance \/ room.evict \cap OfInstance(s.i) # {}
      /\ s.i \in buckets \/ Cardinality(buckets) < MaxInstances \/ room.drop # {}
  BY Zenon DEF Room
<1>6. Cardinality(store) <= MaxSamples /\ Cardinality(buckets) <= MaxInstances
  BY Zenon DEF LimitsKept
<1>7. IsFiniteSet(store') /\ Cardinality(store') <= MaxSamples'
  <2>1. Cardinality(store) < MaxSamples \/ store \ room.evict # store
    BY <1>5, Zenon
  <2>2. (store \ room.evict) \in SUBSET store
    BY Zenon
  <2>3. IsFiniteSet((store \ room.evict) \cup {r}) /\ Cardinality((store \ room.evict) \cup {r}) <= MaxSamples
    BY <1>1, <1>2, <1>6, <2>1, <2>2, OneMoreFits, Zenon
  <2> QED
    BY <1>1, <1>4, <2>3, Zenon
<1>8. ASSUME NEW i \in Instances PROVE Cardinality(OfInstance(i)') <= MaxPerInstance'
  <2> DEFINE q == OfInstance(i)
             R == q \ room.evict
  <2>1. q \in SUBSET store /\ R \in SUBSET q
    BY Zenon DEF OfInstance
  <2>2. IsFiniteSet(q) /\ Cardinality(q) <= MaxPerInstance
    BY <1>2, <2>1, FS_Subset, Zenon DEF LimitsKept
  <2>3. CASE i = s.i
    <3>1. q' = R \cup {r}
      BY <1>3, <1>4, <2>3, Zenon DEF OfInstance
    <3>2. Cardinality(q) < MaxPerInstance \/ R # q
      BY <1>5, <2>3, Zenon
    <3> HIDE DEF q, R
    <3>3. Cardinality(R \cup {r}) <= MaxPerInstance
      BY <1>1, <2>1, <2>2, <3>2, OneMoreFits, Zenon
    <3> QED
      BY <1>1, <3>1, <3>3, Zenon DEF q
  <2>4. CASE i # s.i
    <3>1. q' = R
      BY <1>3, <1>4, <2>4, Zenon DEF OfInstance
    <3> HIDE DEF q, R
    <3>2. Cardinality(R) <= Cardinality(q) /\ IsFiniteSet(R)
      BY <2>1, <2>2, FS_Subset, Zenon
    <3>3. Cardinality(R) \in Nat /\ Cardinality(q) \in Nat
      BY <2>2, <3>2, FS_CardinalityType, Zenon
    <3> QED
      BY <1>1, <2>2, <3>1, <3>2, <3>3 DEF q
  <2> QED
    BY <2>3, <2>4, Zenon
<1>9. IsFiniteSet(buckets') /\ Cardinality(buckets') <= MaxInstances'
  <2> DEFINE B == buckets \ room.drop
  <2>1. B \in SUBSET buckets /\ buckets' = B \cup {s.i}
    BY Zenon
  <2>2. CASE s.i \in buckets
    <3>1. buckets' \in SUBSET buckets
      BY <2>2, Zenon
    <3>2. Cardinality(buckets') <= Cardinality(buckets) /\ IsFiniteSet(buckets')
      BY <1>2, <3>1, FS_Subset, Zenon
    <3>3. Cardinality(buckets') \in Nat /\ Cardinality(buckets) \in Nat
      BY <1>2, <3>2, FS_CardinalityType, Zenon
    <3> QED
      BY <1>1, <1>6, <3>2, <3>3
  <2>3. CASE s.i \notin buckets
    <3>1. Cardinality(buckets) < MaxInstances \/ B # buckets
      BY <1>5, <2>3, Zenon
    <3> HIDE DEF B
    <3>2. IsFiniteSet(B \cup {s.i}) /\ Cardinality(B \cup {s.i}) <= MaxInstances
      BY <1>1, <1>2, <1>6, <2>1, <3>1, OneMoreFits, Zenon
    <3> QED
      BY <1>1, <2>1, <3>2, Zenon
  <2> QED
    BY <2>2, <2>3, Zenon
<1>10. StoreOK'
  <2>1. \A x \in store' : x.change.i \in buckets'
    <3> SUFFICES ASSUME NEW x \in store' PROVE x.change.i \in buckets'
      BY Zenon
    <3>1. CASE x = r
      BY <1>3, <3>1, Zenon
    <3>2. CASE x \in store
      <4>1. x \in OfInstance(x.change.i)
        BY <3>2, Zenon DEF OfInstance
      <4> QED
        BY <1>2, <1>5, <3>2, <4>1, Zenon
    <3> QED
      BY <1>4, <3>1, <3>2, Zenon
  <2>2. store' \subseteq Stored /\ buckets' \subseteq Instances
    BY <1>2, <1>3, <1>4, Zenon
  <2> QED
    BY <1>3, <1>7, <1>9, <2>1, <2>2, Zenon DEF StoreOK
<1> QED
  BY <1>7, <1>8, <1>9, <1>10, Zenon DEF LimitsKept

\* So does a change that is rejected, after the bucket of an unused instance was given up.
LEMMA RejectedFits ==
    ASSUME TypeInv, LimitsKept, NEW i, NEW room, Room(i, room),
           UNCHANGED <<qos, store, added>>, buckets' = buckets \ room.drop
    PROVE  StoreOK' /\ LimitsKept'
<1>1. /\ MaxInstances \in Nat
      /\ MaxSamples' = MaxSamples /\ MaxPerInstance' = MaxPerInstance /\ MaxInstances' = MaxInstances
  BY QosTypes, Zenon DEF MaxSamples, MaxPerInstance, MaxInstances
<1>2. StoreOK /\ IsFiniteSet(buckets) /\ buckets' \in SUBSET buckets
  BY Zenon DEF TypeInv, StoreOK
<1>3. /\ IsFiniteSet(buckets') /\ Cardinality(buckets') <= Cardinality(buckets)
      /\ Cardinality(buckets) \in Nat /\ Cardinality(buckets') \in Nat
  BY <1>2, FS_Subset, FS_CardinalityType, Zenon
<1>4. Cardinality(buckets') <= MaxInstances'
  BY <1>1, <1>3 DEF LimitsKept
<1>5. \A x \in store : x.change.i \in buckets'
  <2> SUFFICES ASSUME NEW x \in store PROVE x.change.i \in buckets'
    BY Zenon
  <2>1. x \in OfInstance(x.change.i)
    BY Zenon DEF OfInstance
  <2> QED
    BY <1>2, <2>1, Zenon DEF StoreOK, Room
<1>6. StoreOK'
  BY <1>2, <1>3, <1>5, Zenon DEF StoreOK
<1>7. \A j : OfInstance(j)' = OfInstance(j)
  BY Zenon DEF OfInstance
<1> QED
  BY <1>1, <1>4, <1>6, <1>7, Zenon DEF LimitsKept

\* A change that is not held leaves the timers in order: it opens a window only when
\* no delivery is scheduled, and remembers the timers of the instances it forgets.
LEMMA SeparationAdded ==
    ASSUME TypeInv, SeparationInv, NEW s \in Change, NEW c, NEW filtered \in BOOLEAN, NEW D, NEW S,
           filtered => ~Holds(s, c),
           D \subseteq S, Reopens(s, c, filtered) => s.i \in S,
           S \subseteq D \cup (IF Reopens(s, c, filtered) THEN {s.i} ELSE {}),
           DOMAIN filter' = DOMAIN PassFilter(s, c, filtered) \ D,
           \A j \in DOMAIN filter' : filter'[j] = PassFilter(s, c, filtered)[j],
           \A j \in Instances : window[j] = "off" \/ j \notin S => window'[j] = window[j],
           recycled' = recycled \cup Forgotten(D), UNCHANGED early,
           thread' = thread \/ thread' = Idle
    PROVE  SeparationInv'
<1> DEFINE f == PassFilter(s, c, filtered)
<1>1. /\ DOMAIN filter \subseteq DOMAIN f
      /\ \A j \in DOMAIN filter : /\ f[j].armed = filter[j].armed
                                  /\ j # s.i \/ ~Reopens(s, c, filtered)
                                       => f[j].open = filter[j].open
  <2>1. FilterOK(filter)
    BY Zenon DEF TypeInv
  <2> QED
    BY <2>1, PassFilterFacts
<1> HIDE DEF f
<1>2. /\ DOMAIN filter' = DOMAIN f \ D /\ \A j \in DOMAIN filter' : filter'[j] = f[j]
  BY Zenon DEF f
<1>3. ASSUME NEW i \in Instances \ recycled' PROVE TimerInv(i)'
  <2>1. i \in Instances \ recycled /\ i \notin Forgotten(D) /\ TimerInv(i)
    BY Zenon DEF SeparationInv
  <2>2. thread'.at = "held" => thread' = thread
    BY DEF Idle
  <2>3. /\ window[i] # "off" => window[i] = "fresh" /\ Armed(i)
        /\ thread.at = "held" /\ thread.i = i => window[i] = "off" /\ Armed(i) /\ ~filter[i].open
    BY <2>1, Zenon DEF TimerInv
  <2>4. CASE i \in S
    <3>1. window[i] = "off" /\ ~(thread.at = "held" /\ thread.i = i)
      <4>1. CASE i \in D
        BY <2>1, <2>3, <4>1, Zenon DEF Forgotten, Armed
      <4>2. CASE Reopens(s, c, filtered) /\ i = s.i
        <5>1. ~Armed(i)
          BY <4>2, Zenon DEF Reopens, Holds, Armed
        <5> QED
          BY <2>3, <5>1, Zenon
      <4> QED
        BY <2>4, <4>1, <4>2, Zenon
    <3>2. window'[i] = "off"
      BY <2>1, <3>1, Zenon
    <3> QED
      BY <2>2, <3>1, <3>2, Zenon DEF TimerInv
  <2>5. CASE i \notin S
    <3>1. window'[i] = window[i]
      BY <2>1, <2>5, Zenon
    <3>2. Armed(i) => Armed(i)' /\ (~filter[i].open => ~filter'[i].open)
      BY <1>1, <1>2, <2>5, Zenon DEF Armed
    <3> QED
      BY <2>2, <2>3, <3>1, <3>2, Zenon DEF TimerInv
  <2> QED
    BY <2>4, <2>5, Zenon
<1>4. early' \subseteq recycled'
  BY Zenon DEF SeparationInv
<1> QED
  BY <1>3, <1>4, Zenon DEF SeparationInv

LEMMA OutdateFacts ==
    ASSUME TypeInv, NEW S
    PROVE  /\ Outdate(S) \in [Instances -> {"off", "fresh", "stale"}]
           /\ \A j \in Instances : window[j] = "off" \/ j \notin S => Outdate(S)[j] = window[j]
<1>1. window \in [Instances -> {"off", "fresh", "stale"}]
  BY Zenon DEF TypeInv
<1> QED
  BY <1>1, Zenon DEF Outdate

LEMMA FollowTypes ==
    ASSUME TypeInv, NEW f, NEW g, NEW alive \in SUBSET Instances, Follow(f, g, alive)
    PROVE  tracked' \subseteq Instances /\ purge' \in [PurgeStates -> SUBSET Instances]
<1>1. tracked \subseteq Instances
  BY Zenon DEF TypeInv
<1> QED
  BY <1>1, Zenon DEF Follow

LEMMA ThreadKept ==
    ASSUME TypeInv, thread' = thread \/ thread' = Idle
    PROVE  ThreadOK'
<1>1. ThreadOK
  BY Zenon DEF TypeInv
<1> QED
  BY <1>1, Zenon DEF ThreadOK, Idle

\* A sample is held.
LEMMA HoldStep ==
    ASSUME Inv, NEW s \in Change, Hold(s, Enlist(cand, s.i, s.w)),
           arrived' \in 0..MaxArrivals, UNCHANGED <<qos, thread, missed>>
    PROVE  Inv'
<1> DEFINE e == [open |-> filter[s.i].open, pending |-> {s}, armed |-> TRUE]
<1> USE DEF Inv
<1>1. /\ cand' = Enlist(cand, s.i, s.w) /\ demoted' = demoted \ {s.i} /\ s.i \in DOMAIN filter
      /\ window' = IF filter[s.i].armed THEN window ELSE [window EXCEPT ![s.i] = "fresh"]
      /\ UNCHANGED <<store, added, buckets, info, purge, tracked, early, recycled>>
  BY Zenon DEF Hold, Holds
<1>2. filter' = [filter EXCEPT ![s.i] = e]
  BY Zenon DEF Hold
<1>3. CandOK(cand) /\ FilterOK(filter) /\ s.i \in Instances
  BY Zenon DEF TypeInv, FilterOK, Hold, Holds
<1>4. AliveHasWriter' /\ CandOK(cand)'
  BY <1>1, <1>3, AliveEnlisted, Zenon
<1>5. StoreOK' /\ LimitsKept'
  BY <1>1, StoreKept, Zenon
<1>6. e \in FilterEntry /\ e.armed /\ e.open = filter[s.i].open
  BY <1>1, <1>3, Zenon DEF FilterOK, FilterEntry
<1> HIDE DEF e
<1>7. /\ DOMAIN filter' = DOMAIN filter /\ filter'[s.i] = e
      /\ \A j \in DOMAIN filter \ {s.i} : filter'[j] = filter[j]
  BY <1>1, <1>2, Zenon
<1>8. FilterOK(filter)'
  BY <1>3, <1>6, <1>7, Zenon DEF FilterOK
<1>9. /\ window' \in [Instances -> {"off", "fresh", "stale"}]
      /\ \A j \in Instances : window'[j] = IF j = s.i /\ ~filter[j].armed THEN "fresh" ELSE window[j]
  BY <1>1, <1>3, Zenon DEF TypeInv
<1>10. TypeInv'
  BY <1>1, <1>4, <1>5, <1>8, <1>9, ThreadKept, Zenon DEF TypeInv
<1>11. ASSUME NEW i \in Instances \ recycled' PROVE TimerInv(i)'
  <2>1. /\ window[i] # "off" => window[i] = "fresh" /\ Armed(i)
        /\ thread.at = "held" /\ thread.i = i => window[i] = "off" /\ Armed(i) /\ ~filter[i].open
    BY <1>1, Zenon DEF TimerInv, SeparationInv
  <2>2. CASE i # s.i
    BY <1>7, <1>9, <2>1, <2>2, Zenon DEF TimerInv, Armed
  <2>3. CASE i = s.i /\ filter[i].armed
    BY <1>1, <1>6, <1>7, <1>9, <2>1, <2>3, Zenon DEF TimerInv, Armed
  <2>4. CASE i = s.i /\ ~filter[i].armed
    BY <1>1, <1>6, <1>7, <1>9, <2>1, <2>4, Zenon DEF TimerInv, Armed
  <2> QED
    BY <2>2, <2>3, <2>4, Zenon
<1>12. SeparationInv'
  BY <1>1, <1>11, Zenon DEF SeparationInv
<1> QED
  BY <1>4, <1>5, <1>10, <1>12, Zenon

\* A change of a writer that does not own the instance.
LEMMA RefuseStep ==
    ASSUME Inv, NEW s \in Change, NEW filtered \in BOOLEAN,
           Refuse(s, Enlist(cand, s.i, s.w), filtered),
           filtered => ~Holds(s, Enlist(cand, s.i, s.w)),
           arrived' \in 0..MaxArrivals, UNCHANGED <<qos, missed>>, thread' = thread \/ thread' = Idle
    PROVE  Inv'
<1> DEFINE c == Enlist(cand, s.i, s.w)
           f == PassFilter(s, c, filtered)
<1> USE DEF Inv
<1>1. /\ cand' = Enlist(cand, s.i, s.w) /\ demoted' = demoted \ {s.i} /\ filter' = f
      /\ UNCHANGED <<store, added, buckets, info, window, purge, tracked, early, recycled>>
      /\ ~Reopens(s, c, filtered)
  BY Zenon DEF Refuse, NotOwner, Reopens
<1>2. CandOK(cand) /\ FilterOK(filter)
  BY Zenon DEF TypeInv
<1>3. AliveHasWriter' /\ CandOK(cand)'
  BY <1>1, <1>2, AliveEnlisted, Zenon
<1>4. StoreOK' /\ LimitsKept'
  BY <1>1, StoreKept, Zenon
<1>5. FilterOK(f)
  BY <1>2, PassFilterFacts, Zenon
<1>6. FilterOK(filter)'
  BY <1>1, <1>5, Zenon
<1>7. TypeInv'
  BY <1>1, <1>3, <1>4, <1>6, ThreadKept, Zenon DEF TypeInv
<1>8. SeparationInv'
  <2>1. recycled' = recycled \cup Forgotten({})
    BY <1>1, Zenon DEF Forgotten
  <2>2. /\ filtered => ~Holds(s, c)
        /\ DOMAIN filter' = DOMAIN PassFilter(s, c, filtered) \ {}
        /\ \A j \in DOMAIN filter' : filter'[j] = PassFilter(s, c, filtered)[j]
    BY <1>1, Zenon
  <2>3. PICK N : N = {}
    BY Zenon
  <2>4. /\ N \subseteq N \cup (IF Reopens(s, c, filtered) THEN {s.i} ELSE {})
        /\ DOMAIN filter' = DOMAIN PassFilter(s, c, filtered) \ N
        /\ \A j \in Instances : window[j] = "off" \/ j \notin N => window'[j] = window[j]
        /\ recycled' = recycled \cup Forgotten(N)
    BY <1>1, <2>1, <2>2, <2>3, Zenon
  <2>5. N \subseteq N /\ (Reopens(s, c, filtered) => s.i \in N) /\ UNCHANGED early
    BY <1>1, Zenon
  <2> HIDE DEF c, f
  <2> QED
    BY <2>2, <2>4, <2>5, SeparationAdded, ZenonT(30)
<1> QED
  BY <1>3, <1>4, <1>7, <1>8, Zenon

\* A change is applied to its instance, and stored or rejected.
LEMMA StoreStep ==
    ASSUME Inv, NEW s \in Change, NEW filtered \in BOOLEAN,
           Store(s, Enlist(cand, s.i, s.w), filtered),
           filtered => ~Holds(s, Enlist(cand, s.i, s.w)),
           arrived' \in 0..MaxArrivals, UNCHANGED <<qos, missed>>, thread' = thread \/ thread' = Idle
    PROVE  Inv'
<1> DEFINE c == Enlist(cand, s.i, s.w)
           c2 == Revoke(c, s)
           f == PassFilter(s, c, filtered)
           next == Advance(info, c2, s)
           room == EnsureCapacity(s.i, c2)
           S == room.drop \cup IF Reopens(s, c, filtered) THEN {s.i} ELSE {}
<1> USE DEF Inv
<1>1. s.i \in Instances
  BY Zenon DEF Change
<1>2. /\ cand' = c2 /\ info' = Drop(next, room.drop) /\ filter' = Drop(f, room.drop)
      /\ Follow(info, next, IF s.kind = "alive" THEN {s.i} ELSE {})
      /\ window' = Outdate(S) /\ recycled' = recycled \cup Forgotten(room.drop)
      /\ demoted' = demoted \ {s.i} /\ UNCHANGED early
  BY Zenon DEF Store
<1>3. \/ /\ room.ok
         /\ store' = (store \ room.evict) \cup {[change |-> s, at |-> added + 1]}
         /\ added' = added + 1 /\ buckets' = (buckets \ room.drop) \cup {s.i}
      \/ buckets' = buckets \ room.drop /\ UNCHANGED <<store, added>>
  BY Zenon DEF Store
<1>4. CandOK(cand) /\ FilterOK(filter) /\ InfoOK(info)
  BY Zenon DEF TypeInv
<1>5. /\ CandOK(c) /\ DOMAIN c = DOMAIN cand \cup {s.i} /\ s.w \in c[s.i]
      /\ \A j \in DOMAIN cand \ {s.i} : c[j] = cand[j]
  BY <1>4, EnlistFacts, Zenon
<1> HIDE DEF c
<1>6. /\ CandOK(c2) /\ DOMAIN c2 = DOMAIN c
      /\ s.kind \notin {"unregister", "both"} => c2 = c
      /\ \A j \in DOMAIN c \ {s.i} : c2[j] = c[j]
  <2>1. s.i \in DOMAIN c
    BY <1>5, Zenon
  <2> QED
    BY <1>5, <2>1, RevokeFacts, Zenon
<1> HIDE DEF c2
<1>7. /\ next = info \/ Moves(info, next, s.i)
      /\ s.i \in DOMAIN next /\ next[s.i].state = "alive" => c2[s.i] # {}
  <2>1. s.i \in DOMAIN c2 /\ (s.kind \notin {"unregister", "both"} => c2[s.i] # {})
    BY <1>5, <1>6, Zenon
  <2> QED
    BY <1>4, <2>1, AdvanceFacts, Zenon
<1> HIDE DEF next
<1>8. Room(s.i, room)
  BY <1>1, RoomFacts, Zenon
<1> HIDE DEF room
<1>9. StoreOK' /\ LimitsKept'
  <2>1. CASE /\ room.ok
             /\ store' = (store \ room.evict) \cup {[change |-> s, at |-> added + 1]}
             /\ added' = added + 1 /\ buckets' = (buckets \ room.drop) \cup {s.i}
    BY <1>8, <2>1, StoredFits, Zenon
  <2>2. CASE buckets' = buckets \ room.drop /\ UNCHANGED <<store, added>>
    BY <1>8, <2>2, RejectedFits, Zenon
  <2> QED
    BY <1>3, <2>1, <2>2, Zenon
<1>10. /\ InfoOK(next) /\ DOMAIN next \subseteq DOMAIN info \cup {s.i}
       /\ \A j \in DOMAIN next \ {s.i} : j \in DOMAIN info /\ next[j] = info[j]
  BY <1>4, <1>7, Zenon DEF Moves
<1>11. DOMAIN info' \subseteq DOMAIN next /\ \A j \in DOMAIN info' : info'[j] = next[j]
  <2>1. /\ DOMAIN Drop(next, room.drop) = DOMAIN next \ room.drop
        /\ \A j \in DOMAIN next \ room.drop : Drop(next, room.drop)[j] = next[j]
    BY DropFacts, Zenon
  <2> QED
    BY <1>2, <2>1, Zenon
<1>12. AliveHasWriter'
  <2>1. ASSUME NEW i \in DOMAIN info', info'[i].state = "alive"
        PROVE  (i \in DOMAIN cand' /\ cand'[i] # {}) \/ i \in demoted'
    <3>1. CASE i = s.i
      BY <1>2, <1>5, <1>6, <1>7, <1>11, <2>1, <3>1, Zenon
    <3>2. CASE i # s.i
      <4>1. (i \in DOMAIN cand /\ cand[i] # {}) \/ i \in demoted
        BY <1>10, <1>11, <2>1, <3>2, Zenon DEF AliveHasWriter
      <4> QED
        BY <1>2, <1>5, <1>6, <3>2, <4>1, Zenon
    <3> QED
      BY <3>1, <3>2, Zenon
  <2> QED
    BY <2>1, Zenon DEF AliveHasWriter
<1>13. InfoOK(info)' /\ CandOK(cand)'
  BY <1>2, <1>6, <1>10, DropOK, Zenon
<1>14. FilterOK(filter)'
  <2>1. FilterOK(f)
    BY <1>4, PassFilterFacts, Zenon
  <2> QED
    BY <1>2, <2>1, DropFilterOK, Zenon
<1>15. /\ window' \in [Instances -> {"off", "fresh", "stale"}]
       /\ \A j \in Instances : window[j] = "off" \/ j \notin S => window'[j] = window[j]
  BY <1>2, OutdateFacts, Zenon
<1>16. tracked' \subseteq Instances /\ purge' \in [PurgeStates -> SUBSET Instances]
  <2>1. (IF s.kind = "alive" THEN {s.i} ELSE {}) \in SUBSET Instances
    BY <1>1, Zenon
  <2> QED
    BY <1>2, <2>1, FollowTypes, Zenon
<1>17. TypeInv'
  BY <1>9, <1>13, <1>14, <1>15, <1>16, ThreadKept, Zenon DEF TypeInv
<1>18. SeparationInv'
  <2>1. PICK D : D = room.drop
    BY Zenon
  <2>2. /\ D \subseteq S /\ (Reopens(s, c, filtered) => s.i \in S)
        /\ S \subseteq D \cup (IF Reopens(s, c, filtered) THEN {s.i} ELSE {})
    BY <2>1, Zenon
  <2> HIDE DEF S
  <2>3. /\ DOMAIN filter' = DOMAIN f \ D /\ \A j \in DOMAIN filter' : filter'[j] = f[j]
    <3>1. DOMAIN Drop(f, D) = DOMAIN f \ D /\ \A j \in DOMAIN f \ D : Drop(f, D)[j] = f[j]
      BY DropFacts, Zenon
    <3> QED
      BY <1>2, <2>1, <3>1, Zenon
  <2>4. /\ recycled' = recycled \cup Forgotten(D) /\ UNCHANGED early
        /\ filtered => ~Holds(s, c)
    BY <1>2, <2>1, Zenon DEF c
  <2>5. /\ DOMAIN filter' = DOMAIN PassFilter(s, c, filtered) \ D
        /\ \A j \in DOMAIN filter' : filter'[j] = PassFilter(s, c, filtered)[j]
    BY <2>3, Zenon
  <2>6. \A j \in Instances : window[j] = "off" \/ j \notin S => window'[j] = window[j]
    BY <1>15, Zenon
  <2> HIDE DEF f
  <2> QED
    BY <2>2, <2>4, <2>5, <2>6, SeparationAdded, ZenonT(30)
<1> QED
  BY <1>9, <1>12, <1>17, <1>18, Zenon

\* The receive thread.
LEMMA ArriveStep ==
    ASSUME Inv, NEW w \in Writers, NEW i \in Instances, NEW kind \in Kinds, Arrive(w, i, kind)
    PROVE  Inv'
<1> DEFINE s == [n |-> arrived + 1, w |-> w, i |-> i, kind |-> kind]
<1>1. arrived \in 0..MaxArrivals /\ arrived < MaxArrivals /\ arrived' = arrived + 1
  BY Zenon DEF Arrive, Inv, TypeInv
<1>2. arrived' \in 0..MaxArrivals /\ s \in Change /\ s.i = i /\ s.w = w
  BY <1>1, HistoryAssumption DEF Change
<1>3. /\ Hold(s, Enlist(cand, i, w)) \/ (~Holds(s, Enlist(cand, i, w)) /\ AddChange(s, Enlist(cand, i, w), TRUE))
      /\ UNCHANGED <<qos, thread, missed>>
  BY Zenon DEF Arrive
<1> HIDE DEF s
<1>4. CASE Hold(s, Enlist(cand, i, w))
  BY <1>2, <1>3, <1>4, HoldStep, Zenon
<1>5. CASE ~Holds(s, Enlist(cand, i, w)) /\ Refuse(s, Enlist(cand, i, w), TRUE)
  BY <1>2, <1>3, <1>5, RefuseStep, Zenon
<1>6. CASE ~Holds(s, Enlist(cand, i, w)) /\ Store(s, Enlist(cand, i, w), TRUE)
  BY <1>2, <1>3, <1>6, StoreStep, Zenon
<1> QED
  BY <1>3, <1>4, <1>5, <1>6, Zenon DEF AddChange

\* The held sample, delivered by the timer thread.
LEMMA GiveHeldStep ==
    ASSUME Inv, GiveHeld
    PROVE  Inv'
<1>1. /\ thread.at = "give" /\ thread' = Idle /\ UNCHANGED <<qos, arrived, missed>>
  BY Zenon DEF GiveHeld
<1>2. PICK s \in thread.change : AddChange(s, Enlist(cand, s.i, s.w), FALSE)
  BY Zenon DEF GiveHeld
<1>3. s \in Change /\ arrived' \in 0..MaxArrivals
  <2>1. ThreadOK /\ arrived \in 0..MaxArrivals
    BY Zenon DEF Inv, TypeInv
  <2>2. thread # Idle
    BY <1>1 DEF Idle
  <2>3. thread.change \subseteq Change
    BY <1>1, <2>1, <2>2, Zenon DEF ThreadOK
  <2> QED
    BY <1>1, <1>2, <2>1, <2>3, Zenon
<1>4. CASE Refuse(s, Enlist(cand, s.i, s.w), FALSE)
  BY <1>1, <1>3, <1>4, RefuseStep, Zenon
<1>5. CASE Store(s, Enlist(cand, s.i, s.w), FALSE)
  BY <1>1, <1>3, <1>5, StoreStep, Zenon
<1> QED
  BY <1>2, <1>4, <1>5, Zenon DEF AddChange

----------------------------------------------------------------------------
(* The timer thread *)

\* The timers did not change.
LEMMA SeparationStays ==
    ASSUME SeparationInv, UNCHANGED <<filter, window, early, recycled>>,
           thread' = thread \/ thread'.at # "held"
    PROVE  SeparationInv'
<1>1. ASSUME NEW i \in Instances \ recycled' PROVE TimerInv(i)'
  <2>1. TimerInv(i) /\ Armed(i)' = Armed(i)
    BY <1>1, Zenon DEF SeparationInv, Armed
  <2> QED
    BY <2>1, Zenon DEF TimerInv
<1> QED
  BY <1>1, Zenon DEF SeparationInv

\* The states and the candidates did not change.
LEMMA AliveStays ==
    ASSUME AliveHasWriter, UNCHANGED <<info, cand, demoted>>
    PROVE  AliveHasWriter'
BY Zenon DEF AliveHasWriter

LEMMA WindowElapsesStep ==
    ASSUME Inv, NEW w \in Instances, WindowElapses(w)
    PROVE  Inv'
<1> USE DEF Inv
<1>1. /\ w \in DOMAIN filter /\ filter' = [filter EXCEPT ![w].open = FALSE]
      /\ UNCHANGED <<qos, arrived, store, added, buckets, cand, info, window, purge, thread,
                     tracked, missed, early, recycled, demoted>>
  BY Zenon DEF WindowElapses
<1>2. FilterOK(filter)
  BY Zenon DEF TypeInv
<1>3. /\ DOMAIN filter' = DOMAIN filter /\ filter'[w] = [filter[w] EXCEPT !.open = FALSE]
      /\ \A j \in DOMAIN filter \ {w} : filter'[j] = filter[j]
  BY <1>1, Zenon
<1>4. /\ filter'[w] \in FilterEntry /\ filter'[w].open = FALSE
      /\ filter'[w].pending = filter[w].pending /\ filter'[w].armed = filter[w].armed
  BY <1>1, <1>2, <1>3, Zenon DEF FilterOK, FilterEntry
<1>5. FilterOK(filter)'
  BY <1>1, <1>2, <1>3, <1>4, Zenon DEF FilterOK
<1>6. StoreOK' /\ LimitsKept'
  BY <1>1, StoreKept, Zenon
<1>7. TypeInv'
  BY <1>1, <1>5, <1>6, ThreadKept, Zenon DEF TypeInv
<1>8. ASSUME NEW i \in Instances \ recycled' PROVE TimerInv(i)'
  <2>1. TimerInv(i)
    BY <1>1, <1>8, Zenon DEF SeparationInv
  <2>2. Armed(i)' = Armed(i) /\ (Armed(i) /\ ~filter[i].open => ~filter'[i].open)
    BY <1>1, <1>3, <1>4, Zenon DEF Armed
  <2> QED
    BY <1>1, <2>1, <2>2, Zenon DEF TimerInv
<1>9. SeparationInv'
  BY <1>1, <1>8, Zenon DEF SeparationInv
<1> QED
  BY <1>1, <1>6, <1>7, <1>9, AliveStays, Zenon

LEMMA FireHeldStep ==
    ASSUME Inv, NEW w \in Instances, FireHeld(w)
    PROVE  Inv'
<1> USE DEF Inv
<1>1. /\ thread = Idle /\ window' = [window EXCEPT ![w] = "off"] /\ thread' = [at |-> "held", i |-> w]
      /\ window[w] = "stale" \/ (window[w] = "fresh" /\ (w \in DOMAIN filter => ~filter[w].open))
      /\ UNCHANGED <<qos, arrived, store, added, buckets, cand, info, filter, purge,
                     tracked, missed, early, recycled, demoted>>
  BY Zenon DEF FireHeld
<1>2. /\ window' \in [Instances -> {"off", "fresh", "stale"}] /\ window'[w] = "off"
      /\ \A j \in Instances \ {w} : window'[j] = window[j]
  BY <1>1, Zenon DEF TypeInv
<1>3. thread'.at = "held" /\ thread'.i = w
  BY <1>1, Zenon
<1>4. StoreOK' /\ LimitsKept'
  BY <1>1, StoreKept, Zenon
<1>5. TypeInv'
  BY <1>1, <1>2, <1>3, <1>4, Zenon DEF TypeInv, ThreadOK
<1>6. ASSUME NEW i \in Instances \ recycled' PROVE TimerInv(i)'
  <2>1. window[i] # "off" => window[i] = "fresh" /\ Armed(i)
    BY <1>1, <1>6, Zenon DEF SeparationInv, TimerInv
  <2>2. Armed(i)' = Armed(i)
    BY <1>1, Zenon DEF Armed
  <2>3. CASE i # w
    BY <1>2, <1>3, <2>1, <2>2, <2>3, Zenon DEF TimerInv
  <2>4. CASE i = w
    <3>1. window[w] # "stale"
      BY <2>1, <2>4, Zenon
    <3>2. window[w] = "fresh" /\ (w \in DOMAIN filter => ~filter[w].open)
      BY <1>1, <3>1, Zenon
    <3>3. Armed(w) /\ ~filter[w].open
      <4>1. window[w] # "off"
        BY <3>2, Zenon
      <4> QED
        BY <2>1, <2>4, <3>2, <4>1, Zenon DEF Armed
    <3> QED
      BY <1>1, <1>2, <2>2, <2>4, <3>3, Zenon DEF TimerInv
  <2> QED
    BY <2>3, <2>4, Zenon
<1>7. SeparationInv'
  BY <1>1, <1>6, Zenon DEF SeparationInv
<1> QED
  BY <1>1, <1>4, <1>5, <1>7, AliveStays, Zenon

\* A held sample leaves its slot.  The window is over, unless the instance is another one
\* by now.
LEMMA TakePendingStep ==
    ASSUME Inv, TakePending
    PROVE  Inv'
<1> USE DEF Inv
<1>1. thread.at = "held" /\ UNCHANGED <<qos, arrived, store, added, buckets, cand, info, purge,
                                        tracked, missed, recycled, demoted>>
  BY Zenon DEF TakePending
<1>2. thread.i \in Instances
  BY <1>1 DEF TypeInv, ThreadOK, Idle
<1>3. StoreOK' /\ LimitsKept'
  BY <1>1, StoreKept, Zenon
<1>4. CASE thread.i \notin DOMAIN filter
  <2>1. thread' = Idle /\ UNCHANGED <<filter, window, early>>
    BY <1>4, Zenon DEF TakePending
  <2>2. thread'.at # "held"
    BY <2>1, Zenon DEF Idle
  <2>3. SeparationInv'
    BY <1>1, <2>1, <2>2, SeparationStays, Zenon
  <2>4. TypeInv'
    BY <1>1, <1>3, <2>1, ThreadKept, Zenon DEF TypeInv
  <2> QED
    BY <1>1, <1>3, <2>3, <2>4, AliveStays, Zenon
<1>5. CASE thread.i \in DOMAIN filter
  <2>1. PICK k \in Instances : k = thread.i
    BY <1>2, Zenon
  <2> DEFINE e == [open |-> filter[k].open \/ filter[k].pending # {}, pending |-> {}, armed |-> FALSE]
  <2>2. /\ filter' = [filter EXCEPT ![k] = e]
        /\ thread' = IF filter[k].pending = {} THEN Idle
                     ELSE [at |-> "give", change |-> filter[k].pending]
        /\ window' = IF filter[k].pending = {} THEN window ELSE Outdate({k})
        /\ early' = IF filter[k].pending # {} /\ filter[k].open THEN early \cup {k} ELSE early
    BY <1>5, <2>1, Zenon DEF TakePending
  <2>3. filter[k] \in FilterEntry /\ FilterOK(filter) /\ k \in DOMAIN filter
    BY <1>5, <2>1, Zenon DEF TypeInv, FilterOK
  <2>4. e \in FilterEntry /\ e.pending = {} /\ filter[k].pending \subseteq Change
    BY <2>3, Zenon DEF FilterEntry
  <2> HIDE DEF e
  <2>5. /\ DOMAIN filter' = DOMAIN filter /\ filter'[k] = e
        /\ \A j \in DOMAIN filter \ {k} : filter'[j] = filter[j]
    BY <2>2, <2>3, Zenon
  <2>6. FilterOK(filter)'
    BY <2>3, <2>4, <2>5, Zenon DEF FilterOK
  <2>7. ThreadOK' /\ thread'.at # "held"
    <3>1. CASE filter[k].pending = {}
      BY <2>2, <3>1, Zenon DEF ThreadOK, Idle
    <3>2. CASE filter[k].pending # {}
      BY <2>2, <2>4, <3>2, Zenon DEF ThreadOK
    <3> QED
      BY <3>1, <3>2, Zenon
  <2>8. /\ window' \in [Instances -> {"off", "fresh", "stale"}]
        /\ \A j \in Instances : window[j] = "off" \/ j # k => window'[j] = window[j]
    <3>1. /\ Outdate({k}) \in [Instances -> {"off", "fresh", "stale"}]
          /\ \A j \in Instances : window[j] = "off" \/ j \notin {k} => Outdate({k})[j] = window[j]
      BY OutdateFacts, Zenon
    <3> QED
      BY <2>2, <3>1, Zenon DEF TypeInv
  <2>9. TypeInv'
    BY <1>1, <1>3, <2>6, <2>7, <2>8, Zenon DEF TypeInv
  <2>10. k \notin recycled => window[k] = "off" /\ ~filter[k].open
    BY <1>1, <2>1, Zenon DEF SeparationInv, TimerInv
  <2>11. ASSUME NEW i \in Instances \ recycled' PROVE TimerInv(i)'
    <3>1. window[i] # "off" => window[i] = "fresh" /\ Armed(i)
      BY <1>1, <2>11, Zenon DEF SeparationInv, TimerInv
    <3>2. CASE i = k
      BY <1>1, <2>7, <2>8, <2>10, <3>2, Zenon DEF TimerInv
    <3>3. CASE i # k
      BY <2>5, <2>7, <2>8, <3>1, <3>3, Zenon DEF TimerInv, Armed
    <3> QED
      BY <3>2, <3>3, Zenon
  <2>12. early' \subseteq recycled'
    BY <1>1, <2>2, <2>10, Zenon DEF SeparationInv
  <2>13. SeparationInv'
    BY <2>11, <2>12, Zenon DEF SeparationInv
  <2> QED
    BY <1>1, <1>3, <2>9, <2>13, AliveStays, Zenon
<1> QED
  BY <1>4, <1>5, Zenon

LEMMA FirePurgeStep ==
    ASSUME Inv, NEW k \in PurgeStates, FirePurge(k)
    PROVE  Inv'
<1> USE DEF Inv
<1>1. /\ purge' = [purge EXCEPT ![k] = {}]
      /\ UNCHANGED <<qos, arrived, added, buckets, cand, info, filter, window, tracked, missed,
                     early, recycled, demoted>>
  BY Zenon DEF FirePurge
<1>2. PICK i \in purge[k] :
         /\ store' = store \ OfInstance(i)
         /\ thread' = IF k = "no_writers" THEN [at |-> "forget", i |-> i] ELSE Idle
  BY Zenon DEF FirePurge
<1>3. purge \in [PurgeStates -> SUBSET Instances]
  BY Zenon DEF TypeInv
<1>4. i \in Instances /\ purge' \in [PurgeStates -> SUBSET Instances]
  BY <1>1, <1>2, <1>3, Zenon
<1>5. ThreadOK' /\ thread'.at # "held"
  <2>1. CASE k = "no_writers"
    BY <1>2, <1>4, <2>1, Zenon DEF ThreadOK
  <2>2. CASE k # "no_writers"
    BY <1>2, <2>2, Zenon DEF ThreadOK, Idle
  <2> QED
    BY <2>1, <2>2, Zenon
<1>6. store' \subseteq store
  BY <1>2, Zenon
<1>7. StoreOK' /\ LimitsKept'
  BY <1>1, <1>6, StoreKept, Zenon
<1>8. TypeInv'
  BY <1>1, <1>4, <1>5, <1>7, Zenon DEF TypeInv
<1>9. SeparationInv'
  BY <1>1, <1>5, SeparationStays, Zenon
<1> QED
  BY <1>1, <1>7, <1>8, <1>9, AliveStays, Zenon

\* An instance and its bucket are forgotten, with a timer that may still be set.
LEMMA ForgetInstanceStep ==
    ASSUME Inv, ForgetInstance
    PROVE  Inv'
<1> USE DEF Inv
<1>1. thread.at = "forget" /\ thread.i \in Instances
  BY DEF TypeInv, ThreadOK, Idle, ForgetInstance
<1>2. PICK k \in Instances : k = thread.i
  BY <1>1, Zenon
<1>3. /\ buckets' = buckets \ {k} /\ store' = store \ OfInstance(k)
      /\ info' = Drop(info, {k}) /\ filter' = Drop(filter, {k}) /\ window' = Outdate({k})
      /\ recycled' = recycled \cup Forgotten({k}) /\ thread' = Idle
      /\ UNCHANGED <<qos, arrived, added, cand, purge, tracked, missed, early, demoted>>
  BY <1>2, Zenon DEF ForgetInstance
<1>4. StoreOK' /\ LimitsKept'
  <2>1. /\ MaxSamples \in Nat /\ MaxPerInstance \in Nat /\ MaxInstances \in Nat
        /\ MaxSamples' = MaxSamples /\ MaxPerInstance' = MaxPerInstance /\ MaxInstances' = MaxInstances
    BY <1>3, QosTypes, Zenon DEF MaxSamples, MaxPerInstance, MaxInstances
  <2>2. /\ StoreOK /\ store' \in SUBSET store /\ buckets' \in SUBSET buckets
        /\ IsFiniteSet(store) /\ IsFiniteSet(buckets)
    BY <1>3, Zenon DEF TypeInv, StoreOK
  <2>3. /\ IsFiniteSet(store') /\ Cardinality(store') <= Cardinality(store)
        /\ Cardinality(store) \in Nat /\ Cardinality(store') \in Nat
    BY <2>2, FS_Subset, FS_CardinalityType, Zenon
  <2>4. /\ IsFiniteSet(buckets') /\ Cardinality(buckets') <= Cardinality(buckets)
        /\ Cardinality(buckets) \in Nat /\ Cardinality(buckets') \in Nat
    BY <2>2, FS_Subset, FS_CardinalityType, Zenon
  <2>5. Cardinality(store') <= MaxSamples' /\ Cardinality(buckets') <= MaxInstances'
    BY <2>1, <2>3, <2>4 DEF LimitsKept
  <2>6. ASSUME NEW i \in Instances PROVE Cardinality(OfInstance(i)') <= MaxPerInstance'
    <3>1. OfInstance(i)' \in SUBSET OfInstance(i) /\ OfInstance(i) \in SUBSET store
      BY <2>2, Zenon DEF OfInstance
    <3>2. IsFiniteSet(OfInstance(i)) /\ Cardinality(OfInstance(i)) <= MaxPerInstance
      BY <2>2, <3>1, FS_Subset, Zenon DEF LimitsKept
    <3>3. /\ Cardinality(OfInstance(i)') <= Cardinality(OfInstance(i))
          /\ Cardinality(OfInstance(i)) \in Nat /\ Cardinality(OfInstance(i)') \in Nat
      BY <3>1, <3>2, FS_Subset, FS_CardinalityType, Zenon
    <3> QED
      BY <2>1, <3>2, <3>3
  <2>7. \A x \in store' : x.change.i \in buckets'
    BY <1>3, <2>2, Zenon DEF StoreOK, OfInstance
  <2>8. StoreOK'
    BY <1>3, <2>2, <2>3, <2>4, <2>7, Zenon DEF StoreOK
  <2> QED
    BY <2>5, <2>6, <2>8, Zenon DEF LimitsKept
<1>5. /\ DOMAIN info' = DOMAIN info \ {k} /\ \A j \in DOMAIN info' : info'[j] = info[j]
      /\ DOMAIN filter' = DOMAIN filter \ {k} /\ \A j \in DOMAIN filter' : filter'[j] = filter[j]
  BY <1>3, Zenon DEF Drop
<1>6. InfoOK(info)' /\ FilterOK(filter)'
  BY <1>5, Zenon DEF TypeInv, InfoOK, FilterOK
<1>7. /\ window' \in [Instances -> {"off", "fresh", "stale"}]
      /\ \A j \in Instances : window[j] = "off" \/ j \notin {k} => window'[j] = window[j]
  BY <1>3, OutdateFacts, Zenon
<1>8. TypeInv'
  BY <1>3, <1>4, <1>6, <1>7, ThreadKept, Zenon DEF TypeInv
<1>9. AliveHasWriter'
  BY <1>3, <1>5, Zenon DEF AliveHasWriter
<1>10. thread'.at # "held"
  BY <1>3, Zenon DEF Idle
<1>11. ASSUME NEW i \in Instances \ recycled' PROVE TimerInv(i)'
  <2>1. /\ i \notin Forgotten({k})
        /\ window[i] # "off" => window[i] = "fresh" /\ Armed(i)
    BY <1>3, <1>11, Zenon DEF SeparationInv, TimerInv
  <2>2. CASE i = k
    <3>1. window[i] = "off"
      BY <2>1, <2>2, Zenon DEF Forgotten, Armed
    <3> QED
      BY <1>7, <1>10, <3>1, Zenon DEF TimerInv
  <2>3. CASE i # k
    BY <1>5, <1>7, <1>10, <2>1, <2>3, Zenon DEF TimerInv, Armed
  <2> QED
    BY <2>2, <2>3, Zenon
<1>12. SeparationInv'
  BY <1>3, <1>11, Zenon DEF SeparationInv
<1> QED
  BY <1>4, <1>8, <1>9, <1>12, Zenon

----------------------------------------------------------------------------
(* The deadline monitor, liveliness and the application *)

\* The owner that is revoked may be the last candidate: the instance is then demoted.
LEMMA RevokeOwnerStep ==
    ASSUME Inv, NEW k \in Instances, RevokeOwner(k)
    PROVE  Inv'
<1> USE DEF Inv
<1>1. /\ missed' = {}
      /\ UNCHANGED <<qos, arrived, store, added, buckets, info, filter, window, purge, thread,
                     tracked, early, recycled>>
  BY Zenon DEF RevokeOwner
<1>2. CandOK(cand)
  BY Zenon DEF TypeInv
<1>3. CandOK(cand)' /\ AliveHasWriter'
  <2>1. CASE UNCHANGED <<cand, demoted>>
    <3>1. CandOK(cand)'
      BY <1>2, <2>1, Zenon
    <3> QED
      BY <1>1, <2>1, <3>1, AliveStays, Zenon
  <2>2. CASE /\ k \in DOMAIN cand /\ cand' = [cand EXCEPT ![k] = @ \ {Owner(@)}]
             /\ demoted' = IF cand'[k] = {} THEN demoted \cup {k} ELSE demoted
    <3>1. /\ DOMAIN cand' = DOMAIN cand /\ cand'[k] \subseteq cand[k]
          /\ \A j \in DOMAIN cand \ {k} : cand'[j] = cand[j]
      BY <2>2, Zenon
    <3>2. CandOK(cand)'
      BY <1>2, <2>2, <3>1, Zenon DEF CandOK
    <3>3. ASSUME NEW i \in DOMAIN info, info[i].state = "alive"
          PROVE  (i \in DOMAIN cand' /\ cand'[i] # {}) \/ i \in demoted'
      <4>1. (i \in DOMAIN cand /\ cand[i] # {}) \/ i \in demoted
        BY <3>3, Zenon DEF AliveHasWriter
      <4> QED
        BY <2>2, <3>1, <4>1, Zenon
    <3> QED
      BY <1>1, <3>2, <3>3, Zenon DEF AliveHasWriter
  <2> QED
    BY <2>1, <2>2, Zenon DEF RevokeOwner
<1>4. StoreOK' /\ LimitsKept'
  BY <1>1, StoreKept, Zenon
<1>5. TypeInv'
  BY <1>1, <1>3, <1>4, ThreadKept, Zenon DEF TypeInv
<1>6. SeparationInv'
  BY <1>1, SeparationStays, Zenon
<1> QED
  BY <1>3, <1>4, <1>5, <1>6, Zenon

\* An instance whose last candidate is gone is not alive any more.
LEMMA LoseWriterStep ==
    ASSUME Inv, NEW w \in Writers, LoseWriter(w)
    PROVE  Inv'
<1> DEFINE c == [i \in DOMAIN cand |-> cand[i] \ {w}]
           gone == {i \in DOMAIN c : c[i] = {}}
           lost == [state |-> "no_writers", notify |-> TRUE]
           next == [i \in DOMAIN info \cup gone |->
                       LET e == Entry(info, i)
                       IN  IF i \in gone /\ e.state = "alive" THEN lost ELSE e]
<1> USE DEF Inv
<1>1. /\ cand' = c /\ info' = next /\ Follow(info, next, {})
      /\ UNCHANGED <<qos, arrived, store, added, buckets, filter, window, thread, missed,
                     early, recycled, demoted>>
  BY Zenon DEF LoseWriter
<1>2. CandOK(cand) /\ InfoOK(info)
  BY Zenon DEF TypeInv
<1>3. /\ DOMAIN c = DOMAIN cand /\ \A i \in DOMAIN cand : c[i] = cand[i] \ {w}
      /\ gone \subseteq DOMAIN cand /\ \A i \in DOMAIN cand : i \in gone <=> c[i] = {}
  BY Zenon
<1>4. /\ DOMAIN next = DOMAIN info \cup gone
      /\ \A i \in DOMAIN next : next[i] = IF i \in gone /\ Entry(info, i).state = "alive"
                                            THEN lost ELSE Entry(info, i)
  BY Zenon
<1>5. lost \in InfoEntry /\ lost.state = "no_writers"
  BY Zenon DEF InfoEntry
<1> HIDE DEF c, gone, next, lost
<1>6. CandOK(cand)'
  BY <1>1, <1>2, <1>3, Zenon DEF CandOK
<1>7. InfoOK(next)
  <2>1. \A i : Entry(info, i) \in InfoEntry
               /\ (Entry(info, i).notify => Entry(info, i).state = "no_writers")
    BY <1>2, EntryFacts, Zenon
  <2>2. DOMAIN next \subseteq Instances
    BY <1>2, <1>3, <1>4, Zenon DEF CandOK, InfoOK
  <2> QED
    BY <1>4, <1>5, <2>1, <2>2, Zenon DEF InfoOK
<1>8. AliveHasWriter'
  <2>1. ASSUME NEW i \in DOMAIN next, next[i].state = "alive"
        PROVE  (i \in DOMAIN c /\ c[i] # {}) \/ i \in demoted
    <3>1. i \notin gone
      <4>1. lost.state # "alive"
        BY <1>5, Zenon
      <4> QED
        BY <1>4, <2>1, <4>1, Zenon
    <3>2. i \in DOMAIN info /\ info[i].state = "alive"
      BY <1>4, <2>1, <3>1, Zenon DEF Entry
    <3>3. (i \in DOMAIN cand /\ cand[i] # {}) \/ i \in demoted
      BY <3>2, Zenon DEF AliveHasWriter
    <3> QED
      BY <1>3, <3>1, <3>3, Zenon
  <2> QED
    BY <1>1, <2>1, Zenon DEF AliveHasWriter
<1>9. StoreOK' /\ LimitsKept'
  BY <1>1, StoreKept, Zenon
<1>10. tracked' \subseteq Instances /\ purge' \in [PurgeStates -> SUBSET Instances]
  <2>1. {} \in SUBSET Instances
    BY Zenon
  <2> QED
    BY <1>1, <2>1, FollowTypes, Zenon
<1>11. InfoOK(info)'
  BY <1>1, <1>7, Zenon
<1>12. TypeInv'
  BY <1>1, <1>6, <1>9, <1>10, <1>11, ThreadKept, Zenon DEF TypeInv
<1>13. SeparationInv'
  BY <1>1, SeparationStays, Zenon
<1> QED
  BY <1>8, <1>9, <1>12, <1>13, Zenon

LEMMA CollectMissedStep ==
    ASSUME Inv, NEW k \in Instances, CollectMissed(k)
    PROVE  Inv'
<1> USE DEF Inv
<1>1. /\ missed' = {k}
      /\ UNCHANGED <<qos, arrived, store, added, buckets, cand, info, filter, window, purge,
                     thread, tracked, early, recycled, demoted>>
  BY Zenon DEF CollectMissed
<1>2. StoreOK' /\ LimitsKept'
  BY <1>1, StoreKept, Zenon
<1>3. missed' \subseteq Instances
  BY <1>1, Zenon
<1>4. TypeInv'
  BY <1>1, <1>2, <1>3, ThreadKept, Zenon DEF TypeInv
<1>5. SeparationInv' /\ AliveHasWriter'
  BY <1>1, SeparationStays, AliveStays, Zenon
<1> QED
  BY <1>2, <1>4, <1>5, Zenon

LEMMA TakeStep ==
    ASSUME Inv, Take
    PROVE  Inv'
<1> USE DEF Inv
<1>1. /\ store' \subseteq store
      /\ UNCHANGED <<qos, arrived, added, buckets, cand, info, filter, window, purge, thread,
                     tracked, missed, early, recycled, demoted>>
  BY Zenon DEF Take
<1>2. StoreOK' /\ LimitsKept'
  BY <1>1, StoreKept, Zenon
<1>3. TypeInv'
  BY <1>1, <1>2, ThreadKept, Zenon DEF TypeInv
<1>4. SeparationInv' /\ AliveHasWriter'
  BY <1>1, SeparationStays, AliveStays, Zenon
<1> QED
  BY <1>2, <1>3, <1>4, Zenon

LEMMA DrainNotificationStep ==
    ASSUME Inv, NEW k \in Instances, DrainNotification(k)
    PROVE  Inv'
<1> USE DEF Inv
<1>1. /\ k \in DOMAIN info /\ info' = [info EXCEPT ![k].notify = FALSE]
      /\ UNCHANGED <<qos, arrived, store, added, buckets, cand, filter, window, purge, thread,
                     tracked, missed, early, recycled, demoted>>
  BY Zenon DEF DrainNotification
<1>2. InfoOK(info)
  BY Zenon DEF TypeInv
<1>3. /\ DOMAIN info' = DOMAIN info /\ info'[k] = [info[k] EXCEPT !.notify = FALSE]
      /\ \A j \in DOMAIN info \ {k} : info'[j] = info[j]
  BY <1>1, Zenon
<1>4. info'[k] \in InfoEntry /\ info'[k].notify = FALSE /\ info'[k].state = info[k].state
  BY <1>1, <1>2, <1>3, Zenon DEF InfoOK, InfoEntry
<1>5. InfoOK(info)'
  BY <1>1, <1>2, <1>3, <1>4, Zenon DEF InfoOK
<1>6. AliveHasWriter'
  BY <1>1, <1>3, <1>4, Zenon DEF AliveHasWriter
<1>7. StoreOK' /\ LimitsKept'
  BY <1>1, StoreKept, Zenon
<1>8. TypeInv'
  BY <1>1, <1>5, <1>7, ThreadKept, Zenon DEF TypeInv
<1>9. SeparationInv'
  BY <1>1, SeparationStays, Zenon
<1> QED
  BY <1>6, <1>7, <1>8, <1>9, Zenon

----------------------------------------------------------------------------
(* The theorems *)

LEMMA InitInv == Init => Inv
<1> SUFFICES ASSUME Init PROVE Inv
  BY Zenon
<1>1. /\ qos \in Profiles /\ arrived = 0 /\ store = {} /\ added = 0 /\ buckets = {}
      /\ cand = <<>> /\ info = <<>> /\ filter = <<>>
      /\ window = [i \in Instances |-> "off"] /\ purge = [k \in PurgeStates |-> {}]
      /\ thread = Idle /\ tracked = {} /\ missed = {} /\ early = {} /\ recycled = {} /\ demoted = {}
  BY Zenon DEF Init
<1>2. DOMAIN cand = {} /\ DOMAIN info = {} /\ DOMAIN filter = {}
  BY <1>1
<1>3. StoreOK
  BY <1>1, FS_EmptySet, Zenon DEF StoreOK
<1>4. TypeInv
  <2>1. CandOK(cand) /\ InfoOK(info) /\ FilterOK(filter) /\ ThreadOK
    BY <1>1, <1>2, Zenon DEF CandOK, InfoOK, FilterOK, ThreadOK
  <2>2. arrived \in 0..MaxArrivals
    BY <1>1, HistoryAssumption
  <2>3. /\ window \in [Instances -> {"off", "fresh", "stale"}]
        /\ purge \in [PurgeStates -> SUBSET Instances]
    BY <1>1, Zenon
  <2> QED
    BY <1>1, <1>3, <2>1, <2>2, <2>3, Zenon DEF TypeInv
<1>5. LimitsKept
  <2>1. \A i \in Instances : OfInstance(i) = {}
    BY <1>1, Zenon DEF OfInstance
  <2>2. Cardinality({}) = 0
    BY FS_EmptySet, Zenon
  <2>3. MaxSamples \in Nat /\ MaxInstances \in Nat /\ MaxPerInstance \in Nat
    BY <1>4, QosTypes, Zenon
  <2>4. 0 <= MaxSamples /\ 0 <= MaxInstances /\ 0 <= MaxPerInstance
    BY ONLY <2>3
  <2> QED
    BY <1>1, <2>1, <2>2, <2>4, Zenon DEF LimitsKept
<1>6. AliveHasWriter
  BY <1>2, Zenon DEF AliveHasWriter
<1>7. SeparationInv
  <2>1. thread.at # "held" /\ \A i \in Instances : window[i] = "off"
    BY <1>1, Zenon DEF Idle
  <2> QED
    BY <1>1, <2>1, Zenon DEF SeparationInv, TimerInv
<1> QED
  BY <1>4, <1>5, <1>6, <1>7, Zenon DEF Inv

LEMMA StepInv == Inv /\ [Next]_vars => Inv'
<1> SUFFICES ASSUME Inv, [Next]_vars PROVE Inv'
  BY Zenon
<1>1. CASE UNCHANGED vars
  <2>1. UNCHANGED <<qos, arrived, store, added, buckets, cand, info, filter, window, purge,
                    thread, tracked, missed, early, recycled, demoted>>
    BY <1>1, Zenon DEF vars
  <2>2. StoreOK' /\ LimitsKept'
    BY <2>1, StoreKept, Zenon DEF Inv
  <2>3. TypeInv'
    BY <2>1, <2>2, ThreadKept, Zenon DEF Inv, TypeInv
  <2>4. SeparationInv' /\ AliveHasWriter'
    BY <2>1, SeparationStays, AliveStays, Zenon DEF Inv
  <2> QED
    BY <2>2, <2>3, <2>4, Zenon DEF Inv
<1>2. ASSUME NEW w \in Writers, NEW i \in Instances, NEW kind \in Kinds, Arrive(w, i, kind)
      PROVE  Inv'
  BY <1>2, ArriveStep, Zenon
<1>3. ASSUME NEW i \in Instances, WindowElapses(i) PROVE Inv'
  BY <1>3, WindowElapsesStep, Zenon
<1>4. ASSUME NEW i \in Instances, CollectMissed(i) PROVE Inv'
  BY <1>4, CollectMissedStep, Zenon
<1>5. ASSUME NEW i \in Instances, RevokeOwner(i) PROVE Inv'
  BY <1>5, RevokeOwnerStep, Zenon
<1>6. ASSUME NEW i \in Instances, DrainNotification(i) PROVE Inv'
  BY <1>6, DrainNotificationStep, Zenon
<1>7. ASSUME NEW w \in Writers, LoseWriter(w) PROVE Inv'
  BY <1>7, LoseWriterStep, Zenon
<1>8. CASE Take
  BY <1>8, TakeStep, Zenon
<1>9. CASE TimerThread
  <2>1. ASSUME NEW i \in Instances, FireHeld(i) PROVE Inv'
    BY <2>1, FireHeldStep, Zenon
  <2>2. ASSUME NEW k \in PurgeStates, FirePurge(k) PROVE Inv'
    BY <2>2, FirePurgeStep, Zenon
  <2> QED
    BY <1>9, <2>1, <2>2, TakePendingStep, GiveHeldStep, ForgetInstanceStep, Zenon DEF TimerThread
<1> QED
  BY <1>1, <1>2, <1>3, <1>4, <1>5, <1>6, <1>7, <1>8, <1>9, Zenon DEF Next

LEMMA Inductive == Spec => []Inv
BY InitInv, StepInv, PTL DEF Spec

\* Every change the reader keeps has the bucket of its instance, and every sample it
\* holds back has a delivery scheduled (TypeOK).
THEOREM ReaderTypes == Spec => []TypeOK
<1>1. Inv => TypeOK
  <2> SUFFICES ASSUME Inv PROVE TypeOK
    BY Zenon
  <2>1. TypeInv /\ StoreOK /\ CandOK(cand) /\ InfoOK(info) /\ FilterOK(filter)
    BY Zenon DEF Inv, TypeInv
  <2>2. \A i \in DOMAIN filter : /\ filter[i].pending \subseteq Change
                                 /\ filter[i].pending # {} => filter[i].armed
    BY <2>1, Zenon DEF FilterOK, FilterEntry
  <2>3. /\ \A i \in DOMAIN cand : cand[i] \subseteq Writers
        /\ \A i \in DOMAIN info :
             info[i] \in [state : {"alive", "disposed", "no_writers"}, notify : BOOLEAN]
        /\ DOMAIN cand \cup DOMAIN info \cup DOMAIN filter \subseteq Instances
    BY <2>1, Zenon DEF CandOK, InfoOK, FilterOK, InfoEntry
  <2> QED
    BY <2>1, <2>2, <2>3, Zenon DEF TypeOK, TypeInv, StoreOK
<1> QED
  BY <1>1, Inductive, PTL

\* max_samples, max_samples_per_instance and max_instances hold whatever is evicted,
\* rejected, taken, purged or given the bucket of an unused instance (LimitsKept).
THEOREM ReaderLimits == Spec => []LimitsKept
<1>1. Inv => LimitsKept
  BY Zenon DEF Inv
<1> QED
  BY <1>1, Inductive, PTL

\* However arrivals, lost writers, revoked owners and purges interleave, an instance is
\* ALIVE only with a candidate left or after its last owner was revoked for a missed
\* deadline (AliveHasWriter).
THEOREM AliveIsOwned == Spec => []AliveHasWriter
<1>1. Inv => AliveHasWriter
  BY Zenon DEF Inv
<1> QED
  BY <1>1, Inductive, PTL

\* The one-shot timer delivers a held sample inside the separation window only for an
\* instance that was forgotten while the timer existed (SeparationKept).
THEOREM SeparationHolds == Spec => []SeparationKept
<1>1. Inv => SeparationKept
  BY Zenon DEF Inv, SeparationInv, SeparationKept
<1> QED
  BY <1>1, Inductive, PTL

\* The notification of NOT_ALIVE_NO_WRITERS is pending only while the instance is in that
\* state (NotifiedIsWriterless).
THEOREM NoticesAreTrue == Spec => []NotifiedIsWriterless
<1>1. Inv => NotifiedIsWriterless
  BY Zenon DEF Inv, TypeInv, InfoOK, NotifiedIsWriterless
<1> QED
  BY <1>1, Inductive, PTL
=============================================================================
