------------------------- MODULE DataWriterHistory -------------------------
(***************************************************************************)
(* The history of a reliable DataWriter (data_writer_history.rs) between   *)
(* the application threads that write and the receive thread that handles  *)
(* acknowledgements.                                                       *)
(*                                                                         *)
(* A write registers the instance, allocates a sequence number and, under  *)
(* the lock of the history, makes room and adds the change.  A KEEP_ALL    *)
(* history without room waits for an acknowledgement without giving up the *)
(* lock.  A volatile KEEP_ALL history that is not strict also drops what   *)
(* all readers acknowledged, in a callback that takes the same lock: from  *)
(* the receive thread after an ACKNACK or an unmatch, and from the writing *)
(* thread after each send.                                                 *)
(*                                                                         *)
(* A history without keys has a single instance, whose limit is            *)
(* max_samples.  The RTPS writer's cache changes together with the history *)
(* and is not listed separately.                                           *)
(***************************************************************************)
EXTENDS Integers, FiniteSets, FiniteSetsExt

CONSTANTS
    Threads,      \* application threads that write, numbered from 1
    Readers,      \* reliable readers
    Instances,
    Profiles,     \* settings, one of which is chosen at the start: the threads that
                  \* write and those that wait for acknowledgements, the readers
                  \* matched, the QoS
    MaxSeq        \* bound on the number of sequence numbers allocated

ASSUME WriterHistoryAssumption ==
    /\ Profiles \subseteq [writers : SUBSET Threads, awaiters : SUBSET Threads,
                            matched : SUBSET Readers,
                            keyed : BOOLEAN, keepAll : BOOLEAN, purges : BOOLEAN,
                            patient : BOOLEAN,
                            samples : Nat \ {0}, instances : Nat \ {0}, perInstance : Nat \ {0}]
    \* DataWriterHistoryCache::new
    /\ \A q \in Profiles : /\ ~q.keyed => q.instances = 1
                           /\ q.samples <= q.instances * q.perInstance
    /\ Threads \subseteq Nat \ {0}
    /\ MaxSeq \in Nat

VARIABLES
    qos,
    lastSeq,      \* last sequence number allocated
    changes,      \* changes of the history: sequence number, instance, and the place
                  \* in the order in which they were added
    added,        \* number of changes added so far
    buckets,      \* keys of instance_map
    highest,      \* highest sequence number that entered the transmit queue
    readers,      \* matched reliable readers
    sent,         \* what a reader has acknowledged in an ACKNACK on its way
    acked,        \* max_acked_sn of the reader proxies
    notified,     \* last_acked_notify_sn
    thread,       \* what the application threads and the receive thread are doing
    \* history variables, read by the properties only
    late,         \* changes added after one with a higher number
    lost          \* sequence numbers of writes that were refused or timed out

vars == <<qos, lastSeq, changes, added, buckets, highest, readers, sent, acked, notified,
          thread, late, lost>>

KeepAll == qos.keepAll
Purges == qos.purges            \* all_acked_callback is set: KEEP_ALL, volatile, not strict
Patient == qos.patient          \* max_blocking_time is infinite

rx == 0                         \* the receive thread
Idle == [at |-> "idle"]
Goto(p, state) == thread' = [thread EXCEPT ![p] = state]

\* The history's lock is held across steps only by a write that waits.
Unlocked == \A t \in Threads : thread[t].at # "wait"

Ids(q) == {c.n : c \in q}
OfInstance(i) == {c \in changes : c.i = i}
Without(ids) == {c \in changes : c.n \notin ids}

\* Variant: the acknowledgement must be beyond the change.
AckedBeyond(n) == \A r \in readers : acked[r] > n

\* is_change_acked_by_all
AckedByAll(n) == \A r \in readers : acked[r] >= n

-----------------------------------------------------------------------------
(* Making room: ensure_capacity *)

\* Variant: full only beyond the limit.
FullBeyond == Cardinality(changes) > qos.samples

Full == Cardinality(changes) >= qos.samples

InstanceFull(i) ==
    IF qos.keyed THEN Cardinality(OfInstance(i)) >= qos.perInstance ELSE Full

\* get_removable_changes: the last sample of an instance is not removable.
Removable == {c \in changes : Cardinality(OfInstance(c.i)) > 1}

\* The changes of which one has to go before a change of i is added.
Candidates(i) == IF InstanceFull(i) THEN Ids(OfInstance(i)) ELSE Ids(Removable)

FirstAdded(q) == {c \in q : \A d \in q : c.at <= d.at}
LowestNumber(q) == {c \in q : \A d \in q : c.n <= d.n}

\* For KEEP_LAST: the oldest one, acknowledged or not. Of a keyed instance that is the
\* one with the lowest number, of the whole history the one added first.
Oldest(i) ==
    Ids(IF qos.keyed /\ InstanceFull(i) THEN LowestNumber(OfInstance(i)) ELSE FirstAdded(changes))

\* For KEEP_ALL: the first acknowledged one of some instance.
FirstAcked(ids) ==
    LET acknowledged == {c \in changes : c.n \in ids /\ AckedByAll(c.n)}
    IN  Ids({c \in acknowledged : \A d \in acknowledged : d.i = c.i => c.at <= d.at})

\* The change enters the history and the RTPS writer's cache, which transmits it.
Add(t, evict) ==
    LET c == thread[t].change
    IN  /\ changes' = Without(evict) \cup {[n |-> c.n, i |-> c.i, at |-> added + 1]}
        /\ added' = added + 1
        /\ highest' = IF c.n > highest THEN c.n ELSE highest
        /\ late' = IF c.n < highest THEN late \cup {c.n} ELSE late
        /\ Goto(t, [at |-> "sent"])
        /\ UNCHANGED lost

-----------------------------------------------------------------------------
(* A write *)

\* resolve_write_instance registers the instance and the change is taken from the
\* pool, each under the history's lock.
Register(t, i) ==
    /\ t \in qos.writers /\ thread[t] = Idle /\ Unlocked /\ lastSeq < MaxSeq
    /\ i \in buckets \/ Cardinality(buckets) < qos.instances
    /\ buckets' = buckets \cup {i}
    /\ Goto(t, [at |-> "allocate", i |-> i])
    /\ UNCHANGED <<qos, lastSeq, changes, added, highest, readers, sent, acked, notified, late, lost>>

Allocate(t) ==
    /\ thread[t].at = "allocate" /\ lastSeq < MaxSeq
    /\ lastSeq' = lastSeq + 1
    /\ Goto(t, [at |-> "add", change |-> [n |-> lastSeq + 1, i |-> thread[t].i]])
    /\ UNCHANGED <<qos, changes, added, buckets, highest, readers, sent, acked, notified, late, lost>>

\* add_change_with_cleanup: a change is added, waits, or is refused; a change that
\* is refused has used up its sequence number.
AddChange(t) ==
    /\ thread[t].at = "add" /\ Unlocked
    /\ LET c == thread[t].change
           needed == InstanceFull(c.i) \/ Full
       IN  \/ ~needed /\ Add(t, {})
           \/ /\ needed /\ Candidates(c.i) # {} /\ KeepAll
              /\ Goto(t, [at |-> "wait", change |-> c, among |-> Candidates(c.i)])
              /\ UNCHANGED <<changes, added, highest, late, lost>>
           \/ needed /\ Candidates(c.i) # {} /\ ~KeepAll /\ Add(t, Oldest(c.i))
           \/ /\ needed /\ Candidates(c.i) = {}
              /\ lost' = lost \cup {c.n} /\ Goto(t, Idle)
              /\ UNCHANGED <<changes, added, highest, late>>
    /\ UNCHANGED <<qos, lastSeq, buckets, readers, sent, acked, notified>>

\* remove_first_acked_change_or_block: polls while it holds the lock ...
AddWhenAcked(t) ==
    /\ thread[t].at = "wait"
    /\ \E n \in FirstAcked(thread[t].among) : Add(t, {n})
    /\ UNCHANGED <<qos, lastSeq, buckets, readers, sent, acked, notified>>

\* ... until max_blocking_time is over.
TimeOut(t) ==
    /\ thread[t].at = "wait" /\ ~Patient
    /\ FirstAcked(thread[t].among) = {}
    /\ lost' = lost \cup {thread[t].change.n}
    /\ Goto(t, Idle)
    /\ UNCHANGED <<qos, lastSeq, changes, added, buckets, highest, readers, sent, acked, notified, late>>

-----------------------------------------------------------------------------
(* Acknowledgements *)

\* A reader acknowledges what it received; only its last ACKNACK matters.
SendAck(r, n) ==
    /\ r \in readers /\ n \in (sent[r] + 1)..highest
    /\ sent' = [sent EXCEPT ![r] = n]
    /\ UNCHANGED <<qos, lastSeq, changes, added, buckets, highest, readers, acked, notified, thread, late, lost>>

\* handle_acknack_message, under the lock of the reader proxies.
ReceiveAck(r) ==
    /\ thread[rx] = Idle /\ r \in readers /\ acked[r] < sent[r]
    /\ acked' = [acked EXCEPT ![r] = sent[r]]
    /\ Goto(rx, [at |-> "sent"])
    /\ UNCHANGED <<qos, lastSeq, changes, added, buckets, highest, readers, sent, notified, late, lost>>

\* remove_matched_reader_and_update_status
Unmatch(r) ==
    /\ thread[rx] = Idle /\ r \in readers
    /\ readers' = readers \ {r}
    /\ Goto(rx, [at |-> "sent"])
    /\ UNCHANGED <<qos, lastSeq, changes, added, buckets, highest, sent, acked, notified, late, lost>>

\* Variants: what some reader acknowledged; nothing without a reader.
AckedBySome == IF readers = {} THEN highest ELSE Max({acked[r] : r \in readers})
AckedByReaders == IF readers = {} THEN 0 ELSE Min({acked[r] : r \in readers})

\* process_acked_changes; without a reliable reader all that was sent counts.
Acked == IF readers = {} THEN highest ELSE Min({acked[r] : r \in readers})

NotifyAcked(p) ==
    /\ thread[p].at = "sent"
    /\ IF Purges /\ Acked > notified
         THEN notified' = Acked /\ Goto(p, [at |-> "purge", upTo |-> Acked])
         ELSE notified' = notified /\ Goto(p, Idle)
    /\ UNCHANGED <<qos, lastSeq, changes, added, buckets, highest, readers, sent, acked, late, lost>>

\* remove_changes_acked_up_to, under the history's lock.
PurgeAcked(p) ==
    /\ thread[p].at = "purge" /\ Unlocked
    /\ changes' = {c \in changes : c.n > thread[p].upTo}
    /\ Goto(p, Idle)
    /\ UNCHANGED <<qos, lastSeq, added, buckets, highest, readers, sent, acked, notified, late, lost>>

-----------------------------------------------------------------------------
(* wait_for_acknowledgments *)

others == <<qos, lastSeq, changes, added, buckets, highest, readers, sent, acked, notified, late, lost>>

WaitForAcknowledgments(t) ==
    /\ t \in qos.awaiters /\ thread[t] = Idle
    /\ Goto(t, [at |-> "acks"])
    /\ UNCHANGED others

\* wait_for_all_acked asks for the last sequence number allocated, under its lock ...
LoadLast(t) ==
    /\ thread[t].at = "acks"
    /\ Goto(t, [at |-> "compare", last |-> lastSeq])
    /\ UNCHANGED others

\* Variant: the acknowledgement must be beyond the last sequence number.
CompareBeyond(t) ==
    /\ thread[t].at = "compare"
    /\ Goto(t, IF AckedBeyond(thread[t].last) THEN Idle ELSE [at |-> "acks"])
    /\ UNCHANGED others

\* ... compares it with the reader proxies, under theirs, and starts again.
CompareLast(t) ==
    /\ thread[t].at = "compare"
    /\ Goto(t, IF AckedByAll(thread[t].last) THEN Idle ELSE [at |-> "acks"])
    /\ UNCHANGED others

\* max_wait is over: the call returns Timeout.
GiveUpWaiting(t) ==
    /\ thread[t].at = "compare" /\ ~AckedByAll(thread[t].last)
    /\ Goto(t, Idle)
    /\ UNCHANGED others

-----------------------------------------------------------------------------
Init ==
    /\ qos \in Profiles
    /\ lastSeq = 0 /\ changes = {} /\ added = 0 /\ buckets = {} /\ highest = 0
    /\ readers = qos.matched
    /\ sent = [r \in Readers |-> 0] /\ acked = [r \in Readers |-> 0] /\ notified = 0
    /\ thread = [p \in Threads \cup {rx} |-> Idle]
    /\ late = {} /\ lost = {}

Write(t) ==
    \/ Allocate(t) \/ AddChange(t) \/ AddWhenAcked(t) \/ TimeOut(t)

Await(t) == LoadLast(t) \/ CompareLast(t)

Next ==
    \/ \E t \in Threads, i \in Instances : Register(t, i)
    \/ \E t \in Threads : Write(t) \/ WaitForAcknowledgments(t) \/ Await(t) \/ GiveUpWaiting(t)
    \/ \E r \in Readers, n \in 1..MaxSeq : SendAck(r, n)
    \/ \E r \in Readers : ReceiveAck(r) \/ Unmatch(r)
    \/ \E p \in Threads \cup {rx} : NotifyAcked(p) \/ PurgeAcked(p)

Spec == Init /\ [][Next]_vars

\* Readers acknowledge what was sent, and every thread goes on; a thread that wants
\* the lock gets it, if it is free again and again.
FairSpec ==
    /\ Spec
    /\ \A t \in Threads : WF_vars(AddWhenAcked(t)) /\ WF_vars(TimeOut(t)) /\ SF_vars(AddChange(t))
    /\ \A t \in Threads : WF_vars(Await(t))
    /\ \A r \in Readers : WF_vars(SendAck(r, highest)) /\ WF_vars(ReceiveAck(r))
    /\ \A p \in Threads \cup {rx} : WF_vars(NotifyAcked(p)) /\ SF_vars(PurgeAcked(p))

-----------------------------------------------------------------------------
(* Properties *)

\* The history keeps its RESOURCE_LIMITS and lists no change twice, every change has
\* the bucket of its instance, nothing is acknowledged that was not sent, and the
\* write that waits for room is the only one.
LimitsKept ==
    /\ \A c \in changes : c.i \in buckets /\ c.n <= highest
    /\ \A r \in Readers : acked[r] <= sent[r] /\ sent[r] <= highest
    /\ Cardinality(changes) <= qos.samples
    /\ \A i \in Instances : Cardinality(OfInstance(i)) <= qos.perInstance
    /\ Cardinality(buckets) <= qos.instances
    /\ \A c, d \in changes : c.n = d.n => c = d
    /\ Cardinality({t \in Threads : thread[t].at = "wait"}) <= 1

\* KEEP_ALL: a change leaves the history only when every matched reader has
\* acknowledged it, whether it makes room or is purged.
NothingUnackedRemoved ==
    [][KeepAll => \A n \in Ids(changes) \ Ids(changes'), r \in readers : acked[r] >= n]_vars

\* When nothing is going on, a history that purges has dropped every change that
\* all readers acknowledged, unless it was added after a change with a higher
\* number.
AckedIsPurged ==
    (Purges /\ \A p \in Threads \cup {rx} : thread[p] = Idle) =>
        \A c \in changes : AckedByAll(c.n) => c.n \in late

\* A write that waits for room comes back: with the time-out, or when the readers
\* have acknowledged a change that can go.
WriteReturns ==
    \A t \in Threads : (thread[t].at = "wait") ~> (thread[t].at # "wait")

\* wait_for_acknowledgments returns without its time-out, since the readers
\* acknowledge what they are sent: unless the last sequence number belongs to a
\* write that failed, which no reader will ever acknowledge.
AcksArrive ==
    \/ <>[](lastSeq \in lost)
    \/ \A t \in Threads :
         (thread[t].at \in {"acks", "compare"}) ~> (thread[t].at \notin {"acks", "compare"})
=============================================================================
