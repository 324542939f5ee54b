-------------------------- MODULE ReliableProtocol --------------------------
(***************************************************************************)
(* One reliable DataWriter and its matched reliable DataReaders, each in a  *)
(* participant of its own, talking over a network that loses, duplicates    *)
(* and reorders datagrams.  The threads that act are                        *)
(*                                                                         *)
(*   application threads     DataWriter::write                             *)
(*   discovery               matching of a reader                          *)
(*   the sending task        heartbeats, repairs, delayed ACKNACKs         *)
(*   the timer thread        due timers, which queue work for the sending  *)
(*                           task                                          *)
(*   one receive thread per participant                                     *)
(*                                                                         *)
(* Samples are unfragmented and carry no coherent set.                      *)
(***************************************************************************)
EXTENDS WriterProxy

CONSTANTS Readers,          \* the reliable readers
          VolatileReaders,  \* those of VOLATILE durability
          Threads,          \* application threads that write
          Keys,             \* instances of the topic
          Depth,            \* KEEP_LAST depth, 0 for KEEP_ALL without limits
          PurgeAcked,       \* volatile, KEEP_ALL and not strict: acked samples go
          Piggyback,        \* a HEARTBEAT rides each first transmission
          InlineAcknack,    \* heartbeat_response_delay is zero
          StopInterrupted,  \* a write or a match may fall into the stop of the heartbeat
          Duplication,      \* the network may deliver a datagram more than once
          MaxQueuedAcknacks \* bound on UserAcknack messages queued at once

ASSUME ProtocolAssumption ==
    /\ VolatileReaders \subseteq Readers
    /\ IsFiniteSet(Threads)
    /\ Depth \in Nat
    /\ PurgeAcked => Depth = 0 /\ VolatileReaders = Readers
    /\ {PurgeAcked, Piggyback, InlineAcknack, StopInterrupted, Duplication} \subseteq BOOLEAN
    /\ MaxQueuedAcknacks \in Nat \ {0}

VARIABLES
    lastSN,     \* StatefulWriter::last_change_sequence_number
    app,        \* app[t]: how far thread t is in write
    history,    \* DataWriterHistoryCache::changes, stamped in the order of insertion
    cache,      \* WriterHistoryCache::changes, the sequence numbers it holds
    highestSN,  \* WriterHistoryCache::highest_sn
    matched,    \* readers with a ReaderProxy
    rp,         \* rp[r]: the ReaderProxy of r
    preHB,      \* readers whose preemptive heartbeat timer is armed
    hbRunning,  \* heartbeat_timer_running
    stopping,   \* threads between the two steps of stopping the heartbeat
    hbRestart,  \* the one-shot PeriodicHeartbeatDelay timer is armed
    notified,   \* last_acked_notify_sn
    removals,   \* OnUserCacheChangeRemoval messages not handled yet
    wp,         \* wp[r]: the WriterProxy r keeps for the writer
    rx,         \* rx[r]: the HEARTBEAT of a datagram whose DATA r handled
    hbSeen,     \* hbSeen[r]: the highest sequence number a heartbeat named to r
    ackTimer,   \* readers whose Acknack timer is armed
    ackQueue,   \* ackQueue[r]: UserAcknack messages queued at r
    preAck,     \* readers whose preemptive ACKNACK timer is armed
    delivered,  \* delivered[r][n]: how often sample n was given to r's history
    lost,       \* lost[r]: SAMPLE_LOST reports
    net         \* datagrams that may still arrive, any number of times

writerVars == <<lastSN, app, history, cache, highestSN, matched, rp, preHB,
                hbRunning, stopping, hbRestart, notified, removals>>
readerVars == <<wp, rx, hbSeen, ackTimer, ackQueue, preAck, delivered, lost>>
vars == <<writerVars, readerVars, net>>

----------------------------------------------------------------------------
(* Messages *)

NoHB == [first |-> 0, last |-> 0]

HBRange == [first : Nat, last : Nat]

Data(r, sn, hb)     == [type |-> "DATA", reader |-> r, sn |-> sn, hb |-> hb]
Heartbeat(r, hb)    == [type |-> "HEARTBEAT", reader |-> r, hb |-> hb]
Gap(r, sns)         == [type |-> "GAP", reader |-> r, sns |-> sns]
Acknack(r, base, m) == [type |-> "ACKNACK", reader |-> r, base |-> base, missing |-> m]
Preemptive(r)       == [type |-> "PREEMPTIVE", reader |-> r]

Messages == [type : {"DATA"}, reader : Readers, sn : SN, hb : HBRange]
            \cup [type : {"HEARTBEAT"}, reader : Readers, hb : HBRange]
            \cup [type : {"GAP"}, reader : Readers, sns : (SUBSET SN) \ {{}}]
            \cup [type : {"ACKNACK"}, reader : Readers, base : Nat, missing : SUBSET SN]
            \cup [type : {"PREEMPTIVE"}, reader : Readers]

\* The range a HEARTBEAT announces: get_seq_num_min and get_seq_num_max of the
\* cache c, or the empty range above its highest_sn h.
RangeOf(c, h) == IF c = {} THEN [first |-> h + 1, last |-> h]
                           ELSE [first |-> Min(c), last |-> Max(c)]

Send(ms) == net' = net \cup ms

\* The network once m has been received, which may yet arrive again.
Taken(m) == IF Duplication THEN net ELSE net \ {m}

----------------------------------------------------------------------------
(* The writer: ReaderProxy, acknowledgement and heartbeat bookkeeping *)

\* The threads that stop the heartbeat: the receive thread and the sending task.
Stoppers == {"receive", "send"}

\* With StopInterrupted FALSE, a stop is over before the next write or match.
MayInterruptStop == StopInterrupted \/ stopping = {}

ReaderProxy == [highestSent : SN \cup {Unknown}, lastIrrelevant : 0..MaxSN, maxAcked : Nat \cup {Unknown},
                requested : SUBSET SN, firstHB : BOOLEAN]

NewReaderProxy(irrelevant) ==
    [highestSent |-> Unknown, lastIrrelevant |-> irrelevant, maxAcked |-> Unknown,
     requested |-> {}, firstHB |-> FALSE]

\* Variant: an acknowledgement must go beyond the latest sample.
IsAckedByAllBeyond(c, q) == c = {} \/ \A r \in matched : q[r].maxAcked > Max(c)

\* is_acked_by_all for a cache c and proxies q; an empty cache owes nothing.
IsAckedByAll(c, q) == c = {} \/ \A r \in matched : q[r].maxAcked >= Max(c)

\* The furthest reader instead of the one furthest behind.
MaxAcked(q) == IF matched = {} THEN highestSN ELSE Max({q[r].maxAcked : r \in matched})

\* get_min_acked_sequence_number, with the fallback of process_acked_changes.
MinAcked(q) == IF matched = {} THEN highestSN ELSE Min({q[r].maxAcked : r \in matched})

(***************************************************************************)
(* process_acked_changes: when the floor of the acknowledgements advances,  *)
(* a volatile KEEP_ALL writer that is not strict removes every sample up to *)
(* it (remove_changes_acked_up_to), each removal telling the sending task.  *)
(***************************************************************************)
ProcessAckedChanges(floor) ==
    IF PurgeAcked /\ floor > notified
    THEN /\ notified' = floor
         /\ history' = {c \in history : c.sn > floor}
         /\ cache' = {n \in cache : n > floor}
         /\ removals' = removals \cup {n \in cache : n <= floor}
    ELSE UNCHANGED <<notified, history, cache, removals>>

----------------------------------------------------------------------------
(* DataWriter::write, in the steps between which it holds no lock *)

Idle == [pc |-> "idle", sn |-> 0, key |-> "none"]

Step(pc, t) == [app EXCEPT ![t].pc = pc]

\* A thread past eviction still holds the DataWriter cache lock.
CacheLocked == \E t \in Threads : app[t].pc = "evicted"

InstanceChanges(k) == {c \in history : c.key = k}

IsFull(k) == Depth > 0 /\ Cardinality(InstanceChanges(k)) >= Depth

(***************************************************************************)
(* The change evicted for a new one of instance k: of a keyed topic the     *)
(* lowest sequence number of the instance, of a keyless topic the change    *)
(* inserted first.  A topic with one instance stands for a keyless one.     *)
(***************************************************************************)
Victim(k) ==
    IF Cardinality(Keys) > 1
    THEN CHOOSE c \in InstanceChanges(k) : \A d \in InstanceChanges(k) : c.sn <= d.sn
    ELSE CHOOSE c \in history : \A d \in history : c.at <= d.at

\* A clock that only insertions advance: an allocation adds one to lastSN and
\* takes one from the threads that have no insertion ahead of them.
Stamp == lastSN + Cardinality({t \in Threads : app[t].pc \notin {"allocated", "evicted"}})

AllocateSequenceNumber(t) ==
    /\ app[t] = Idle
    /\ lastSN < MaxSN
    /\ lastSN' = lastSN + 1
    /\ \E k \in Keys : app' = [app EXCEPT ![t] = [pc |-> "allocated", sn |-> lastSN', key |-> k]]
    /\ UNCHANGED <<history, cache, highestSN, matched, rp, preHB, hbRunning, hbRestart,
                   notified, removals, stopping, readerVars, net>>

\* ensure_capacity, when the history is full: the removal reaches the RTPS
\* cache at once and the reader proxies through the sending task.
EnsureCapacity(t) ==
    /\ app[t].pc = "allocated"
    /\ ~CacheLocked
    /\ IsFull(app[t].key)
    /\ LET v == Victim(app[t].key)
       IN  /\ cache' = cache \ {v.sn}
           /\ removals' = removals \cup {v.sn}
           /\ history' = history \ {v}
    /\ app' = Step("evicted", t)
    /\ UNCHANGED <<lastSN, highestSN, matched, rp, preHB, hbRunning, hbRestart, notified,
                   stopping, readerVars, net>>

\* next_unsent_change, repeated until nothing is left.
Unsent(c, r) == {n \in c : n > LargerOf(rp[r].highestSent, rp[r].lastIrrelevant)}

SentBefore(c, r, n) ==
    LET lower == {m \in Unsent(c, r) : m < n}
    IN  IF lower = {} THEN rp[r].highestSent ELSE Max(lower)

(***************************************************************************)
(* The plan of send_unsent_changes_of_stateful_writer for one reader: a     *)
(* DATA per unsent change, and a GAP over each hole above the last one sent.*)
(***************************************************************************)
UnsentMessages(c, hb, r) ==
    {Data(r, n, IF Piggyback THEN hb ELSE NoHB) : n \in Unsent(c, r)}
    \cup {Gap(r, (SentBefore(c, r, n) + 1)..(n - 1)) :
             n \in {k \in Unsent(c, r) : /\ SentBefore(c, r, k) # Unknown
                                         /\ k > SentBefore(c, r, k) + 1}}

MarkSent(c, r) ==
    IF Unsent(c, r) = {}
    THEN rp[r]
    ELSE [rp[r] EXCEPT !.highestSent = LargerOf(@, Max(Unsent(c, r))),
                       !.firstHB = @ \/ Piggyback]

(***************************************************************************)
(* add_change_with_cleanup from the insertion on, and under the same cache  *)
(* lock WriterHistoryCache::add_change, which sends to every reader and     *)
(* starts the periodic heartbeat if it is not running.                      *)
(***************************************************************************)
AddChange(t) ==
    /\ \/ app[t].pc = "evicted"
       \/ app[t].pc = "allocated" /\ ~CacheLocked /\ ~IsFull(app[t].key)
    /\ MayInterruptStop
    /\ history' = history \cup {[sn |-> app[t].sn, key |-> app[t].key, at |-> Stamp]}
    /\ cache' = cache \cup {app[t].sn}
    /\ highestSN' = LargerOf(highestSN, app[t].sn)
    /\ Send(UNION {UnsentMessages(cache', RangeOf(cache', highestSN'), r) : r \in matched})
    /\ rp' = [r \in Readers |-> IF r \in matched THEN MarkSent(cache', r) ELSE rp[r]]
    /\ hbRunning' = TRUE
    /\ app' = IF PurgeAcked THEN Step("added", t) ELSE [app EXCEPT ![t] = Idle]
    /\ UNCHANGED <<lastSN, matched, preHB, hbRestart, notified, removals, stopping, readerVars>>

\* The purge a write ends with, for a writer whose readers never answer.
PurgeAfterWrite(t) ==
    /\ app[t].pc = "added"
    /\ ProcessAckedChanges(MinAcked(rp))
    /\ app' = [app EXCEPT ![t] = Idle]
    /\ UNCHANGED <<lastSN, highestSN, matched, rp, preHB, hbRunning, hbRestart, stopping,
                   readerVars, net>>

----------------------------------------------------------------------------
(* Discovery *)

(***************************************************************************)
(* SEDP matches a reader: a volatile one is owed nothing written before.    *)
(* The preemptive heartbeat is armed, and a stopped periodic heartbeat is   *)
(* restarted after a period if anything was ever written.                   *)
(***************************************************************************)
MatchedReaderAdd(r) ==
    /\ r \notin matched
    /\ MayInterruptStop
    /\ matched' = matched \cup {r}
    /\ rp' = [rp EXCEPT ![r] = NewReaderProxy(IF r \in VolatileReaders THEN lastSN ELSE 0)]
    /\ preHB' = preHB \cup {r}
    /\ hbRestart' = (hbRestart \/ (~hbRunning /\ lastSN > 0))
    /\ UNCHANGED <<lastSN, app, history, cache, highestSN, hbRunning, notified, removals,
                   stopping, readerVars, net>>

----------------------------------------------------------------------------
(* The writer's timers and sending task *)

\* register_periodic_heartbeat_timer_after_delay, when its delay has passed.
RestartPeriodicHeartbeat ==
    /\ hbRestart
    /\ hbRestart' = FALSE
    /\ hbRunning' = (hbRunning \/ ~IsAckedByAll(cache, rp))
    /\ UNCHANGED <<lastSN, app, history, cache, highestSN, matched, rp, preHB, notified,
                   removals, stopping, readerVars, net>>

\* The sending task works off its messages one after the other.
SendTaskFree == "send" \notin stopping

\* send_heartbeat_to_anonymous_matched_readers: once nothing is owed the timer
\* is stopped, and until then only readers that owe an acknowledgement are told.
\* The message of a timer removed since is not followed up here: it finds nobody
\* to tell unless a reader was matched or a sample written, see HeartbeatTimer.
PeriodicHeartbeat ==
    /\ hbRunning /\ SendTaskFree
    /\ IF IsAckedByAll(cache, rp)
       THEN stopping' = stopping \cup {"send"} /\ UNCHANGED net
       ELSE /\ Send({Heartbeat(r, RangeOf(cache, highestSN)) :
                       r \in {q \in matched : rp[q].maxAcked < Max(cache)}})
            /\ UNCHANGED stopping
    /\ UNCHANGED <<lastSN, app, history, cache, highestSN, matched, rp, preHB, hbRunning,
                   hbRestart, notified, removals, readerVars>>

(***************************************************************************)
(* stop_heartbeat_if_acked_by_all takes two steps: it finds everything      *)
(* acknowledged, and then clears heartbeat_timer_running and removes the    *)
(* timer.  HeartbeatTimer has the latter in detail.                         *)
(***************************************************************************)
StopHeartbeat(s) ==
    /\ s \in stopping
    /\ stopping' = stopping \ {s}
    /\ hbRunning' = FALSE
    /\ UNCHANGED <<lastSN, app, history, cache, highestSN, matched, rp, preHB, hbRestart,
                   notified, removals, readerVars, net>>

\* send_heartbeat_to_a_reader_proxy_inner with should_send_gap.
HeartbeatAndGap(r) ==
    {Heartbeat(r, RangeOf(cache, highestSN))}
    \cup {Gap(r, Min(cache)..rp[r].lastIrrelevant) :
             x \in {y \in {0} : cache # {} /\ Min(cache) <= rp[r].lastIrrelevant}}

PreemptiveHeartbeat(r) ==
    /\ r \in preHB /\ SendTaskFree
    /\ preHB' = preHB \ {r}
    /\ IF rp[r].firstHB
       THEN UNCHANGED <<rp, net>>
       ELSE Send(HeartbeatAndGap(r)) /\ rp' = [rp EXCEPT ![r].firstHB = TRUE]
    /\ UNCHANGED <<lastSN, app, history, cache, highestSN, matched, hbRunning, hbRestart,
                   notified, removals, stopping, readerVars>>

(***************************************************************************)
(* send_requested_changes: a requested sample that is irrelevant to the     *)
(* reader or no longer held is answered by GAP, one acknowledged since is   *)
(* skipped, any other is sent again without a heartbeat.                    *)
(***************************************************************************)
RequestedGaps(r) == {n \in rp[r].requested : n <= rp[r].lastIrrelevant \/ n \notin cache}

\* A repair that only sends what was not sent before.
RequestedDataUnsent(r) == {n \in rp[r].requested \ RequestedGaps(r) : n > rp[r].highestSent}

RequestedData(r) == {n \in rp[r].requested \ RequestedGaps(r) : n > rp[r].maxAcked}

SendRequestedChanges(r) ==
    /\ rp[r].requested # {} /\ SendTaskFree
    /\ Send({Data(r, n, NoHB) : n \in RequestedData(r)}
            \cup {Gap(r, g) : g \in {RequestedGaps(r)} \ {{}}})
    /\ rp' = [rp EXCEPT ![r].requested = {}]
    /\ UNCHANGED <<lastSN, app, history, cache, highestSN, matched, preHB, hbRunning,
                   hbRestart, notified, removals, stopping, readerVars>>

\* on_writer_cache_change_removal.
OnWriterCacheChangeRemoval(n) ==
    /\ n \in removals /\ SendTaskFree
    /\ removals' = removals \ {n}
    /\ rp' = [r \in Readers |-> [rp[r] EXCEPT !.requested = @ \ {n}]]
    /\ UNCHANGED <<lastSN, app, history, cache, highestSN, matched, preHB, hbRunning,
                   hbRestart, notified, stopping, readerVars, net>>

----------------------------------------------------------------------------
(* The writer's receive thread *)

ReceiveThreadFree == "receive" \notin stopping

(***************************************************************************)
(* handle_acknack_message: everything below the base is acknowledged, the   *)
(* missing numbers replace the earlier request, then the purge and the stop *)
(* of the heartbeat follow.  An ACKNACK that the count filter turns away is *)
(* one that was lost.                                                       *)
(***************************************************************************)
HandleAcknack(m) ==
    LET q == [rp EXCEPT ![m.reader].maxAcked = LargerOf(@, m.base - 1),
                        ![m.reader].requested = IF m.missing = {} THEN @ ELSE m.missing]
    IN  /\ m.type = "ACKNACK" /\ ReceiveThreadFree
        /\ m.reader \in matched
        /\ rp' = q
        /\ ProcessAckedChanges(MinAcked(q))
        /\ stopping' = IF hbRunning /\ IsAckedByAll(cache', q)
                       THEN stopping \cup {"receive"}
                       ELSE stopping
        /\ net' = Taken(m)
        /\ UNCHANGED <<lastSN, app, highestSN, matched, preHB, hbRunning, hbRestart, readerVars>>

\* handle_preemptive_acknack_message works on a copy of the proxy, so that
\* set_first_hb_sent is not kept.
HandlePreemptiveAcknack(m) ==
    /\ m.type = "PREEMPTIVE" /\ ReceiveThreadFree
    /\ m.reader \in matched
    /\ net' = Taken(m) \cup HeartbeatAndGap(m.reader)
    /\ UNCHANGED <<writerVars, readerVars>>

----------------------------------------------------------------------------
(* A reader's receive thread *)

Deliver(r, res) ==
    /\ wp' = [wp EXCEPT ![r] = res.wp]
    /\ delivered' = [delivered EXCEPT ![r] = [n \in SN |-> IF n \in res.out THEN @[n] + 1 ELSE @[n]]]
    /\ lost' = [lost EXCEPT ![r] = @ + res.lost]

\* handle_data_message; the submessages of one datagram are handled one after
\* the other, with no lock held in between.
HandleData(m) ==
    /\ m.type = "DATA"
    /\ rx[m.reader] = NoHB
    /\ Deliver(m.reader, DeliverChangeToReader(wp[m.reader], m.sn))
    /\ rx' = [rx EXCEPT ![m.reader] = m.hb]
    /\ net' = Taken(m)
    /\ UNCHANGED <<writerVars, hbSeen, ackTimer, ackQueue, preAck>>

\* The number set of an ACKNACK starts at its base; from_vec leaves out
\* numbers below.
AcknackOf(r, base, missing) == Acknack(r, base, {n \in missing : n >= base})

(***************************************************************************)
(* handle_heartbeat_message once the count is accepted.  No HEARTBEAT of a  *)
(* user writer is final, so it is always answered: at once, or by arming    *)
(* the Acknack timer, which is left alone if it is armed already.  The      *)
(* base and the missing numbers are those of the proxy before the flush,    *)
(* which leaves the ledger alone; rest is what stays of the network.         *)
(***************************************************************************)
HandleHeartbeat(r, hb, rest) ==
    LET res == HeartbeatHandler(wp[r], hb.first, hb.last)
        p   == ProcessHeartbeat(wp[r], hb.first, hb.last)
    IN  /\ Deliver(r, res)
        /\ hbSeen' = [hbSeen EXCEPT ![r] = LargerOf(@, hb.last)]
        /\ IF InlineAcknack
           THEN /\ net' = rest \cup {AcknackOf(r, CalculateBitmapBase(p),
                                               MissingChanges(p, p.expected, hb.last))}
                /\ UNCHANGED ackTimer
           ELSE /\ net' = rest
                /\ ackTimer' = ackTimer \cup {r}

HandleHeartbeatMessage(m) ==
    /\ m.type = "HEARTBEAT"
    /\ rx[m.reader] = NoHB
    /\ HandleHeartbeat(m.reader, m.hb, Taken(m))
    /\ UNCHANGED <<writerVars, rx, ackQueue, preAck>>

HandlePiggybackHeartbeat(r) ==
    /\ rx[r] # NoHB
    /\ HandleHeartbeat(r, rx[r], net)
    /\ rx' = [rx EXCEPT ![r] = NoHB]
    /\ UNCHANGED <<writerVars, ackQueue, preAck>>

(***************************************************************************)
(* should_accept_count turns a HEARTBEAT away when one of the same or a     *)
(* later count was accepted within 200 ms.  Counts follow the order in      *)
(* which the writer, under its cache lock, reads the ranges, so the later   *)
(* one named at least as much.                                              *)
(***************************************************************************)
RejectPiggybackHeartbeat(r) ==
    /\ rx[r] # NoHB
    /\ rx[r].last <= hbSeen[r]
    /\ rx' = [rx EXCEPT ![r] = NoHB]
    /\ UNCHANGED <<writerVars, wp, hbSeen, ackTimer, ackQueue, preAck, delivered, lost, net>>

HandleGap(m) ==
    /\ m.type = "GAP"
    /\ rx[m.reader] = NoHB
    /\ Deliver(m.reader, GapHandler(wp[m.reader], m.sns))
    /\ net' = Taken(m)
    /\ UNCHANGED <<writerVars, rx, hbSeen, ackTimer, ackQueue, preAck>>

----------------------------------------------------------------------------
(* A reader's timers and sending task *)

AcknackTimer(r) ==
    /\ r \in ackTimer
    /\ ackQueue[r] < MaxQueuedAcknacks
    /\ ackTimer' = ackTimer \ {r}
    /\ ackQueue' = [ackQueue EXCEPT ![r] = @ + 1]
    /\ UNCHANGED <<writerVars, wp, rx, hbSeen, preAck, delivered, lost, net>>

\* prepare_acknack: the answer is worked out from the ledger as it is now.
SendAcknack(r) ==
    LET base == CalculateBitmapBase(wp[r])
    IN  /\ ackQueue[r] > 0
        /\ ackQueue' = [ackQueue EXCEPT ![r] = @ - 1]
        /\ Send({AcknackOf(r, base, MissingChanges(wp[r], base, ChangesFromWriterMax(wp[r])))})
        /\ UNCHANGED <<writerVars, wp, rx, hbSeen, ackTimer, preAck, delivered, lost>>

\* A preemptive ACKNACK asks a writer that has said nothing yet to speak.
SendPreemptiveAcknack(r) ==
    /\ r \in preAck
    /\ preAck' = preAck \ {r}
    /\ IF wp[r].expected = Unknown THEN Send({Preemptive(r)}) ELSE UNCHANGED net
    /\ UNCHANGED <<writerVars, wp, rx, hbSeen, ackTimer, ackQueue, delivered, lost>>

----------------------------------------------------------------------------
(* Specification *)

Init ==
    /\ lastSN = 0 /\ highestSN = 0 /\ notified = 0
    /\ app = [t \in Threads |-> Idle]
    /\ history = {} /\ cache = {} /\ removals = {}
    /\ matched = {} /\ preHB = {}
    /\ rp = [r \in Readers |-> NewReaderProxy(0)]
    /\ hbRunning = FALSE /\ hbRestart = FALSE /\ stopping = {}
    /\ wp = [r \in Readers |-> NewProxy]
    /\ rx = [r \in Readers |-> NoHB]
    /\ hbSeen = [r \in Readers |-> 0]
    /\ ackTimer = {} /\ ackQueue = [r \in Readers |-> 0]
    /\ preAck = Readers
    /\ delivered = [r \in Readers |-> [n \in SN |-> 0]]
    /\ lost = [r \in Readers |-> 0]
    /\ net = {}

Application == \E t \in Threads : \/ AllocateSequenceNumber(t)
                                  \/ EnsureCapacity(t)
                                  \/ AddChange(t)
                                  \/ PurgeAfterWrite(t)

WriterTasks == \/ RestartPeriodicHeartbeat
               \/ PeriodicHeartbeat
               \/ \E s \in Stoppers : StopHeartbeat(s)
               \/ \E r \in Readers : \/ MatchedReaderAdd(r)
                                     \/ PreemptiveHeartbeat(r)
                                     \/ SendRequestedChanges(r)
               \/ \E n \in SN : OnWriterCacheChangeRemoval(n)

ReaderTask(r) == \/ HandlePiggybackHeartbeat(r)
                 \/ RejectPiggybackHeartbeat(r)
                 \/ AcknackTimer(r)
                 \/ SendAcknack(r)
                 \/ SendPreemptiveAcknack(r)

Receive(m) == \/ HandleAcknack(m)
              \/ HandlePreemptiveAcknack(m)
              \/ HandleData(m)
              \/ HandleHeartbeatMessage(m)
              \/ HandleGap(m)

\* A datagram may arrive late or never, and if Duplication again: that is all
\* of the network as far as safety goes.
Next == \/ Application
        \/ WriterTasks
        \/ \E r \in Readers : ReaderTask(r)
        \/ \E m \in net : Receive(m)

Spec == Init /\ [][Next]_vars

----------------------------------------------------------------------------
(* Liveness: a network that loses datagrams, but not one that is sent again  *)
(* and again                                                                  *)

\* A datagram that finds the receive thread busy waits in the socket buffer.
Lose(m) ==
    /\ rx[m.reader] = NoHB
    /\ net' = net \ {m}
    /\ UNCHANGED <<writerVars, readerVars>>

\* The kinds of datagram the network is fair to: any DATA of a sample, the
\* HEARTBEAT and the ACKNACK that tell the present state of their sender.
DataOf(r, n) == {m \in net : m.type = "DATA" /\ m.reader = r /\ m.sn = n}

LatestHeartbeat(r) ==
    {m \in net : m.type = "HEARTBEAT" /\ m.reader = r /\ m.hb = RangeOf(cache, highestSN)}

LatestAcknack(r) ==
    {m \in net : m.type = "ACKNACK" /\ m.reader = r /\ m.base = CalculateBitmapBase(wp[r])}

\* No thread or task stops with work in hand.
Fairness ==
    /\ \A t \in Threads : WF_vars(EnsureCapacity(t) \/ AddChange(t) \/ PurgeAfterWrite(t))
    /\ WF_vars(RestartPeriodicHeartbeat \/ PeriodicHeartbeat)
    /\ \A s \in Stoppers : WF_vars(StopHeartbeat(s))
    /\ \A r \in Readers :
         /\ WF_vars(SendRequestedChanges(r)) /\ WF_vars(PreemptiveHeartbeat(r))
         /\ WF_vars(ReaderTask(r))
         /\ \A n \in SN : SF_vars(\E m \in DataOf(r, n) : HandleData(m))
         /\ SF_vars(\E m \in LatestHeartbeat(r) : HandleHeartbeatMessage(m))
         /\ SF_vars(\E m \in LatestAcknack(r) : HandleAcknack(m))

LossyNext == Next \/ \E m \in net : Lose(m)

(***************************************************************************)
(* The same from a state in which everything is written, by one thread and  *)
(* with one instance: either to readers that lost all of it, or before the  *)
(* readers are matched, while the heartbeat still runs or after it stopped. *)
(* Only repair is left, and no preemptive ACKNACK to set it off.            *)
(***************************************************************************)
RepairInit ==
    /\ lastSN = MaxSN /\ highestSN = MaxSN /\ notified = 0
    /\ app = [t \in Threads |-> Idle]
    /\ \E k \in Keys : history = {[sn |-> n, key |-> k, at |-> n] : n \in SN}
    /\ cache = SN /\ removals = {}
    /\ \/ /\ matched = Readers /\ hbRunning = TRUE
          /\ rp = [r \in Readers |-> [NewReaderProxy(0) EXCEPT !.firstHB = TRUE, !.highestSent = MaxSN]]
       \/ /\ matched = {} /\ hbRunning \in BOOLEAN
          /\ rp = [r \in Readers |-> NewReaderProxy(0)]
    /\ preHB = {} /\ preAck = {} /\ hbRestart = FALSE /\ stopping = {}
    /\ wp = [r \in Readers |-> NewProxy]
    /\ rx = [r \in Readers |-> NoHB]
    /\ hbSeen = [r \in Readers |-> 0]
    /\ ackTimer = {} /\ ackQueue = [r \in Readers |-> 0]
    /\ delivered = [r \in Readers |-> [n \in SN |-> 0]]
    /\ lost = [r \in Readers |-> 0]
    /\ net = {}

RepairSpec == RepairInit /\ [][LossyNext]_vars /\ Fairness

----------------------------------------------------------------------------
(* Properties *)

Change == [sn : SN, key : Keys, at : Nat]

\* Every variable keeps the shape the code's types give it.
TypeOK ==
    /\ lastSN \in 0..MaxSN
    /\ app \in [Threads -> [pc : {"idle", "allocated", "evicted", "added"},
                            sn : 0..MaxSN, key : Keys \cup {"none"}]]
    /\ history \subseteq Change
    /\ cache \subseteq SN
    /\ highestSN \in 0..MaxSN
    /\ matched \subseteq Readers
    /\ rp \in [Readers -> ReaderProxy]
    /\ preHB \subseteq Readers
    /\ hbRunning \in BOOLEAN /\ hbRestart \in BOOLEAN
    /\ stopping \subseteq Stoppers
    /\ notified \in Nat
    /\ removals \subseteq SN
    /\ wp \in [Readers -> Proxy]
    /\ rx \in [Readers -> HBRange]
    /\ hbSeen \in [Readers -> Nat]
    /\ ackTimer \subseteq Readers
    /\ ackQueue \in [Readers -> Nat]
    /\ preAck \subseteq Readers
    /\ delivered \in [Readers -> [SN -> Nat]]
    /\ lost \in [Readers -> Nat]
    /\ net \subseteq Messages

Received(r) == {n \in SN : delivered[r][n] > 0}

\* The delivery cursor expected_sn separates what a reader was given from what
\* it holds back, whatever DATA, HEARTBEAT and GAP arrive in whatever order.
\* report_abandoned_samples walks the range from the cursor to the lowest
\* buffered sample, and a range that ends before it starts panics.
CursorSeparates ==
    \A r \in Readers : /\ \A b \in wp[r].buffered : wp[r].expected < b
                       /\ \A n \in Received(r) : n < wp[r].expected

\* A sample reaches a reader's history at most once, although it is sent again
\* on request and any datagram may arrive twice.
NoDuplicateDelivery == \A r \in Readers, n \in SN : delivered[r][n] <= 1

\* Samples reach a reader's history in the order of their sequence numbers:
\* nothing is delivered after a sample with a higher one.
OrderedDelivery ==
    [][\A r \in Readers, m, n \in SN :
          /\ delivered[r][m] > 0
          /\ delivered'[r][n] > delivered[r][n]
          => m < n]_vars

Channel ==
    INSTANCE InOrderChannel
    WITH Start <- Unknown,
         cursor <- [r \in Readers |-> wp[r].expected],
         received <- [r \in Readers |-> Received(r)]

\* Writer, network and reader together are an in-order channel: one datagram
\* handled moves the cursor expected_sn of one reader forward and delivers only
\* samples it moves over.
ImplementsChannel == Channel!ChannelSpec

\* give_up_oldest_hole_if_full keeps the in-order buffer below its limit in
\* every state between two handlers: a reader that misses one sample does not
\* buffer the rest of the writer's output.
BufferBounded == \A r \in Readers : Cardinality(wp[r].buffered) < InOrderBuffer

\* SAMPLE_LOST is never reported more often than there are samples the cursor
\* passed without delivering them, whichever of lost_changes_update and
\* report_abandoned_samples reports it.
LostAtMostOnce ==
    \A r \in Readers :
        lost[r] <= Cardinality({n \in SN : n < wp[r].expected /\ n \notin Received(r)})

\* What a reader can still be given: it is in its history or its buffer.
Holds(r, n) == n \in Received(r) \/ n \in wp[r].buffered

Owed(r, n) == r \in matched /\ n > rp[r].lastIrrelevant /\ n <= highestSN

\* calculate_bitmap_base: an acknowledgement covers only samples the reader has
\* received or was told are irrelevant, so a writer that drops acknowledged
\* samples never drops one a matched reader lacks.
AckedIsReceived ==
    \A r \in Readers, n \in SN : (Owed(r, n) /\ n <= rp[r].maxAcked) => Holds(r, n)

\* remove_changes_acked_up_to removes a sample only when every matched reader
\* it is owed to has received it.
PurgedIsReceived ==
    \A r \in Readers, n \in SN : (Owed(r, n) /\ n \notin cache) => Holds(r, n)

\* Reliable delivery: the cursor of a reader never passes a sample the writer
\* still holds for it, since a sample below the cursor is dropped on arrival.
NothingSkipped ==
    \A r \in Readers, n \in cache : (Owed(r, n) /\ n < wp[r].expected) => n \in Received(r)

\* Reliable delivery: every sample the writer holds for a matched reader is
\* delivered in the end, however many datagrams are lost.
EventuallyDelivered ==
    \A r \in Readers, n \in SN : (r \in matched /\ n \in cache) ~> (n \in Received(r))

\* A writer with nothing more to say falls silent: the periodic heartbeat does
\* not run for ever.
HeartbeatStops == []<>(~hbRunning)
=============================================================================
