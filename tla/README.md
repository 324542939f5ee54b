# int2DDS in TLA+

A model of the parts of int2DDS in which several threads, processes or participants
meet: the reliable RTPS protocol between a DataWriter and its DataReaders, the
periodic heartbeat and its timer, the histories at both ends with their limits and
their locks, coherent sets, the WaitSet, and the ring buffer of the shared memory
transport. The specifications are checked with TLC on small instances; for five of
them the most important safety properties are proved with TLAPS for any number of
readers, threads, conditions, samples and messages.

## The system

| part | state | operations | modelled in |
| --- | --- | --- | --- |
| `DataWriter`, `DataWriterHistoryCache` | samples by sequence number and instance | write, KEEP_LAST eviction, blocking KEEP_ALL writes, purge of acknowledged samples | `DataWriterHistory`; in less detail `ReliableProtocol` |
| `Publisher` | depth of nested coherent changes | begin and end a coherent set | `CoherentSets` |
| `StatefulWriter`, `ReaderProxy`, `WriterHistoryCache` | highest sent, highest acknowledged and requested numbers per reader; heartbeat flag | first transmission, repair, heartbeat, purge | `ReliableProtocol`, `HeartbeatTimer` |
| `UserLogic` | none of its own | handlers of DATA, HEARTBEAT, ACKNACK, GAP; the sending task's work | `ReliableProtocol` |
| `StatefulReader`, `WriterProxy` | cursor, ledger of changes, in-order buffer | receive, settle, flush, give up a hole, compute an ACKNACK | `WriterProxy` |
| SEDP | matched endpoints, one-shot preemptive timers | match a reader, preemptive HEARTBEAT and ACKNACK | `ReliableProtocol` (the part a match plays for one writer) |
| `ReaderHistoryCache` | changes, coherent sets held back | buffer, close and commit a set, remove changes | `CoherentSets`, `DataReaderAccess` |
| `DataReaderHistoryCache`, `TimeBasedFilter`, `DeadlineMonitor` | samples, instances, owners, held samples, timers | add, evict, reject, hold, deliver, purge, revoke | `DataReaderHistory` |
| `DataReader`, `ReadCondition` | READ marks, DATA_AVAILABLE, trigger | read, take, expire, reevaluate | `DataReaderAccess` |
| timer thread | message queue, timers | add, remove, fire | `HeartbeatTimer` (one repeating timer), `DataReaderHistory` (one-shot timers) |
| `WaitSet`, `StatusCondition` | attached conditions, generation, parked threads; masks, callback | wait, attach, detach, notify; raise and clear a status, set the mask | `WaitSet` |
| UDP | datagrams under way | lose, duplicate, reorder | `net` in `ReliableProtocol` |
| shared memory ring | two positions, a sequence counter, the data area | write in two phases, read, die in between | `RingBuffer` |

Application threads write, read and wait; each participant has a receive thread
that runs the handlers, a sending task that works off a queue of messages, a timer
thread and monitor threads. What is hard about it: samples arrive in any order,
several times or never, and four messages with their own rules repair that; the
writer forgets samples on the word of acknowledgements; sequence numbers, caches,
proxies, READ marks and the heartbeat flag are behind different locks; what was
read under one of them is used under the next; and a waiting thread depends on
another thread noticing, at the right moment, that it waits.

## Modules

`WriterProxy` holds the reader's bookkeeping as operators on a record: `expected`
is the cursor (`expected_sequence_number`), `ledger` the status of each change and
`buffered` the in-order buffer. `DeliverChangeToReader`, `HeartbeatHandler` and
`GapHandler` are the three handlers; each returns the new proxy, the samples
released to the history and the number of SAMPLE_LOST reports. The loops of the
source over sequence numbers appear as the set they compute: `FlushedChanges` is
the set of samples that `flush_buffered_changes` pops, with the cursor it really
ends at.

`ReliableProtocol` composes one writer, its readers and the network.

| actions | code |
| --- | --- |
| `AllocateSequenceNumber`, `EnsureCapacity`, `AddChange`, `PurgeAfterWrite` | `DataWriter::add_change_pooled_with`, in the steps between which no lock is held; `AddChange` includes the first transmission and the start of the heartbeat, which happen under the cache lock |
| `MatchedReaderAdd`, `RestartPeriodicHeartbeat`, `SendPreemptiveAcknack`, `PreemptiveHeartbeat` | the match in `sedp_logic.rs` and the one-shot timers it starts |
| `PeriodicHeartbeat`, `StopHeartbeat` | `send_heartbeat_to_anonymous_matched_readers` and the two steps of `stop_heartbeat_if_acked_by_all` |
| `SendRequestedChanges`, `OnWriterCacheChangeRemoval` | the sending task |
| `HandleAcknack`, `HandlePreemptiveAcknack` | the writer's receive thread |
| `HandleData`, `HandlePiggybackHeartbeat`, `RejectPiggybackHeartbeat`, `HandleHeartbeatMessage`, `HandleGap` | the reader's receive thread; the submessages of one datagram are separate steps, `rx` holds the heartbeat that follows a DATA |
| `AcknackTimer`, `SendAcknack` | the delayed ACKNACK: armed by a heartbeat, queued by the timer, computed when the sending task gets to it |

`net` is a set of datagrams. Without `Duplication` a datagram goes when received;
with it, it may arrive again. In `Spec` a datagram may simply never be received;
`Lose` exists for liveness, where a datagram must be able to go for good. The counts
that the receivers filter by are not modelled: a message the filter turns away is
one that was lost.

`InOrderChannel` is what a reader is promised: each sample at most once, each
delivery above all earlier ones. `ReliableProtocol` implements it with the cursor
as refinement mapping.

`HeartbeatTimer` refines start and stop of the heartbeat to the steps of the
threads: the compare-and-swap on `heartbeat_timer_running`, the messages to the
timer thread, the check of cache and proxies one after the other, and heartbeat
messages already queued when the timer goes. Its readers are one number, the lowest
acknowledgement. A write may fall anywhere into a stop; `overtaken` records that the
last message to the timer thread is a removal by a stop that compared the
acknowledgements with an older change than the latest.

`DataWriterHistory` is the writer's end in detail. `Register`, the allocation and
`AddChange` are separate steps of a write; `AddChange` makes room by evicting
(KEEP_LAST) or by dropping the first acknowledged change (KEEP_ALL), and otherwise
enters `"wait"` with the lock of the history held, which `AddWhenAcked` and `TimeOut`
leave. `ReceiveAck` and `Unmatch` are the receive thread; `NotifyAcked` and
`PurgeAcked` the all-acked callback, which needs that lock. `LoadLast` and `CompareLast`
are the loop of `wait_for_acknowledgments`, which compares the last number allocated with
the reader proxies. A history without keys is one with a single instance. `changes` is
a set; each change has its place in the order of insertion, because KEEP_LAST evicts the
lowest number of a keyed instance but the first change that was added of the whole
history.

`DataReaderHistory` is the reader's. `Arrive` is `add_change` as a whole: ownership
and its candidates, the time-based filter, capacity (evict, reject, reuse the bucket
of an unused instance), the state of the instance and its timers. `WindowElapses`
and the steps of `TimerThread` deliver a held sample and purge instances, giving up
one lock before the next is taken. `CollectMissed` and `RevokeOwner` are the deadline
monitor, `LoseWriter` the loss of liveliness or of the match, `DrainNotification` and
`Take` the application.

`DataReaderAccess` takes `read` and `take` apart into the locks they take: clear the
status (`Begin`), `Snapshot`, one `Examine` per change followed by `MarkRead` or by
`RemoveFromStore` and `RemoveFromRtps`, then `Prune`, and the evaluation of the condition
in three: its own look at the history (`Evaluate`), the marks under their lock
(`MatchSamples`), and the store of the trigger with no lock held (`SetTrigger`). The
receive thread stores (`Receive`), raises DATA_AVAILABLE (`RaiseStatus`), looks at the
change's state (`MatchChange`) and triggers the condition (`TriggerCondition`); the timer
thread purges (`PurgeStore`, `PurgeRtps`).

`CoherentSets` runs from `begin_coherent_changes` to the history of a reader. The end
of a set is two moments: the depth drops, then `end_coherent_set` sends the marker of
each writer. The reader `Accept`s a change and `Deliver`s it: buffer a member, close
the set at a marker or at a sample outside of it, commit it if it is complete and
fits.

`RingBuffer` has one step per access to an atomic and one per copy of a header or a
message. Memory is counted in cells of eight bytes. A process may end within a write
(`Crash`); a writer that has waited too long commits out of turn (`CommitTimeout`). `log` records the reservations, so that a
reader's results can be compared with what was written.

`WaitSet` has one step for each lock and each access to an atomic. `current` is the
set of waiters whose snapshot equals the generation, which is all that is ever
asked of the generation. A mask stored with `Release` becomes visible to other
threads in a step of its own (`MaskVisible`), since the following `Acquire` load
may overtake it.

The `MC` modules add bounds, symmetries and settings. `DataWriterHistory`,
`DataReaderHistory`, `DataReaderAccess` and `CoherentSets` have a variable for the QoS
and the environment, chosen in `Init` from `Profiles` and never changed: one run
covers all the profiles its MC module lists.

## Runs

| run | instance | checks |
| --- | --- | --- |
| `keep_all` | KEEP_ALL, one writing thread, two volatile readers matched at any moment, piggybacked heartbeats, immediate ACKNACKs, duplication | `AckedIsReceived`, `NothingSkipped`, `PurgedIsReceived`: what is acknowledged, passed over or dropped has reached every reader it was owed to |
| `keep_last` | two writing threads, two instances with KEEP_LAST 1, delayed ACKNACKs, an in-order buffer of two | `CursorSeparates`, `LostAtMostOnce`, `BufferBounded`, and `ImplementsChannel`, the refinement, which includes that nothing is delivered twice or out of order |
| `repair` | two samples whose first transmissions were lost, or written before the reader was matched | under fairness `EventuallyDelivered`, and `HeartbeatStops` once everything is acknowledged |
| `heartbeat_timer` | up to three writes at any moment, two stopping threads, the timer thread | `TimerKept`; under fairness `OwedIsAcked` |
| `wait_status` | two waiters, one with a time-out, and two notifiers, one of which sets masks | `NoLostWakeup`; under fairness `WaitReturns` |
| `attach_detach` | two threads attach and detach two conditions during wait and notification | `CallbackIffAttached` |
| `writer_history` | eight profiles: KEEP_ALL that waits for ever, KEEP_ALL that times out, with and without purge, KEEP_LAST; one instance or two; two writing threads, or one and a thread that waits for acknowledgements | `LimitsKept`, `AckedIsPurged`, `NothingUnackedRemoved`; under fairness `WriteReturns`, and `AcksArrive`: `wait_for_acknowledgments` comes back |
| `blocked_write` | KEEP_ALL that purges and waits for ever | `WriteReturns` is violated, see below |
| `reader_history` | three profiles: filtered with room for one instance; fail-over between two writers with deadlines; KEEP_ALL that rejects | `LimitsKept`, `AliveHasWriter`, `SeparationKept`, `NotifiedIsWriterless`; under fairness `HeldIsDelivered` |
| `reader_access` | two threads that call one at a time (with filtering and expiry) or at the same time | `HistoriesAgree`, `NoneOverlooked`, `TriggerFollows`; for one call at a time `HandedOutOnce`, `SerialPruning` |
| `coherent_sets` | five profiles: concurrent writes; KEEP_LAST 1; a small buffer; KEEP_ALL; unmatching | `AllOrNothing`, `StoredIsNotified`, `BufferLimitKept`, `NothingWithheld` |
| `ring_buffer` | two writers and a reader on a ring of ten cells, messages of two sizes, any writer may die | `CommittedIsWritten`, `IntactReads`, `NothingMissed`; under fairness `WriteReturns` |

`TypeOK` is checked where the types are not proved under another name (`reader_history`,
`coherent_sets`), and in `ring_buffer`, where it also says that no message crosses the
end of the ring.

`blocked_write` is the one run that must fail. A KEEP_ALL write without room waits
with the lock of the history held. When a volatile history also purges, the receive
thread takes that lock in the all-acked callback and then handles no further ACKNACK:
the acknowledgement the write waits for is never processed. With a finite
`max_blocking_time` the write comes back with Timeout; with an infinite one it never
does. The finding in `PROJECT.json` quotes the comments this contradicts.

### What bounds the claims

The properties above hold under the settings of their runs. The settings below are
the ones under which a property fails, each for a reason in the code; all of them can
be reproduced by changing the constants of the run.

| property | fails with | because |
| --- | --- | --- |
| `AckedIsReceived`, `PurgedIsReceived` | `keep_all` with `InlineAcknack = FALSE` | an ACKNACK computed between a DATA and the heartbeat behind it acknowledges an earlier sample that never arrived (`writer_proxy.rs:533`) |
| `AckedIsReceived`, `PurgedIsReceived` | `keep_all` with `Piggyback = FALSE` | a heartbeat sent before two samples is answered after the second of them arrived, with a base above the first (`writer_proxy.rs:533`) |
| `NothingSkipped` | `keep_all` with one reader, `MaxSN = 3`, `InOrderBuffer = 4`, `Piggyback` and `InlineAcknack = FALSE`, `MaxMessages = 6` | a sample purged too early moves the start of a heartbeat, and with it the cursor, above buffered samples, which the flush counts once more (`writer_proxy.rs:198`) |
| `NothingSkipped` | `keep_last` with one thread, one key, `Depth = 2`, `MaxSN = 4`, `InOrderBuffer = 3`, `Piggyback = TRUE`, `MaxMessages = 6` | a heartbeat moves the cursor above buffered samples and the flush counts them once more (`writer_proxy.rs:198`) |
| `NothingSkipped` | `keep_last` with one thread, `InOrderBuffer = 3`, `Piggyback` and `InlineAcknack = TRUE`, `MaxMessages = 6` | a GAP above a sample still under way carries the cursor over it (`user_logic.rs:4067`) |
| `AckedIsReceived`, `NothingSkipped`, `PurgedIsReceived` | `keep_all` with two threads | two writes enter the cache in the other order than their numbers, and the lower one is never sent (`data_writer.rs:1517`) |
| `EventuallyDelivered` | `repair` with `StopInterrupted = TRUE` | a reader matched inside a stop whose preemptive messages are lost is never told of the history |
| `WaitReturns` | `wait_status` with one waiter, one notifier, `Attachers = {a1}`, `Maskers`, `Timed` and `FirstAttached` empty | a status raised while its condition is being attached wakes nobody (`wait_set.rs:184`) |
| `NoLostWakeup` | `wait_status` with `MaskApart = FALSE` | a mask is set while a status is added; each call may read the other's old value |
| `NothingMissed` | `ring_buffer` with `Lengths = {1}`, `MaxMessage = 1`, one writer, `MaxWrites = 4` | the rest of the ring is too short for a wrap marker; the writer skips it, the reader interprets it (`ring_buffer.rs:210`) |
| `SetIsWhole` | `coherent_sets` with a profile both `concurrent` and `lossy` | a sample written between `end_coherent_changes` and the marker takes the marker's place and closes the set one number short (`reader_history.rs:274`) |

Other behaviours are part of the models and named in the properties where they matter:

- The heartbeat. A write between the comparison of a stop and its end finds the flag set
  and starts nothing, and the stop then removes the timer: the sample gets no heartbeat
  until the next write (`overtaken` in `TimerKept` and `OwedIsAcked`,
  `stateful_writer.rs:471`).
- History of the reader. A held sample taken out of the filter by the timer thread is
  added after a dispose that came meanwhile (`data_reader_history.rs:1097`). There is
  one autopurge timer per reader, so that of two instances one is not purged; the timer
  is not cancelled when the instance comes back, and drops what has arrived since. A
  refused dispose of a non-owner discards the owner's held sample. The loss of a writer
  visits empty entries of candidates and notifies of a reclaimed instance again. A
  missed deadline revokes whoever owns the instance by the time it is handled
  (`demoted` in `AliveHasWriter`), and the timer of a forgotten instance fires on its
  successor (`recycled` in `SeparationKept`).
- Access. Changes the content filter rejects stay in the RTPS history, and so do expired
  ones (`leaked` in `HistoriesAgree`). Of two reading threads one prunes by a snapshot
  older than what the other has read, and the sample is NOT_READ again
  (`data_reader.rs:1106`); two taking threads may both return a sample (both excluded by
  `Serial`). An arrival during an evaluation of the condition leaves it untriggered, and
  so does a call that prunes a mark after another has counted it (`raced` in
  `TriggerFollows`).
- History of the writer. A change added after one with a higher number is not purged
  until the next acknowledgement (`late` in `AckedIsPurged`). A write that was refused or
  timed out has used up its number; while it is the last one, `wait_for_acknowledgments`
  waits for an acknowledgement nobody will send (`lost` in `AcksArrive`,
  `stateful_writer.rs:876`), although `data_writer.rs:2550` says that TIMEOUT means "some
  data has not yet been acknowledged".
- Coherent sets. An error of a sample that arrives together with a closed set leaves the
  stored members without notification (the premise of `StoredIsNotified`). A member
  delivered after an unmatch opens a set that nothing closes.

### Bounds

Two or three samples suffice for the shapes that matter to cursor and ledger: a
hole with a sample above it, two samples in the buffer, an evicted sample below a
held one. `MaxMessages` bounds the different datagrams in the network at once; with
three or four of them a stale HEARTBEAT, a late DATA and a GAP meet. One queued
`UserAcknack` is enough for an ACKNACK that is older than the heartbeat it seems to
answer. Two notifiers and two waiters are what it takes for one waiter's wake-up to
be at stake in the other's.

Three sequence numbers fill a writer's history of two and let a third write wait
(`MaxSeq`); three arrivals fill a reader's instance, replace a held sample and bring
an instance back (`MaxArrivals`); in `reader_access` the third arrival evicts the first
while a call is looking at it. Five numbers of one writer hold a set, its marker and
samples around them. Ten cells and three messages let the ring wrap, with and without
a marker, and let a writer overtake a reader. `MaxRetries` is two instead of the
constant of the code, which is reached the same way.

Deadlock is not checked where a run may end with everything written, arrived and
acknowledged; a WaitSet never ends and is checked for it.

### Fairness

Threads and timers go on with the work they have (weak fairness). The network is
strongly fair to a sample that is sent again and again, to the heartbeat that tells
the present state and to the ACKNACK that answers it, as reliable delivery needs of
any network; nothing is assumed of the one-shot preemptive messages. A mutex that is
released time and again is obtained in the end (`WaitSet`, `DataWriterHistory`). In
`DataReaderHistory` time passes, and the timer thread overtakes no timer for ever, as
it serves them in the order of expiry. In `RingBuffer` a thread goes on once it has
begun, and its process may still end. Applications owe no call: neither a write, nor
a read, a status change or a time-out.

## Proofs

Each theorem holds for every value of the constants that satisfies the `ASSUME` of its
module: natural numbers for the bounds, finitely many threads in the protocol, disjoint
kinds of thread in the WaitSet, Booleans for the switches, a ring and messages that are
not empty. Further premises are in the theorem; the run of the property satisfies them.

| module | theorem | establishes |
| --- | --- | --- |
| `ReliableProtocol_proofs` | `TypeCorrect` | every variable keeps its type |
| | `CursorSafe` | `CursorSeparates`: delivered samples lie below the cursor of a reader, buffered ones above it |
| | `AtMostOnce`, `InOrder` | no sample is delivered twice; each delivery lies above every earlier one |
| | `BufferLimit` | `BufferBounded`: the in-order buffer stays below its limit |
| | `Refinement` | `ImplementsChannel`: the protocol implements `InOrderChannel` |
| | `LossesCounted` | `LostAtMostOnce`, in every configuration |
| `ReliableDelivery_proofs` | `AcksAreTrue` | `AckedIsReceived` in every behaviour that stays `Undisturbed`, with KEEP_ALL, a heartbeat on each first transmission and ACKNACKs without delay |
| | `PurgesAreSafe` | `PurgedIsReceived` in every behaviour that stays `Undisturbed`, with KEEP_ALL and, for a writer that purges, such heartbeats and ACKNACKs |
| | `Reliable` | `NothingSkipped` under the same conditions as `PurgesAreSafe` |
| `HeartbeatTimer_proofs` | `TypeCorrect` | types; nothing is acknowledged that was not announced |
| | `TimerStays` | `TimerKept` |
| `WaitSet_proofs` | `TypeCorrect` | types; who holds the conditions mutex |
| | `CallbackExact` | `CallbackIffAttached` |
| | `NoWakeupLost` | `NoLostWakeup`, if conditions are attached beforehand and no status is added while a mask is being set |
| `DataReaderAccess_proofs` | `TypeCorrect` | types; KEEP_LAST bounds the history |
| | `HistoriesInStep` | `HistoriesAgree` |
| | `NothingOverlooked` | `NoneOverlooked` |
| | `ReadStaysRead` | `SerialPruning` |
| | `TriggerKept` | `TriggerFollows` |
| | `OncePerChange` | `HandedOutOnce` |
| `DataWriterHistory_proofs` | `HistoryLimits` | `LimitsKept` |
| | `AcknowledgedIsPurged` | `AckedIsPurged` |
| | `KeepAllKeeps` | `NothingUnackedRemoved`, a property of steps |
| `DataReaderHistory_proofs` | `ReaderTypes` | `TypeOK` |
| | `ReaderLimits` | `LimitsKept` |
| | `AliveIsOwned` | `AliveHasWriter` |
| | `SeparationHolds` | `SeparationKept` |
| | `NoticesAreTrue` | `NotifiedIsWriterless` |
| `RingBuffer_proofs` | `RingTypes` | `TypeOK` |
| | `CommitsAreWhole` | `CommittedIsWritten` |
| | `ReadsWhileRestsFit` | `IntactReads` and `NothingMissed` in every state with `RestsFit`, for any ring and any lengths |

**The protocol.** None of its properties is inductive on its own. The invariant `Inv`
joins the types of writer, readers and network with `Separated` (the buffer lies
strictly above the cursor, has room and is empty before the first sample) and
`GivenOnce` (a sample given to the history was given once and lies below the cursor).
`GivenOnce` needs `Separated` to know that what a flush releases was never given
before; `Separated` needs the limit of the buffer, since a full one gives up its oldest
hole. Lemmas about the operators of `WriterProxy` show that each handler keeps
`Separated`, never lowers the cursor and releases only samples between the old cursor
and the new. The step proofs then have one lemma per action, and `Advances`, what a step
may do to deliveries, gives the action property and the refinement.

**Losses.** `LostAtMostOnce` compares a counter with a set of samples that only grows.
`LossInv` adds what keeps the two reports apart: a ledger has nothing outstanding below
its cursor (`Tidy`), so that `lost_changes_update` and `report_abandoned_samples` count
different samples, and every heartbeat starts at a sequence number (`StartInv`).

**Reliable delivery.** The three properties of `keep_all` hold with KEEP_ALL and as long
as the behaviour is `Undisturbed`: any number of threads may write as long as no two
writes overlap, and the in-order buffer of a reader may have any size as long as it is not
about to be full. `AcksAreTrue` also asks that the answers are prompt (`Prompt`): each
first transmission carries a heartbeat, and an ACKNACK is sent without delay. The other
two ask this only of a writer that purges by acknowledgements, one that is VOLATILE and
has `strict` off. The default is `strict`, and then the default delay of 80 ms
(`qos_policy.rs:2647`) is within `PurgesAreSafe`, which has nothing to show for such a
writer, and `Reliable`, which has. For a writer that purges, and for `AcksAreTrue`, the
default delay is not enough. The table of what bounds the claims has, for each of these
conditions, the behaviour that breaks a property without it; a full buffer gives up holes
by design. That a writer which purges has volatile readers only is an assumption of
`ReliableProtocol`: one that offers VOLATILE is not matched with a reader that asks for
more (`qos.rs:18`).

The invariant `KeepInv` follows a sample around the whole loop. `CacheInv`: numbers enter
the cache in their order, and only a purge takes one out. `CursorInv`: a ledger names only
numbers the reader may have heard of (`Told`), and with prompt answers a reader that
knows of a sample knows of every lower one, but for what the heartbeat it is about to
handle tells it (`HearsInOrder`). `MessageInv`: the same for each datagram under way,
however old; a heartbeat starts no higher than what its reader may still need, a GAP names
nothing that is still needed, and a prompt ACKNACK has a base at or below the cursor.
`ProxyInv`: so what the writer believes acknowledged lies below the cursor, and only that
is gone. Where answers are late the base of an ACKNACK may be too high, which does no harm
to the cursor as long as nothing is purged by it: a GAP then names only numbers a reader
was never owed. The messages are as old as they like because what the invariant compares
them with only grows (`Grows`).

**The heartbeat.** `Kept` compares the timer as it will be when the queue is worked off
(`Final`) with what is owed: unless `overtaken`, it is there while the flag is set and no
start is under way, and while the latest change is unacknowledged and no write is. A stop
that goes through has seen its change acknowledged. If that still is the latest, no write
has set the flag since it was cleared; if not, the removal sets `overtaken`.

**The WaitSet.** `TypeInv` ties the mutex to the places of the threads, `Planted` the
callbacks to the attach or detach under way. For `NoWakeupLost` the property only names a
thread that is somewhere at the condition; the invariant `WakeInv` says that it is bound
to call the closure (`Owes`): a notifier that has added a status which is enabled, or
that has set the mask and will still test it. `Informed` carries this through the scan
of a waiter condition by condition, `MaskTested` through the moment at which a mask is
set but not visible to others yet.

**Access.** `TypeInv` has, beyond the types, that a call's list is part of its snapshot.
`HistoriesAgree` becomes inductive with what is on its way out of the RTPS history and
does not return to the store (`Leaving`); `NoneOverlooked` is inductive as it stands,
because the status is cleared before the snapshot; `SerialPruning` rests on `MarksSeen`,
that every READ mark of a cached change is in the snapshot of the only call (`OneCall`);
`TriggerFollows` on `Pending`, that every unread change has its trigger or a decision to
come, also between the moments at which an evaluation looks and at which it stores what
it found; and `HandedOutOnce` on `Spent`, that a change taken is in no list and a change read
as unread stays marked.

**The writer's history.** `LimitsKept` needs the lock. A write that waits does so with the
mutex held, so `LockInv` says that one write waits at most, that the history is full for
it, and that the changes it waits for (`among`) are still all the candidates for removal;
when one of them is acknowledged and goes, there is room for one more. `RoomInv` is
`LimitsKept` with a bucket for every change, and rests on lemmas about the cardinality of
a set that loses one element and gets another. Numbers are allocated before the lock is
taken, so changes enter in any order; `NumbersInv` keeps the numbers under way apart from
each other and from those in the history, and orders `notified`, `highest` and `lastSeq`.
`AckInv` has that no acknowledgement goes beyond the highest change added, and that what a
purge was told to remove is acknowledged by the readers that are left, from which
`NothingUnackedRemoved` follows. `PurgeInv` is `AckedIsPurged` with threads at work: a
change that did not enter late and lies at or below the last notification is in the range
of a purge under way (`Doomed`), and one above it that all readers have acknowledged has a
notification coming (`NoticeDue`).

**The reader's history.** `Inv` joins four parts that have little to do with each other.
`LimitsKept` is inductive once every change has the bucket of its instance: `Room` says
what `ensure_capacity` has secured, that a bucket given away is empty and another
instance's, and that the store, the instance and the map have room for one more.
`AliveHasWriter` is inductive as it stands; the work is in `AdvanceFacts`, that a change
leaves its instance alive only with a candidate left. `NotifiedIsWriterless` is part of
the types of the instance states (`InfoOK`). `SeparationKept` says nothing of the state
before a delivery, and needs `TimerInv`: unless the instance was forgotten meanwhile, a
timer that is set has a delivery scheduled for the window that is open, and once it has
fired the window is over. A window opens only when no delivery is scheduled
(`on_alive_sample` tests the timer first), which is why no timer outlives its window.

**The ring.** `RingInv` describes the positions by the reservations. `LogInv`: they follow
each other, and a gap before a message ends at the end of the ring. `WriterInv`: a writer
owns its reservation alone. `OrderInv`: commits follow the reservations, and nothing
uncommitted is reserved again. `MemoryInv`: a message and its wrap marker are in their
cells from the moment they are written until the place is reserved again, which is what
`CommittedIsWritten` says of committed ones. For this, cells of two reservations less
than a ring apart must differ; lemmas about `Offset` show it with the quotient as a
variable of its own. `ReaderInv` then follows a reader: it stands where a reservation or
a message begins, the header it read is the one of that message, and what it returned
or skipped is what lies below it. All of this needs a wrap marker wherever a writer
skipped a rest of the ring, and a rest of one cell has no room for one: `RestsFit`.
`ReadsWhileRestsFit` has it as a premise on the state and none on the constants. The row
of `NothingMissed` in the table above is a case in which it does not hold.

Only model-checked:

- everything under fairness, which is out of the prover's reach;
- `CoherentSets`: a set is committed by a fold over its members, and what a fold does to
  a batch of any length takes an induction over data.

## Not modelled

- Fragments (DATA_FRAG, HEARTBEAT_FRAG, NACK_FRAG): samples arrive whole.
- Lifespan, dispose and unregister at the writer; loans, next-instance calls, view states, BY_SOURCE_TIMESTAMP order and GROUP access
  scope at the reader. They add data to the histories modelled here, not threads.
- Leases: SPDP, the liveliness monitor and the writer liveliness protocol compare
  clocks; without time every expiry is possible, and the models take the loss of a writer
  as an event that may come at any moment (`LoseWriter`, `Unmatch`).
- Pause and modification of timers, creation and termination of the timer handler, the
  restart of tasks by the thread monitor, deletion of entities.
- Sockets, TCP connections, the opening of shared memory segments: I/O. What the protocol
  sees of them is the network of `ReliableProtocol`.
- The route gateway, RPC and the type lookup service, which are built on the public API or
  on the endpoints above.
- Serialization, XTypes, the SQL filter, configuration, the IDL compiler and the language
  bindings: sequential code over unbounded data, about half of the repository, which
  tests cover better than a model checker.

`PROJECT.json` lists every component, the hazards with the lines where they bite, and the
lines each definition stands for.
