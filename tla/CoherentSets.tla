---------------------------- MODULE CoherentSets ----------------------------
(***************************************************************************)
(* Coherent sets under TOPIC access scope, from the publisher that opens   *)
(* and ends a set to the reader that must show all of it or none.          *)
(*                                                                         *)
(* A sample written while the set is open carries the sequence number of   *)
(* the first one as its coherent set.  end_coherent_changes closes the set *)
(* in two moments: the depth drops at once, the end markers of the writers *)
(* follow one by one, and other threads may write in between.              *)
(*                                                                         *)
(* The reader holds members back per writer until a marker, or a sample    *)
(* outside the set, closes it; a complete set is committed to the history  *)
(* under one lock, if it fits.  Samples of one writer arrive in order, or  *)
(* not at all: loss stands for a best-effort reader and for everything     *)
(* that a reliable one gives up.                                           *)
(*                                                                         *)
(* The history is keyed with unlimited instances, ownership is shared, and *)
(* nothing is filtered: DataReaderHistory has those.                       *)
(***************************************************************************)
EXTENDS Integers, FiniteSets, FiniteSetsExt, Sequences, SequencesExt

CONSTANTS
    Writers,      \* the writers of a publisher
    Instances,
    Profiles,     \* settings, one of which is chosen at the start; maxSeq of it bounds
                  \* the sequence numbers of a writer
    MaxDepth      \* bound on the nesting of begin_coherent_changes

ASSUME CoherentAssumption ==
    /\ Profiles \subseteq [writers : SUBSET Writers, maxSeq : Nat,
                            concurrent : BOOLEAN, lossy : BOOLEAN, unmatches : BOOLEAN,
                            autoRemove : BOOLEAN, samples : Nat, perInstance : Nat, cap : Nat]
    /\ MaxDepth \in Nat \ {0}

VARIABLES
    profile,
    depth,        \* Publisher::coherent_depth
    closing,      \* writers that end_coherent_changes still has to visit
    next,         \* last sequence number of a writer
    start,        \* current_coherent_start of a writer, 0 if no set is open
    chan,         \* changes on their way to the reader
    matched,      \* writers with a proxy at the reader
    rx,           \* the change that the receive thread has accepted
    pending,      \* coherent_pending: the set held back for a writer, if any
    store,        \* the history of the DataReader
    \* history variables, read by the properties only
    written,      \* samples written
    stored,       \* samples that entered the history
    notified      \* samples passed to on_change

vars == <<profile, depth, closing, next, start, chan, matched, rx, pending, store,
          written, stored, notified>>

publisher == <<depth, closing, next, start, written>>
reader == <<pending, store, stored, notified>>

MaxSeq == profile.maxSeq

NoSet == [start |-> 0, changes |-> <<>>]
IsMember(c) == c.set # 0
IsMarker(c) == c.kind = "end"

-----------------------------------------------------------------------------
(* The publisher *)

\* One thread opens and ends the sets.  Other threads write at any moment if the
\* application is concurrent; else it makes one call at a time.
begin_coherent_changes ==
    /\ closing = {} /\ depth < MaxDepth
    /\ depth' = depth + 1
    /\ UNCHANGED <<profile, closing, next, start, chan, matched, rx, reader, written>>

\* Only the outermost end visits the writers.
end_coherent_changes ==
    /\ closing = {} /\ depth > 0
    /\ depth' = depth - 1
    /\ closing' = IF depth = 1 THEN profile.writers ELSE {}
    /\ UNCHANGED <<profile, next, start, chan, matched, rx, reader, written>>

Send(w, c) == chan' = [chan EXCEPT ![w] = Append(@, c)]

\* Variant: the number of the first sample is kept from one set to the next.
EndKeepingStart(w) ==
    /\ w \in closing
    /\ closing' = closing \ {w}
    /\ IF start[w] = 0
         THEN UNCHANGED <<next, chan>>
         ELSE /\ next[w] < MaxSeq
              /\ next' = [next EXCEPT ![w] = @ + 1]
              /\ Send(w, [kind |-> "end", w |-> w, n |-> next[w] + 1, set |-> 0])
    /\ UNCHANGED <<profile, depth, start, matched, rx, reader, written>>

\* A writer that wrote nothing in the set has no end to mark.
end_coherent_set(w) ==
    /\ w \in closing
    /\ closing' = closing \ {w}
    /\ start' = [start EXCEPT ![w] = 0]
    /\ IF start[w] = 0
         THEN UNCHANGED <<next, chan>>
         ELSE /\ next[w] < MaxSeq
              /\ next' = [next EXCEPT ![w] = @ + 1]
              /\ Send(w, [kind |-> "end", w |-> w, n |-> next[w] + 1, set |-> 0])
    /\ UNCHANGED <<profile, depth, matched, rx, reader, written>>

\* The number and the coherent set of a sample are taken under one lock.  The last
\* number is left for the marker.
Write(w, i) ==
    /\ w \in profile.writers
    /\ profile.concurrent \/ closing = {}
    /\ next[w] < MaxSeq - 1
    /\ LET n == next[w] + 1
           s == IF depth = 0 THEN 0 ELSE IF start[w] = 0 THEN n ELSE start[w]
           c == [kind |-> "data", w |-> w, n |-> n, set |-> s, i |-> i]
       IN  /\ next' = [next EXCEPT ![w] = n]
           /\ start' = IF s = 0 THEN start ELSE [start EXCEPT ![w] = s]
           /\ Send(w, c)
           /\ written' = written \cup {c}
    /\ UNCHANGED <<profile, depth, closing, matched, rx, reader>>

-----------------------------------------------------------------------------
(* Holding back and closing a set *)

HeldCount(held) == FoldFunction(LAMBDA p, sum : Len(p.changes) + sum, 0, held)

\* The set of held that member c belongs to, opened by c if there is none.
SetOf(held, c) == IF held[c.w] = NoSet THEN [NoSet EXCEPT !.start = c.set] ELSE held[c.w]

\* Variant: the buffer takes one member more than its limit.
BufferBeyond(held, c) ==
    [held EXCEPT ![c.w] = [SetOf(held, c) EXCEPT !.changes =
        IF HeldCount(held) > profile.cap THEN <<>> ELSE Append(@, c)]]

\* buffer_coherent_member: at the limit the set loses its members and stays open.
BufferCoherentMember(held, c) ==
    [held EXCEPT ![c.w] = [SetOf(held, c) EXCEPT !.changes =
        IF HeldCount(held) >= profile.cap THEN <<>> ELSE Append(@, c)]]

\* discard_coherent_pending, and what closing a set leaves behind.
Discard(w) == [pending EXCEPT ![w] = NoSet]

\* Variant: the members must follow each other, wherever they begin and end.
CloseConsecutive(p, end) ==
    IF \A k \in 2..Len(p.changes) : p.changes[k].n = p.changes[k - 1].n + 1
      THEN p.changes ELSE <<>>

\* Variant: not a member more than the numbers.
CloseExactly(p, end) ==
    IF /\ Len(p.changes) = end - p.start
       /\ \A k \in DOMAIN p.changes : p.changes[k].n = p.start + k - 1
      THEN p.changes ELSE <<>>

\* close_and_take_coherent_set: all the numbers from the start to the end, in order.
CloseAndTake(p, end) ==
    IF \A k \in 1..(end - p.start) : k <= Len(p.changes) /\ p.changes[k].n = p.start + k - 1
      THEN p.changes ELSE <<>>

-----------------------------------------------------------------------------
(* Committing to the history: one lock for the whole batch *)

CountOf(q, i) == Len(SelectSeq(q, LAMBDA c : c.i = i))
OldestOf(q, i) == CHOOSE k \in DOMAIN q : q[k].i = i /\ \A j \in 1..(k - 1) : q[j].i # i

\* Adding one change: makes room, is added, or is rejected with an error, which
\* ends the batch.
AddOne(acc, c) ==
    LET fullInstance == CountOf(acc.store, c.i) >= profile.perInstance
        full == Len(acc.store) >= profile.samples
        oldest == IF fullInstance THEN OldestOf(acc.store, c.i) ELSE 1
    IN  CASE acc.failed -> acc
          [] ~acc.failed /\ (fullInstance \/ full) /\ ~profile.autoRemove ->
                [acc EXCEPT !.failed = TRUE]
          [] OTHER ->
                [acc EXCEPT !.added = @ \cup {c},
                            !.store = Append(IF fullInstance \/ full
                                               THEN RemoveAt(@, oldest) ELSE @, c)]

\* Variant: only the total is checked.
FitsInTotal(members) == Len(members) <= profile.samples

\* ensure_capacity_dry: with auto-remove only the set itself competes for the room.
Fits(members) ==
    LET held(i) == IF profile.autoRemove THEN 0 ELSE CountOf(store, i)
        total == IF profile.autoRemove THEN 0 ELSE Len(store)
    IN  /\ \A i \in {c.i : c \in ToSet(members)} :
             held(i) + CountOf(members, i) <= profile.perInstance
        /\ total + Len(members) <= profile.samples

\* commit_changes_to_datareader_cache: members of a closed set, which fit or are
\* dropped as a whole, and then at most one sample of its own.  After an error no
\* change of the batch is notified, not even one that was added.
Commit(members, single) ==
    LET before == [store |-> store, added |-> {}, failed |-> FALSE]
        refused == Len(members) > 1 /\ ~Fits(members)
        result == FoldLeft(AddOne, before, (IF refused THEN <<>> ELSE members) \o single)
    IN  /\ store' = result.store
        /\ stored' = stored \cup result.added
        /\ notified' = IF result.failed THEN notified ELSE notified \cup result.added

\* prepare_changes_to_commit: what an arrival lets through.
Deliver ==
    /\ rx # {}
    /\ rx' = {}
    /\ \E c \in rx :
         LET p == pending[c.w]
         IN  \/ /\ IsMarker(c)
                /\ pending' = Discard(c.w)
                /\ Commit(CloseAndTake(p, c.n), <<>>)
             \/ /\ IsMember(c) /\ p.start \in {0, c.set}
                /\ pending' = BufferCoherentMember(pending, c)
                /\ UNCHANGED <<store, stored, notified>>
             \/ /\ IsMember(c) /\ p.start \notin {0, c.set}
                /\ pending' = BufferCoherentMember(Discard(c.w), c)
                /\ Commit(CloseAndTake(p, c.n - 1), <<>>)
             \/ /\ ~IsMember(c) /\ ~IsMarker(c)
                /\ pending' = Discard(c.w)
                /\ Commit(CloseAndTake(p, c.n - 1), <<c>>)
    /\ UNCHANGED <<profile, publisher, chan, matched>>

-----------------------------------------------------------------------------
(* The way to the reader *)

Arrived(w) == chan' = [chan EXCEPT ![w] = Tail(@)]

\* deliver_change_to_reader decides under the lock of the writer proxies what it
\* delivers after it.
Accept(w) ==
    /\ rx = {} /\ chan[w] # <<>> /\ w \in matched
    /\ rx' = {Head(chan[w])}
    /\ Arrived(w)
    /\ UNCHANGED <<profile, publisher, matched, reader>>

Lose(w) ==
    /\ chan[w] # <<>>
    /\ profile.lossy \/ w \notin matched
    /\ Arrived(w)
    /\ UNCHANGED <<profile, publisher, matched, rx, reader>>

\* remove_matched_writer_and_update_status: the open set goes with the writer.
Unmatch(w) ==
    /\ profile.unmatches /\ w \in matched
    /\ matched' = matched \ {w}
    /\ pending' = Discard(w)
    /\ UNCHANGED <<profile, publisher, chan, rx, store, stored, notified>>

Take ==
    /\ store # <<>>
    /\ store' = Tail(store)
    /\ UNCHANGED <<profile, publisher, chan, matched, rx, pending, stored, notified>>

-----------------------------------------------------------------------------
Init ==
    /\ profile \in Profiles
    /\ depth = 0 /\ closing = {}
    /\ next = [w \in Writers |-> 0] /\ start = [w \in Writers |-> 0]
    /\ chan = [w \in Writers |-> <<>>] /\ matched = profile.writers /\ rx = {}
    /\ pending = [w \in Writers |-> NoSet] /\ store = <<>>
    /\ written = {} /\ stored = {} /\ notified = {}

Next ==
    \/ begin_coherent_changes \/ end_coherent_changes
    \/ \E w \in Writers : \/ end_coherent_set(w) \/ Accept(w) \/ Lose(w) \/ Unmatch(w)
                         \/ \E i \in Instances : Write(w, i)
    \/ Deliver \/ Take

Spec == Init /\ [][Next]_vars

-----------------------------------------------------------------------------
(* Properties *)

Sample == [kind : {"data"}, w : Writers, n : 1..MaxSeq, set : 0..MaxSeq, i : Instances]

\* Every variable has its type, a set is open only while the publisher is in one or
\* still has to end it, and the changes of a writer are in order.
TypeOK ==
    /\ profile \in Profiles
    /\ depth \in 0..MaxDepth /\ closing \subseteq Writers /\ (closing # {} => depth = 0)
    /\ next \in [Writers -> 0..MaxSeq]
    /\ \A w \in Writers : start[w] \in 0..next[w] /\ (start[w] # 0 => depth > 0 \/ w \in closing)
    /\ \A w \in Writers : pending[w].start \in 0..next[w] /\ pending[w].changes \in Seq(Sample)
    /\ store \in Seq(Sample) /\ notified \subseteq stored /\ stored \subseteq written
    /\ \A w \in Writers : \A k \in 2..Len(chan[w]) : chan[w][k - 1].n < chan[w][k].n

\* A coherent set enters the history as a whole or not at all.
SetIsWhole ==
    \A c, d \in written : (c.set # 0 /\ c.w = d.w /\ c.set = d.set) =>
        (c \in stored <=> d \in stored)

\* A coherent set enters the history as a whole or not at all, whatever is lost,
\* does not fit or is cut off by an unmatch; where samples can be lost, as long as
\* no thread writes while the set is being ended.
AllOrNothing == ~(profile.concurrent /\ profile.lossy) => SetIsWhole

\* The members held back for all writers together stay within the buffer limit, and
\* so does the history within its own limits.
BufferLimitKept ==
    /\ HeldCount(pending) <= profile.cap
    /\ Len(store) <= profile.samples
    /\ \A i \in Instances : CountOf(store, i) <= profile.perInstance

\* What is stored is notified: when the application makes one call at a time and
\* nothing is lost, a set is closed by its marker alone, and no later sample of the
\* delivery can fail.
StoredIsNotified == (~profile.concurrent /\ ~profile.lossy) => stored = notified

Roomy == /\ ~profile.lossy /\ ~profile.unmatches /\ profile.autoRemove
         /\ Min({profile.cap, profile.samples, profile.perInstance})
              >= Cardinality(profile.writers) * MaxSeq

\* When nothing is lost and there is room, every sample reaches the history once the
\* sets are ended and everything has arrived: no member is held back for ever, also
\* when other threads write while a set is being ended.
NothingWithheld ==
    Roomy /\ depth = 0 /\ closing = {} /\ rx = {} /\ (\A w \in Writers : chan[w] = <<>>)
        => stored = written
=============================================================================
