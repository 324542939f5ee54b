------------------------- MODULE DataReaderHistory -------------------------
(***************************************************************************)
(* The history of a keyed DataReader (data_reader_history.rs), with        *)
(*   - HISTORY and RESOURCE_LIMITS: eviction, rejection, reuse of the      *)
(*     bucket of an unused instance;                                       *)
(*   - OWNERSHIP: candidates per instance, the strongest one owns it, the  *)
(*     owner is dropped when the deadline monitor reports a missed period; *)
(*   - instance states and the notification of a vanished writer;          *)
(*   - TIME_BASED_FILTER: a sample inside the separation window is held    *)
(*     and delivered by a one-shot timer;                                  *)
(*   - the autopurge timers of disposed and writerless instances.          *)
(*                                                                         *)
(* Four threads meet here.  The receive thread adds a change under the     *)
(* lock of the RTPS history.  The timer thread delivers held samples and   *)
(* purges instances, giving up one lock before it takes the next.  The     *)
(* monitor thread collects missed deadlines under a lock of its own and    *)
(* acts on them later.  The application takes samples.                     *)
(*                                                                         *)
(* DESTINATION_ORDER is by reception timestamp: a change is stored with    *)
(* its place in the order of insertion, which is also the order of the     *)
(* bucket of its instance.                                                 *)
(***************************************************************************)
EXTENDS Integers, FiniteSets, FiniteSetsExt

CONSTANTS
    Writers,          \* GUIDs of the remote writers, as numbers: GUIDs are ordered
    Strong,           \* writers with the higher OWNERSHIP_STRENGTH
    Instances,        \* instance handles, as numbers: BTreeMap keys are ordered
    Kinds,            \* kinds of change that arrive
    Profiles,         \* QoS settings of the reader, one of which is chosen at the start
    MaxArrivals       \* bound on the number of changes that arrive

ASSUME HistoryAssumption ==
    /\ Writers \subseteq Nat /\ Instances \subseteq Nat
    /\ Strong \subseteq Writers
    /\ Kinds \subseteq {"alive", "dispose", "unregister", "both"}
    /\ Profiles \subseteq [exclusive : BOOLEAN, autoRemove : BOOLEAN,
                            samples : Nat \ {0}, instances : Nat \ {0}, perInstance : Nat \ {0},
                            separation : BOOLEAN, deadline : BOOLEAN,
                            autopurge : SUBSET {"disposed", "no_writers"}]
    /\ MaxArrivals \in Nat

VARIABLES
    qos,        \* the reader's QoS
    arrived,    \* number of changes that arrived so far
    store,      \* DataReaderHistoryCache: changes and their place in the reception order
    added,      \* number of changes stored so far
    buckets,    \* keys of instance_map; a bucket may be empty
    cand,       \* owner_candidates, for the instances that have an entry
    info,       \* instance_infos, for the instances that have an entry
    filter,     \* TimeBasedFilter.instances, for the instances that have an entry
    window,     \* the one-shot timer of a held sample, per instance
    purge,      \* the instance the autopurge timer of a state is set for, if any
    thread,     \* what the timer thread is doing
    tracked,    \* instances the deadline monitor tracks
    missed,     \* deadlines it collected and has not reported yet
    \* history variables, read by the properties only
    early,      \* instances with a held sample delivered inside its window
    recycled,   \* instances forgotten while their held-sample timer existed
    demoted     \* instances whose last owner missed a deadline

vars == <<qos, arrived, store, added, buckets, cand, info, filter, window, purge, thread,
          tracked, missed, early, recycled, demoted>>

Exclusive == qos.exclusive           \* OWNERSHIP
AutoRemove == qos.autoRemove         \* can_auto_remove: KEEP_LAST, or KEEP_ALL and BEST_EFFORT
MaxSamples == qos.samples            \* RESOURCE_LIMITS; a KEEP_LAST depth bounds perInstance
MaxInstances == qos.instances
MaxPerInstance == qos.perInstance
Separation == qos.separation         \* TIME_BASED_FILTER has a minimum separation
Deadline == qos.deadline             \* a deadline monitor runs
Autopurge == qos.autopurge           \* states after which an instance is purged

Idle == [at |-> "idle"]
Change == [n : 1..MaxArrivals, w : Writers, i : Instances, kind : Kinds]
Stored == [change : Change, at : Nat]
PurgeStates == {"disposed", "no_writers"}

-----------------------------------------------------------------------------
(* The instance store *)

OfInstance(i) == {s \in store : s.change.i = i}
First(q) == {s \in q : \A t \in q : s.at <= t.at}

\* A map with an entry more, and without some.
Put(f, i, entry) == [j \in DOMAIN f \cup {i} |-> IF j = i THEN entry ELSE f[j]]
Drop(f, S) == [j \in DOMAIN f \ S |-> f[j]]

BucketFull(i) == i \in buckets /\ Cardinality(OfInstance(i)) >= MaxPerInstance

\* Variant: a bucket more than max_instances.
BucketsOverLimit(i) == i \notin buckets /\ Cardinality(buckets) > MaxInstances

NoBucketLeft(i) == i \notin buckets /\ Cardinality(buckets) >= MaxInstances

\* Variant: an instance is unused when its writers are gone, samples or not.
UnusedByWriters(c) == {j \in buckets : j \in DOMAIN c => c[j] = {}}

\* Buckets without a sample whose instance has no candidate left.
Unused(c) == {j \in buckets : /\ OfInstance(j) = {}
                              /\ j \in DOMAIN c => c[j] = {}}

\* What a change of instance i must do to be stored: reuse the bucket of an
\* unused instance, evict a change, or be rejected.
EnsureCapacity(i, c) ==
    LET reuse == IF NoBucketLeft(i) /\ Unused(c) # {} THEN {Min(Unused(c))} ELSE {}
        outcome(q, r) == [ok |-> AutoRemove, drop |-> r,
                          evict |-> IF AutoRemove THEN First(q) ELSE {}]
        rejected == [ok |-> FALSE, evict |-> {}, drop |-> {}]
    IN  IF BucketFull(i) THEN outcome(OfInstance(i), {})
        ELSE IF NoBucketLeft(i) /\ reuse = {} THEN rejected
        ELSE IF Cardinality(store) >= MaxSamples THEN outcome(store, reuse)
        ELSE [ok |-> TRUE, evict |-> {}, drop |-> reuse]

-----------------------------------------------------------------------------
(* Ownership *)

Before(w, v) == \/ w \in Strong /\ v \notin Strong
                \/ (w \in Strong <=> v \in Strong) /\ w <= v

Owner(ws) == CHOOSE w \in ws : \A v \in ws : Before(w, v)

IsOwner(c, s) == Exclusive => s.w = Owner(c[s.i])

\* add_to_owner_candidate_if_new
Enlist(c, i, w) == Put(c, i, {w} \cup IF i \in DOMAIN c THEN c[i] ELSE {})

-----------------------------------------------------------------------------
(* Instance states *)

\* An entry is created ALIVE.
Entry(f, i) == IF i \in DOMAIN f THEN f[i] ELSE [state |-> "alive", notify |-> FALSE]

\* Variant: a rebirth leaves the notification of the writers' loss pending.
TransitionKeepingNotice(f, i, to) ==
    LET e == Entry(f, i)
    IN  Put(f, i, [e EXCEPT !.state = IF to = "alive" \/ @ = "alive" THEN to ELSE @])

\* update_instance_state: a not-alive state is entered from ALIVE only.
Transition(f, i, to) ==
    LET e == Entry(f, i)
    IN  Put(f, i, IF to = "alive"
                    THEN [state |-> "alive", notify |-> e.notify /\ e.state # "no_writers"]
                    ELSE [e EXCEPT !.state = IF @ = "alive" THEN to ELSE @])

\* The candidates and the states after change s; c already lists its writer.
Revoke(c, s) == IF s.kind \in {"unregister", "both"}
                  THEN [c EXCEPT ![s.i] = @ \ {s.w}] ELSE c

\* Variant: the last writer that unregisters leaves the instance ALIVE.
AdvanceOnDispose(f, c, s) ==
    CASE s.kind = "alive"               -> Transition(f, s.i, "alive")
      [] s.kind \in {"dispose", "both"} -> Transition(f, s.i, "disposed")
      [] s.kind = "unregister"          -> f

Advance(f, c, s) ==
    LET g == CASE s.kind = "alive"             -> Transition(f, s.i, "alive")
               [] s.kind \in {"dispose", "both"} -> Transition(f, s.i, "disposed")
               [] s.kind = "unregister"        -> f
    IN  IF s.kind \in {"unregister", "both"} /\ c[s.i] = {}
          THEN Transition(g, s.i, "no_writers") ELSE g

Entered(f, g, k) == {i \in DOMAIN g : g[i].state = k /\ Entry(f, i).state # k}

\* The autopurge timers and the deadline trackers follow the states.  A reader has
\* one autopurge timer per state: while it is pending a second one is not added,
\* and of several instances that change at once any one may come first.
AddPurgeTimer(k, due) ==
    IF purge[k] # {} \/ due = {} \/ k \notin Autopurge THEN {purge[k]} ELSE {{i} : i \in due}

Follow(f, g, alive) ==
    /\ purge' \in [PurgeStates -> SUBSET Instances]
    /\ \A k \in PurgeStates : purge'[k] \in AddPurgeTimer(k, Entered(f, g, k))
    /\ tracked' = (tracked \cup alive) \ UNION {Entered(f, g, k) : k \in PurgeStates}

-----------------------------------------------------------------------------
(* Adding a change: add_change_with_cleanup, under the RTPS history's lock *)

\* Variant: the window is tested before the pending timer.
HoldsInWindow(s, c) ==
    /\ Separation /\ s.kind = "alive" /\ IsOwner(c, s)
    /\ s.i \in DOMAIN filter /\ filter[s.i].open

\* on_alive_sample: the sample is held inside the window, or whenever a delivery
\* is already scheduled.
Holds(s, c) ==
    /\ Separation /\ s.kind = "alive" /\ IsOwner(c, s)
    /\ s.i \in DOMAIN filter
    /\ filter[s.i].armed \/ filter[s.i].open

\* Variant: the delivery is scheduled by the second held sample instead of the first.
HoldSchedulingLate(s, c) ==
    /\ Holds(s, c)
    /\ cand' = c
    /\ filter' = [filter EXCEPT ![s.i] = [open |-> @.open, pending |-> {s}, armed |-> TRUE]]
    /\ window' = IF filter[s.i].armed THEN [window EXCEPT ![s.i] = "fresh"] ELSE window
    /\ demoted' = demoted \ {s.i}
    /\ UNCHANGED <<store, added, buckets, info, purge, tracked, early, recycled>>

Hold(s, c) ==
    /\ Holds(s, c)
    /\ cand' = c
    /\ filter' = [filter EXCEPT ![s.i] = [open |-> @.open, pending |-> {s}, armed |-> TRUE]]
    /\ window' = IF filter[s.i].armed THEN window ELSE [window EXCEPT ![s.i] = "fresh"]
    /\ demoted' = demoted \ {s.i}
    /\ UNCHANGED <<store, added, buckets, info, purge, tracked, early, recycled>>

\* The filter's state after a change that is not held.
Reopens(s, c, filtered) == filtered /\ Separation /\ s.kind = "alive" /\ IsOwner(c, s)

PassFilter(s, c, filtered) ==
    CASE Reopens(s, c, filtered) ->
            IF s.i \in DOMAIN filter THEN [filter EXCEPT ![s.i].open = TRUE]
            ELSE Put(filter, s.i, [open |-> TRUE, pending |-> {}, armed |-> FALSE])
      [] filtered /\ Separation /\ s.kind # "alive" /\ s.i \in DOMAIN filter ->
            [filter EXCEPT ![s.i].pending = {}]
      [] OTHER -> filter

\* A timer does not know that the window it was set for is gone.
Outdate(S) == [j \in Instances |->
                  IF j \in S /\ window[j] = "fresh" THEN "stale" ELSE window[j]]

\* A change of a writer that does not own the instance is refused; unregistering
\* is not.
NotOwner(s, c) == s.kind # "unregister" /\ ~IsOwner(c, s)

Refuse(s, c, filtered) ==
    /\ NotOwner(s, c)
    /\ cand' = c
    /\ filter' = PassFilter(s, c, filtered)
    /\ demoted' = demoted \ {s.i}
    /\ UNCHANGED <<store, added, buckets, info, window, purge, tracked,
                   early, recycled>>

\* Everything that remove_all_instance_resources forgets of the instances in S.
Forgotten(S) == {j \in S \cap DOMAIN filter :
                     window[j] # "off" \/ (thread.at = "held" /\ thread.i = j)}

\* The instance state advances, then capacity is secured: a change may be
\* rejected after its state has been applied.
Store(s, c, filtered) ==
    LET c2   == Revoke(c, s)
        f    == PassFilter(s, c, filtered)
        next == Advance(info, c2, s)
        room == EnsureCapacity(s.i, c2)
    IN  /\ ~NotOwner(s, c)
        /\ cand' = c2
        /\ info' = Drop(next, room.drop)
        /\ filter' = Drop(f, room.drop)
        /\ Follow(info, next, IF s.kind = "alive" THEN {s.i} ELSE {})
        /\ window' = Outdate(room.drop \cup IF Reopens(s, c, filtered) THEN {s.i} ELSE {})
        /\ recycled' = recycled \cup Forgotten(room.drop)
        /\ demoted' = demoted \ {s.i}
        /\ IF room.ok
             THEN /\ store' = (store \ room.evict) \cup {[change |-> s, at |-> added + 1]}
                  /\ added' = added + 1
                  /\ buckets' = (buckets \ room.drop) \cup {s.i}
             ELSE /\ buckets' = buckets \ room.drop
                  /\ UNCHANGED <<store, added>>
        /\ UNCHANGED early

AddChange(s, c, filtered) == Refuse(s, c, filtered) \/ Store(s, c, filtered)

\* The receive thread hands over the next change of some writer.
Arrive(w, i, kind) ==
    /\ arrived < MaxArrivals
    /\ arrived' = arrived + 1
    /\ LET s == [n |-> arrived + 1, w |-> w, i |-> i, kind |-> kind]
           c == Enlist(cand, i, w)
       IN  Hold(s, c) \/ (~Holds(s, c) /\ AddChange(s, c, TRUE))
    /\ UNCHANGED <<qos, thread, missed>>

-----------------------------------------------------------------------------
(* The timer thread *)

\* Time passes: the separation window of i ends.
WindowElapses(i) ==
    /\ i \in DOMAIN filter /\ filter[i].open
    /\ filter' = [filter EXCEPT ![i].open = FALSE]
    /\ UNCHANGED <<qos, arrived, store, added, buckets, cand, info, window, purge, thread,
                   tracked, missed, early, recycled, demoted>>

\* The timer of i is due at the end of the window it was set for.
FireHeld(i) ==
    /\ thread = Idle
    /\ \/ window[i] = "stale"
       \/ window[i] = "fresh" /\ (i \in DOMAIN filter => ~filter[i].open)
    /\ window' = [window EXCEPT ![i] = "off"]
    /\ thread' = [at |-> "held", i |-> i]
    /\ UNCHANGED <<qos, arrived, store, added, buckets, cand, info, filter, purge,
                   tracked, missed, early, recycled, demoted>>

\* take_pending_on_timer, under the lock of the store.
TakePending ==
    /\ thread.at = "held"
    /\ LET i == thread.i
       IN  IF i \in DOMAIN filter
             THEN /\ filter' = [filter EXCEPT ![i] =
                          [open |-> @.open \/ @.pending # {}, pending |-> {}, armed |-> FALSE]]
                  /\ thread' = IF filter[i].pending = {} THEN Idle
                               ELSE [at |-> "give", change |-> filter[i].pending]
                  /\ window' = IF filter[i].pending = {} THEN window ELSE Outdate({i})
                  /\ early' = IF filter[i].pending # {} /\ filter[i].open
                                THEN early \cup {i} ELSE early
             ELSE /\ thread' = Idle
                  /\ UNCHANGED <<filter, window, early>>
    /\ UNCHANGED <<qos, arrived, store, added, buckets, cand, info, purge, tracked, missed,
                   recycled, demoted>>

\* The held sample is added without the filter, under the RTPS history's lock.
GiveHeld ==
    /\ thread.at = "give"
    /\ thread' = Idle
    /\ \E s \in thread.change : AddChange(s, Enlist(cand, s.i, s.w), FALSE)
    /\ UNCHANGED <<qos, arrived, missed>>

\* remove_change_of_instance, in the store.
FirePurge(k) ==
    /\ thread = Idle
    /\ \E i \in purge[k] :
         /\ store' = store \ OfInstance(i)
         /\ thread' = IF k = "no_writers" THEN [at |-> "forget", i |-> i] ELSE Idle
    /\ purge' = [purge EXCEPT ![k] = {}]
    /\ UNCHANGED <<qos, arrived, added, buckets, cand, info, filter, window, tracked, missed,
                   early, recycled, demoted>>

\* reclaim_instance then forgets the instance, with whatever arrived meanwhile.
ForgetInstance ==
    /\ thread.at = "forget"
    /\ LET i == thread.i
       IN  /\ buckets' = buckets \ {i}
           /\ store' = store \ OfInstance(i)
           /\ info' = Drop(info, {i})
           /\ filter' = Drop(filter, {i})
           /\ window' = Outdate({i})
           /\ recycled' = recycled \cup Forgotten({i})
    /\ thread' = Idle
    /\ UNCHANGED <<qos, arrived, added, cand, purge, tracked, missed, early, demoted>>

-----------------------------------------------------------------------------
(* The deadline monitor, liveliness and the application *)

\* The monitor collects a missed deadline under its lock and reports it later.
CollectMissed(i) ==
    /\ Deadline /\ missed = {}
    /\ i \in tracked
    /\ missed' = {i}
    /\ UNCHANGED <<qos, arrived, store, added, buckets, cand, info, filter, window, purge,
                   thread, tracked, early, recycled, demoted>>

\* revoke_current_owner_from_instance: whoever owns the instance by now.
RevokeOwner(i) ==
    /\ i \in missed
    /\ missed' = {}
    /\ IF Exclusive /\ i \in DOMAIN cand /\ cand[i] # {}
         THEN /\ cand' = [cand EXCEPT ![i] = @ \ {Owner(@)}]
              /\ demoted' = IF cand'[i] = {} THEN demoted \cup {i} ELSE demoted
         ELSE UNCHANGED <<cand, demoted>>
    /\ UNCHANGED <<qos, arrived, store, added, buckets, info, filter, window, purge, thread,
                   tracked, early, recycled>>

\* A matched writer, whether it wrote or not, is unmatched or loses its liveliness:
\* every entry of the candidates is visited, also one that was empty before.
LoseWriter(w) ==
    LET c    == [i \in DOMAIN cand |-> cand[i] \ {w}]
        gone == {i \in DOMAIN c : c[i] = {}}
        next == [i \in DOMAIN info \cup gone |->
                    LET e == Entry(info, i)
                    IN  IF i \in gone /\ e.state = "alive"
                          THEN [state |-> "no_writers", notify |-> TRUE] ELSE e]
    IN  /\ cand' = c
        /\ info' = next
        /\ Follow(info, next, {})
        /\ UNCHANGED <<qos, arrived, store, added, buckets, filter, window, thread, missed,
                       early, recycled, demoted>>

\* take removes a change, and leaves the bucket.
Take ==
    /\ \E s \in store : store' = store \ {s}
    /\ UNCHANGED <<qos, arrived, added, buckets, cand, info, filter, window, purge, thread,
                   tracked, missed, early, recycled, demoted>>

\* read or take hands out the notification of an instance without writers.
DrainNotification(i) ==
    /\ i \in DOMAIN info /\ info[i].notify /\ info[i].state = "no_writers"
    /\ info' = [info EXCEPT ![i].notify = FALSE]
    /\ UNCHANGED <<qos, arrived, store, added, buckets, cand, filter, window, purge, thread,
                   tracked, missed, early, recycled, demoted>>

-----------------------------------------------------------------------------
Init ==
    /\ qos \in Profiles
    /\ arrived = 0 /\ store = {} /\ added = 0 /\ buckets = {}
    /\ cand = <<>> /\ info = <<>> /\ filter = <<>>
    /\ window = [i \in Instances |-> "off"]
    /\ purge = [k \in PurgeStates |-> {}]
    /\ thread = Idle /\ tracked = {} /\ missed = {}
    /\ early = {} /\ recycled = {} /\ demoted = {}

TimerThread ==
    \/ \E i \in Instances : FireHeld(i)
    \/ TakePending \/ GiveHeld
    \/ \E k \in PurgeStates : FirePurge(k)
    \/ ForgetInstance

Next ==
    \/ \E w \in Writers, i \in Instances, kind \in Kinds : Arrive(w, i, kind)
    \/ \E i \in Instances : WindowElapses(i) \/ CollectMissed(i) \/ RevokeOwner(i)
    \/ \E i \in Instances : DrainNotification(i)
    \/ TimerThread
    \/ \E w \in Writers : LoseWriter(w)
    \/ Take

Spec == Init /\ [][Next]_vars

\* Time passes, and the timer thread runs what is due: in the order of expiry, so
\* that no timer is overtaken for ever.
FairSpec ==
    /\ Spec
    /\ WF_vars(TakePending \/ GiveHeld \/ ForgetInstance)
    /\ \A i \in Instances : WF_vars(WindowElapses(i)) /\ SF_vars(FireHeld(i))

-----------------------------------------------------------------------------
(* Properties *)

\* Every variable has its type, every change has the bucket of its instance, and a
\* held sample has a delivery scheduled.
TypeOK ==
    /\ qos \in Profiles
    /\ arrived \in 0..MaxArrivals
    /\ store \subseteq Stored
    /\ buckets \subseteq Instances /\ tracked \subseteq Instances /\ missed \subseteq Instances
    /\ DOMAIN cand \cup DOMAIN info \cup DOMAIN filter \subseteq Instances
    /\ \A i \in DOMAIN cand : cand[i] \subseteq Writers
    /\ \A i \in DOMAIN info :
         info[i] \in [state : {"alive", "disposed", "no_writers"}, notify : BOOLEAN]
    /\ \A i \in DOMAIN filter : /\ filter[i].pending \subseteq Change
                                /\ filter[i].pending # {} => filter[i].armed
    /\ window \in [Instances -> {"off", "fresh", "stale"}]
    /\ \A s \in store : s.change.i \in buckets

\* The store never exceeds max_samples, max_samples_per_instance or max_instances,
\* whatever was evicted, rejected, taken, purged or given a reused bucket.
LimitsKept ==
    /\ Cardinality(store) <= MaxSamples
    /\ \A i \in Instances : Cardinality(OfInstance(i)) <= MaxPerInstance
    /\ Cardinality(buckets) <= MaxInstances

\* An instance is ALIVE only while some writer may still update it, or when its
\* last owner was dropped for a missed deadline, which leaves the state alone.
AliveHasWriter ==
    \A i \in DOMAIN info :
        info[i].state = "alive" => (i \in DOMAIN cand /\ cand[i] # {}) \/ i \in demoted

\* A held sample is delivered at the end of its window and not before: only the
\* timer of an instance that was forgotten meanwhile, and registered anew, can
\* deliver inside the window.
SeparationKept == early \subseteq recycled

\* A held sample does not stay held, however often it is replaced by a newer one:
\* the slot is emptied by a delivery, a dispose or the end of the instance.
HeldIsDelivered ==
    \A i \in Instances :
        LET held == i \in DOMAIN filter /\ filter[i].pending # {}
        IN  held ~> ~held

\* A notification that the writers are gone is pending only while they are: a
\* rebirth of the instance takes it back.
NotifiedIsWriterless ==
    \A i \in DOMAIN info : info[i].notify => info[i].state = "no_writers"
=============================================================================
