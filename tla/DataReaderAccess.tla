-------------------------- MODULE DataReaderAccess --------------------------
(***************************************************************************)
(* read and take of a DataReader against the receive thread and the timer  *)
(* thread: the changes of one writer and one instance are listed in the    *)
(* DCPS history and in the RTPS history behind it, each under a lock of    *)
(* its own; READ marks, the DATA_AVAILABLE status and the trigger of a     *)
(* ReadCondition have locks of their own too.                              *)
(*                                                                         *)
(* A call clears the status, takes a snapshot of the history, goes through *)
(* it change by change, prunes the READ marks by the snapshot and finally  *)
(* evaluates the condition anew and stores the result.  None of these      *)
(* locks is held from one step to the next, nor when the trigger is stored. *)
(***************************************************************************)
EXTENDS Integers, FiniteSets, FiniteSetsExt

CONSTANTS
    Threads,       \* application threads that read or take
    Depth,         \* depth of the KEEP_LAST history
    Profiles,      \* settings, one of which is chosen at the start
    MaxArrivals    \* bound on the number of changes that arrive

ASSUME AccessAssumption ==
    /\ Depth \in Nat \ {0}
    /\ MaxArrivals \in Nat
    /\ Profiles \subseteq [serial : BOOLEAN, filtered : SUBSET (1..MaxArrivals),
                            limits : SUBSET (Nat \ {0}), expires : BOOLEAN]

VARIABLES
    profile,
    arrived,    \* number of changes that arrived; also the last sequence number
    store,      \* sequence numbers in the DataReaderHistoryCache
    rtps,       \* sequence numbers in the RTPS ReaderHistoryCache
    read,       \* read_samples
    status,     \* DATA_AVAILABLE
    trigger,    \* trigger value of a ReadCondition on NOT_READ samples
    rx,         \* the receive thread
    app,        \* the application threads
    purging,    \* what the timer thread still has to remove from the RTPS history
    \* history variables, read by the properties only
    leaked,     \* changes that left the store, or never entered it, unknown to rtps
    seen,       \* changes that a call has looked at
    fresh,      \* how often a change was returned to a serial reader of NOT_READ samples
    taken,      \* how often a change was returned to a serial taker
    raced       \* an evaluation of the condition missed a change that became unread

vars == <<profile, arrived, store, rtps, read, status, trigger, rx, app, purging,
          leaked, seen, fresh, taken, raced>>

Serial == profile.serial        \* the application makes one call at a time
Filtered == profile.filtered    \* changes the content filter rejects
Limits == profile.limits        \* values of max_samples it asks for
Expires == profile.expires      \* LIFESPAN and autopurge delay are finite

Seqs == 1..MaxArrivals
Idle == [at |-> "idle"]

\* Thread t has looked at the changes of the history, and maybe at their marks, and
\* has yet to store the trigger that results.
Evaluating(t) == app[t].at \in {"match", "set"}

\* get_sample_state: a change that is not cached any more counts as READ.
SampleState(n) == IF n \in read \/ n \notin store THEN "read" ELSE "not_read"

Matches(mask, n) == mask = "any" \/ SampleState(n) = mask

-----------------------------------------------------------------------------
(* The receive thread *)

\* ensure_capacity: the oldest change makes room for a new one.
Evicted(n) == IF n \notin Filtered /\ Cardinality(store) >= Depth THEN {Min(store)} ELSE {}

\* add_change: both histories change under the RTPS history's lock.  A change that
\* the content filter rejects is kept out of the store only.
Receive ==
    /\ rx = Idle /\ arrived < MaxArrivals
    /\ arrived' = arrived + 1
    /\ LET n == arrived + 1
       IN  /\ store' = (store \ Evicted(n)) \cup ({n} \ Filtered)
           /\ rtps' = (rtps \cup {n}) \ Evicted(n)
           /\ leaked' = leaked \cup ({n} \cap Filtered)
           /\ rx' = [at |-> "stored", n |-> n]
    /\ raced' = (raced \/ \E t \in Threads : Evaluating(t))
    /\ UNCHANGED <<profile, read, status, trigger, app, purging, seen, fresh, taken>>

\* on_change: the status first ...
RaiseStatus ==
    /\ rx.at = "stored"
    /\ status' = TRUE
    /\ rx' = [rx EXCEPT !.at = "raised"]
    /\ UNCHANGED <<profile, arrived, store, rtps, read, trigger, app, purging,
                   leaked, seen, fresh, taken, raced>>

\* ... then process_incoming_change looks whether the change still matches ...
MatchChange ==
    /\ rx.at = "raised"
    /\ rx' = IF Matches("not_read", rx.n) THEN [rx EXCEPT !.at = "matched"] ELSE Idle
    /\ UNCHANGED <<profile, arrived, store, rtps, read, status, trigger, app, purging,
                   leaked, seen, fresh, taken, raced>>

\* ... and triggers the condition.
TriggerCondition ==
    /\ rx.at = "matched"
    /\ trigger' = TRUE
    /\ raced' = \E t \in Threads : Evaluating(t)
    /\ rx' = Idle
    /\ UNCHANGED <<profile, arrived, store, rtps, read, status, app, purging,
                   leaked, seen, fresh, taken>>

-----------------------------------------------------------------------------
(* read and take: select_samples *)

Goto(t, at) == app' = [app EXCEPT ![t].at = at]

\* set_read_communication_status(false)
Begin(t, op, mask, max) ==
    /\ app[t] = Idle
    /\ Serial => \A u \in Threads : app[u] = Idle
    /\ status' = FALSE
    /\ app' = [app EXCEPT ![t] = [at |-> "snapshot", op |-> op, mask |-> mask, left |-> max]]
    /\ UNCHANGED <<profile, arrived, store, rtps, read, trigger, rx, purging,
                   leaked, seen, fresh, taken, raced>>

\* get_available_changes
Snapshot(t) ==
    /\ app[t].at = "snapshot"
    /\ app' = [app EXCEPT ![t] = [at |-> "scan", op |-> @.op, mask |-> @.mask,
                                  left |-> @.left, snap |-> store, todo |-> store]]
    /\ seen' = seen \cup store
    /\ UNCHANGED <<profile, arrived, store, rtps, read, status, trigger, rx, purging,
                   leaked, fresh, taken, raced>>

\* The masks are matched against the state of the change at this moment.
Examine(t) ==
    /\ app[t].at = "scan" /\ app[t].todo # {} /\ app[t].left > 0
    /\ LET n == Min(app[t].todo)
       IN  IF Matches(app[t].mask, n)
             THEN Goto(t, "return")
             ELSE app' = [app EXCEPT ![t].todo = @ \ {n}]
    /\ UNCHANGED <<profile, arrived, store, rtps, read, status, trigger, rx, purging,
                   leaked, seen, fresh, taken, raced>>

Returned(t) == [app EXCEPT ![t].at = "scan", ![t].left = @ - 1, ![t].todo = @ \ {Min(@)}]

\* One more, counted up to two.
Count(n, f) == [f EXCEPT ![n] = IF Serial /\ @ < 2 THEN @ + 1 ELSE @]

\* Variant: the change that exhausts max_samples is returned without a mark.
MarkAllButLast(t) ==
    /\ app[t].at = "return" /\ app[t].op = "read"
    /\ LET n == Min(app[t].todo)
       IN  /\ read' = IF app[t].left > 1 THEN read \cup {n} ELSE read
           /\ fresh' = IF app[t].mask = "not_read" THEN Count(n, fresh) ELSE fresh
    /\ app' = Returned(t)
    /\ UNCHANGED <<profile, arrived, store, rtps, status, trigger, rx, purging,
                   leaked, seen, taken, raced>>

\* mark_sample_as_read
MarkRead(t) ==
    /\ app[t].at = "return" /\ app[t].op = "read"
    /\ LET n == Min(app[t].todo)
       IN  /\ read' = read \cup {n}
           /\ fresh' = IF app[t].mask = "not_read" THEN Count(n, fresh) ELSE fresh
    /\ app' = Returned(t)
    /\ UNCHANGED <<profile, arrived, store, rtps, status, trigger, rx, purging,
                   leaked, seen, taken, raced>>

\* remove_change: from the store ...
RemoveFromStore(t) ==
    /\ app[t].at = "return" /\ app[t].op = "take"
    /\ store' = store \ {Min(app[t].todo)}
    /\ Goto(t, "remove")
    /\ UNCHANGED <<profile, arrived, rtps, read, status, trigger, rx, purging,
                   leaked, seen, fresh, taken, raced>>

\* ... and then, under its lock, from the RTPS history.
RemoveFromRtps(t) ==
    /\ app[t].at = "remove"
    /\ LET n == Min(app[t].todo)
       IN  /\ rtps' = rtps \ {n}
           /\ leaked' = leaked \ {n}
           /\ taken' = Count(n, taken)
    /\ app' = Returned(t)
    /\ UNCHANGED <<profile, arrived, store, read, status, trigger, rx, purging,
                   seen, fresh, raced>>

\* Variant: the mark of the oldest cached change goes too.
MarksAboveLowest(snap) == IF snap = {} THEN {} ELSE {n \in read : n > Min(snap)}

\* prune_read_samples_to_cache: marks below the snapshot's low-water mark go.
KeptMarks(snap) == IF snap = {} THEN {} ELSE {n \in read : n >= Min(snap)}

\* A cached change loses its mark when a thread has already counted it as read.
UnmarkedMeanwhile(t) ==
    /\ \E u \in Threads : app[u].at = "set"
    /\ (read \cap store) \ KeptMarks(app[t].snap) # {}

\* Variant: the status is cleared when the changes have been gone through.
PruneAndClear(t) ==
    /\ app[t].at = "scan" /\ (app[t].todo = {} \/ app[t].left = 0)
    /\ read' = KeptMarks(app[t].snap)
    /\ raced' = (raced \/ UnmarkedMeanwhile(t))
    /\ status' = FALSE
    /\ app' = [app EXCEPT ![t] = [at |-> "evaluate"]]
    /\ UNCHANGED <<profile, arrived, store, rtps, trigger, rx, purging,
                   leaked, seen, fresh, taken>>

Prune(t) ==
    /\ app[t].at = "scan" /\ (app[t].todo = {} \/ app[t].left = 0)
    /\ read' = KeptMarks(app[t].snap)
    /\ raced' = (raced \/ UnmarkedMeanwhile(t))
    /\ app' = [app EXCEPT ![t] = [at |-> "evaluate"]]
    /\ UNCHANGED <<profile, arrived, store, rtps, status, trigger, rx, purging,
                   leaked, seen, fresh, taken>>

\* reevaluate_all_conditions: has_matching_samples_for_condition takes a snapshot
\* of its own ...
Evaluate(t) ==
    /\ app[t].at = "evaluate"
    /\ app' = [app EXCEPT ![t] = [at |-> "match", snap |-> store]]
    /\ raced' = (raced /\ \E u \in Threads \ {t} : Evaluating(u))
    /\ UNCHANGED <<profile, arrived, store, rtps, read, status, trigger, rx, purging,
                   leaked, seen, fresh, taken>>

\* ... matches it against the marks of this moment, under their lock ...
MatchSamples(t) ==
    /\ app[t].at = "match"
    /\ app' = [app EXCEPT ![t] = [at |-> "set", value |-> (@.snap \ read # {})]]
    /\ UNCHANGED <<profile, arrived, store, rtps, read, status, trigger, rx, purging,
                   leaked, seen, fresh, taken, raced>>

\* Variant: a call resets the trigger.
ResetTrigger(t) ==
    /\ app[t].at = "set"
    /\ trigger' = FALSE
    /\ app' = [app EXCEPT ![t] = Idle]
    /\ UNCHANGED <<profile, arrived, store, rtps, read, status, rx, purging,
                   leaked, seen, fresh, taken, raced>>

\* ... and set_trigger_value stores the result, with no lock held.
SetTrigger(t) ==
    /\ app[t].at = "set"
    /\ trigger' = app[t].value
    /\ app' = [app EXCEPT ![t] = Idle]
    /\ UNCHANGED <<profile, arrived, store, rtps, read, status, rx, purging,
                   leaked, seen, fresh, taken, raced>>

-----------------------------------------------------------------------------
(* The timer thread *)

\* Lifespan: the change leaves the store and stays in the RTPS history.
Expire(n) ==
    /\ Expires /\ n \in store
    /\ store' = store \ {n}
    /\ leaked' = leaked \cup {n}
    /\ UNCHANGED <<profile, arrived, rtps, read, status, trigger, rx, app, purging,
                   seen, fresh, taken, raced>>

\* Variant: the instance is emptied before its changes are listed.
EmptyThenList ==
    /\ Expires /\ purging = {} /\ store # {}
    /\ store' = {}
    /\ UNCHANGED <<profile, arrived, rtps, read, status, trigger, rx, app, purging,
                   leaked, seen, fresh, taken, raced>>

\* Autopurge of the instance: remove_change_of_instance.
PurgeStore ==
    /\ Expires /\ purging = {} /\ store # {}
    /\ store' = {}
    /\ purging' = store
    /\ UNCHANGED <<profile, arrived, rtps, read, status, trigger, rx, app,
                   leaked, seen, fresh, taken, raced>>

PurgeRtps ==
    /\ purging # {}
    /\ rtps' = rtps \ purging
    /\ purging' = {}
    /\ UNCHANGED <<profile, arrived, store, read, status, trigger, rx, app,
                   leaked, seen, fresh, taken, raced>>

-----------------------------------------------------------------------------
Init ==
    /\ profile \in Profiles
    /\ arrived = 0 /\ store = {} /\ rtps = {} /\ read = {}
    /\ status = FALSE /\ trigger = FALSE
    /\ rx = Idle /\ app = [t \in Threads |-> Idle] /\ purging = {}
    /\ leaked = {} /\ seen = {} /\ raced = FALSE
    /\ fresh = [n \in Seqs |-> 0] /\ taken = [n \in Seqs |-> 0]

Call(t) ==
    \/ Snapshot(t) \/ Examine(t) \/ MarkRead(t) \/ RemoveFromStore(t) \/ RemoveFromRtps(t)
    \/ Prune(t) \/ Evaluate(t) \/ MatchSamples(t) \/ SetTrigger(t)

Next ==
    \/ Receive \/ RaiseStatus \/ MatchChange \/ TriggerCondition
    \/ \E t \in Threads, op \in {"read", "take"}, mask \in {"any", "not_read"}, max \in Limits :
         Begin(t, op, mask, max)
    \/ \E t \in Threads : Call(t)
    \/ \E n \in Seqs : Expire(n)
    \/ PurgeStore \/ PurgeRtps

Spec == Init /\ [][Next]_vars

-----------------------------------------------------------------------------
(* Properties *)

\* Every variable has its type, and KEEP_LAST bounds the DataReader's history.
TypeOK ==
    /\ profile \in Profiles
    /\ arrived \in 0..MaxArrivals
    /\ store \subseteq 1..arrived /\ rtps \subseteq 1..arrived /\ read \subseteq 1..arrived
    /\ Cardinality(store) <= Depth
    /\ {status, trigger, raced} \subseteq BOOLEAN
    /\ rx.at \in {"idle", "stored", "raised", "matched"}
    /\ \A t \in Threads : app[t].at \in {"idle", "snapshot", "scan", "return", "remove",
                                         "evaluate", "match", "set"}

\* The two histories list the same changes, but for a removal on its way from one
\* to the other and for the changes whose loss the RTPS history is never told.
HistoriesAgree ==
    /\ store \subseteq rtps
    /\ \A n \in rtps \ store :
         \/ n \in leaked \cup purging
         \/ \E t \in Threads : app[t].at = "remove" /\ Min(app[t].todo) = n

\* DATA_AVAILABLE is cleared before the history is looked at, so that no stored
\* change goes unnoticed: while no call has looked at one, the status is raised,
\* about to be raised, or a call is about to look.
NoneOverlooked ==
    \A n \in store \ seen :
        \/ status
        \/ rx.at = "stored" /\ rx.n = n
        \/ \E t \in Threads : app[t].at = "snapshot"

\* An application that makes one call at a time is handed each change at most once
\* by take, and at most once by reads of NOT_READ samples.
HandedOutOnce == Serial => \A n \in Seqs : taken[n] <= 1 /\ fresh[n] <= 1

\* A cached change that was read stays READ in an application that makes one call
\* at a time, whatever arrives, expires or is purged during the call.  With two
\* threads it may not: one prunes by a snapshot older than what the other has read.
SerialPruning == [][Serial => \A n \in read \cap store' : n \in read']_vars

\* Between calls the condition is triggered while there is an unread change, unless
\* a call that was evaluating the condition missed it: the change was stored after the
\* call had looked at the history, or another call pruned its mark after the marks
\* had been looked at.
TriggerFollows ==
    /\ rx = Idle /\ \A t \in Threads : app[t] = Idle
    /\ store \ read # {}
    => trigger \/ raced
=============================================================================
