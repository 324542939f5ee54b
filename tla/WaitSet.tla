------------------------------ MODULE WaitSet ------------------------------
(***************************************************************************)
(* A WaitSet, the StatusConditions attached to it, and the threads that     *)
(* meet there: dcps/infrastructure/wait_set.rs and status_condition.rs.     *)
(*                                                                         *)
(*   waiters     WaitSet::wait                                             *)
(*   notifiers   StatusCondition::set_communication_status, called by the   *)
(*               receive and the application threads; those in Maskers     *)
(*               also call set_enabled_statuses                            *)
(*   attachers   attach_condition and detach_condition                     *)
(*                                                                         *)
(* A step ends where another thread can see the difference: at each lock    *)
(* and at each access to an atomic.  The sections under notify_lock take no *)
(* other lock and are one step each.  The generation is not a number here:  *)
(* waiters only compare it with the one they saw, so that current, the set  *)
(* of waiters whose snapshot is the present generation, is all of it.       *)
(***************************************************************************)
CONSTANTS Waiters,           \* threads that call wait
          Timed,             \* those that give a finite timeout
          Notifiers,         \* threads that raise and clear statuses
          Maskers,           \* those that also change the enabled mask
          Attachers,         \* threads that attach and detach
          MaskApart,         \* no status is added while a mask is being set
          Conditions,        \* StatusConditions
          Statuses,          \* communication statuses
          FirstAttached,     \* conditions attached at the start
          None               \* no thread, no condition, no status

ASSUME WaitSetAssumption ==
    /\ Timed \subseteq Waiters /\ Maskers \subseteq Notifiers
    /\ FirstAttached \subseteq Conditions
    /\ MaskApart \in BOOLEAN
    /\ None \notin Waiters \cup Notifiers \cup Attachers \cup Conditions \cup Statuses
    /\ Waiters \cap (Notifiers \cup Attachers) = {} /\ Notifiers \cap Attachers = {}

Threads == Waiters \cup Notifiers \cup Attachers

VARIABLES
    enabled,   \* enabled[c]: enabled_statuses
    changes,   \* changes[c]: status_changes
    callback,  \* conditions whose waitset_callback is planted
    cbLock,    \* cbLock[c]: who holds the waitset_callback mutex
    attached,  \* WaitSet::conditions
    condLock,  \* who holds the conditions mutex
    current,   \* waiters whose snapshot equals NotifyState::generation
    store,     \* store[n]: a mask n stored that other threads do not see yet
    pc,        \* pc[t]: where thread t is
    op         \* op[t]: the local variables of its call

vars == <<enabled, changes, callback, cbLock, attached, condLock, current, store, pc, op>>

NoOp == [cond |-> None, mask |-> {}, left |-> {}, found |-> FALSE, again |-> FALSE]

Stored == [cond : Conditions, mask : SUBSET Statuses]

NoStore == [cond |-> None, mask |-> {}]

(***************************************************************************)
(* pc of a waiter: idle, snapshot, scan (before the lock), scanning, load   *)
(* (between the two loads of get_trigger_value), loop, parked, woken.  Of a *)
(* notifier: idle, added, masked, remasked, callback, bump, wake.  Of an    *)
(* attacher: idle, check, checked, plant, insert, unplant, bump, wake.      *)
(***************************************************************************)
PC == {"idle", "snapshot", "scan", "scanning", "load", "loop", "parked", "woken",
       "added", "masked", "remasked", "callback", "bump", "wake",
       "check", "checked", "plant", "insert", "unplant"}

Triggered(c) == enabled[c] \cap changes[c] # {}

Go(t, label) == pc' = [pc EXCEPT ![t] = label]

Finish(t) == Go(t, "idle") /\ op' = [op EXCEPT ![t] = NoOp]

Init ==
    /\ enabled = [c \in Conditions |-> Statuses]
    /\ changes = [c \in Conditions |-> {}]
    /\ callback = FirstAttached
    /\ cbLock = [c \in Conditions |-> None]
    /\ attached = FirstAttached
    /\ condLock = None
    /\ current = {}
    /\ store = [n \in Notifiers |-> NoStore]
    /\ pc = [t \in Threads |-> "idle"]
    /\ op = [t \in Threads |-> NoOp]

----------------------------------------------------------------------------
(* WaitSet::wait *)

\* waiting_count is raised for as long as the call lasts.
Enter(t) ==
    /\ pc[t] = "idle"
    /\ Go(t, "snapshot")
    /\ UNCHANGED <<enabled, changes, callback, cbLock, attached, condLock, current, store, op>>

\* The threads waiting_count counts, and those parked counts.
Waiting == {t \in Waiters : pc[t] # "idle"}
Parked == {t \in Waiters : pc[t] \in {"parked", "woken"}}

\* The generation as of now becomes t's snapshot, and t scans.
Observe(t) ==
    /\ current' = current \cup {t}
    /\ Go(t, "scan")

Snapshot(t) ==
    /\ pc[t] = "snapshot"
    /\ Observe(t)
    /\ UNCHANGED <<enabled, changes, callback, cbLock, attached, condLock, store, op>>

\* check_triggered_conditions, one condition after the other.
LockConditions(t) ==
    /\ pc[t] = "scan"
    /\ condLock = None
    /\ condLock' = t
    /\ op' = [op EXCEPT ![t].left = attached]
    /\ Go(t, "scanning")
    /\ UNCHANGED <<enabled, changes, callback, cbLock, attached, current, store>>

LoadEnabled(t) ==
    /\ pc[t] = "scanning"
    /\ \E c \in op[t].left : op' = [op EXCEPT ![t].cond = c, ![t].mask = enabled[c]]
    /\ Go(t, "load")
    /\ UNCHANGED <<enabled, changes, callback, cbLock, attached, condLock, current, store>>

LoadChanges(t) ==
    /\ pc[t] = "load"
    /\ LET c == op[t].cond
       IN  op' = [op EXCEPT ![t].cond = None, ![t].mask = {}, ![t].left = @ \ {c},
                            ![t].found = @ \/ op[t].mask \cap changes[c] # {}]
    /\ Go(t, "scanning")
    /\ UNCHANGED <<enabled, changes, callback, cbLock, attached, condLock, current, store>>

\* The scan ends.  The deadline is looked at after every scan but the first.
EndScan(t) ==
    /\ pc[t] = "scanning" /\ op[t].left = {}
    /\ condLock' = None
    /\ \/ /\ op[t].found \/ (op[t].again /\ t \in Timed)
          /\ Finish(t)
          /\ current' = current \ {t}
       \/ /\ ~op[t].found
          /\ Go(t, "loop")
          /\ UNCHANGED <<op, current>>
    /\ UNCHANGED <<enabled, changes, callback, cbLock, attached, store>>

\* Nothing was notified since the snapshot: park.
Park(t) ==
    /\ pc[t] = "loop" /\ t \in current
    /\ Go(t, "parked")
    /\ UNCHANGED <<enabled, changes, callback, cbLock, attached, condLock, current, store, op>>

\* The generation moved before t could park.
Rescan(t) ==
    /\ pc[t] = "loop" /\ t \notin current
    /\ Observe(t)
    /\ op' = [op EXCEPT ![t].found = FALSE, ![t].again = TRUE]
    /\ UNCHANGED <<enabled, changes, callback, cbLock, attached, condLock, store>>

\* The deadline has passed, before parking or in the condvar, and the
\* generation has not moved.
Timeout(t) ==
    /\ pc[t] \in {"loop", "parked", "woken"} /\ t \in Timed /\ t \in current
    /\ Finish(t)
    /\ current' = current \ {t}
    /\ UNCHANGED <<enabled, changes, callback, cbLock, attached, condLock, store>>

\* condvar.wait returns without a notification, or at the deadline.
WakeSpuriously(t) ==
    /\ pc[t] = "parked"
    /\ Go(t, "woken")
    /\ UNCHANGED <<enabled, changes, callback, cbLock, attached, condLock, current, store, op>>

\* Woken and holding notify_lock again: scan if the generation moved.
Resume(t) ==
    /\ pc[t] = "woken"
    /\ IF t \in current
       THEN Go(t, "loop") /\ UNCHANGED <<current, op>>
       ELSE Observe(t) /\ op' = [op EXCEPT ![t].found = FALSE, ![t].again = TRUE]
    /\ UNCHANGED <<enabled, changes, callback, cbLock, attached, condLock, store>>

WaiterStep(t) ==
    \/ Snapshot(t) \/ LockConditions(t) \/ LoadEnabled(t) \/ LoadChanges(t) \/ EndScan(t)
    \/ Park(t) \/ Rescan(t) \/ Resume(t)

----------------------------------------------------------------------------
(* StatusCondition *)

(***************************************************************************)
(* A mask is stored with Release and the changes are loaded with Acquire,   *)
(* which lets the load overtake the store: until MaskVisible, only the      *)
(* thread that stored the mask reads it.  Taking a mutex or a read-modify-  *)
(* write of an atomic waits for the store (total store order).              *)
(***************************************************************************)
Drained(n) == store[n] = NoStore

MaskVisible(n) ==
    /\ ~Drained(n)
    /\ enabled' = [enabled EXCEPT ![store[n].cond] = store[n].mask]
    /\ store' = [store EXCEPT ![n] = NoStore]
    /\ UNCHANGED <<changes, callback, cbLock, attached, condLock, current, pc, op>>

\* A mask is on its way.
Masking == \E n \in Maskers : pc[n] \in {"masked", "remasked"} \/ ~Drained(n)

\* status_changes.fetch_or; callers pass one status.
AddCommunicationStatus(n, c, s) ==
    /\ pc[n] = "idle" /\ Drained(n)
    /\ MaskApart => ~Masking
    /\ changes' = [changes EXCEPT ![c] = @ \cup {s}]
    /\ op' = [op EXCEPT ![n] = [NoOp EXCEPT !.cond = c, !.mask = {s}]]
    /\ Go(n, "added")
    /\ UNCHANGED <<enabled, callback, cbLock, attached, condLock, current, store>>

\* Every bit of the status must be enabled for the callback to be called.
TestMask(n) ==
    /\ pc[n] = "added"
    /\ IF op[n].mask \subseteq enabled[op[n].cond]
       THEN Go(n, "callback") /\ UNCHANGED op
       ELSE Finish(n)
    /\ UNCHANGED <<enabled, changes, callback, cbLock, attached, condLock, current, store>>

RemoveCommunicationStatus(n, c, s) ==
    /\ pc[n] = "idle" /\ Drained(n)
    /\ changes' = [changes EXCEPT ![c] = @ \ {s}]
    /\ UNCHANGED <<enabled, callback, cbLock, attached, condLock, current, store, pc, op>>

\* set_enabled_statuses: the store, the two loads, the callback.
SetEnabledStatuses(n, c, mask) ==
    /\ n \in Maskers
    /\ pc[n] = "idle" /\ Drained(n)
    /\ store' = [store EXCEPT ![n] = [cond |-> c, mask |-> mask]]
    /\ op' = [op EXCEPT ![n].cond = c]
    /\ Go(n, "masked")
    /\ UNCHANGED <<enabled, changes, callback, cbLock, attached, condLock, current>>

ReloadMask(n) ==
    /\ pc[n] = "masked"
    /\ op' = [op EXCEPT ![n].mask = IF Drained(n) THEN enabled[op[n].cond] ELSE store[n].mask]
    /\ Go(n, "remasked")
    /\ UNCHANGED <<enabled, changes, callback, cbLock, attached, condLock, current, store>>

\* Variant: a new mask wakes nobody.
ForgetReevaluation(n) ==
    /\ pc[n] = "remasked"
    /\ Finish(n)
    /\ UNCHANGED <<enabled, changes, callback, cbLock, attached, condLock, current, store>>

Reevaluate(n) ==
    /\ pc[n] = "remasked"
    /\ IF op[n].mask \cap changes[op[n].cond] # {}
       THEN Go(n, "callback") /\ UNCHANGED op
       ELSE Finish(n)
    /\ UNCHANGED <<enabled, changes, callback, cbLock, attached, condLock, current, store>>

\* The callback, if one is planted, runs under the waitset_callback mutex.
LockCallback(n) ==
    /\ pc[n] = "callback" /\ Drained(n)
    /\ cbLock[op[n].cond] = None
    /\ IF op[n].cond \in callback
       THEN Go(n, "bump") /\ cbLock' = [cbLock EXCEPT ![op[n].cond] = n] /\ UNCHANGED op
       ELSE Finish(n) /\ UNCHANGED cbLock
    /\ UNCHANGED <<enabled, changes, callback, attached, condLock, current, store>>

----------------------------------------------------------------------------
(* The notify closure, on whichever thread *)

\* The mutexes t holds around the closure are released when it returns.
ReleaseCallback(t) == cbLock' = [c \in Conditions |-> IF cbLock[c] = t THEN None ELSE cbLock[c]]

\* Variant: the generation moves only when somebody is parked.
NotifyIfParked(t) ==
    /\ pc[t] = "bump"
    /\ IF Parked = {}
       THEN Finish(t) /\ ReleaseCallback(t) /\ UNCHANGED current
       ELSE Go(t, "wake") /\ current' = {} /\ UNCHANGED <<op, cbLock>>
    /\ UNCHANGED <<enabled, changes, callback, attached, condLock, store>>

\* The generation moves, and a wake follows if anybody is parked.
Notify(t) ==
    /\ pc[t] = "bump"
    /\ current' = {}
    /\ IF Parked = {}
       THEN Finish(t) /\ ReleaseCallback(t)
       ELSE Go(t, "wake") /\ UNCHANGED <<op, cbLock>>
    /\ UNCHANGED <<enabled, changes, callback, attached, condLock, store>>

\* condvar.notify_all.
NotifyAll(t) ==
    /\ pc[t] = "wake"
    /\ pc' = [u \in Threads |-> IF u = t THEN "idle"
                                ELSE IF pc[u] = "parked" THEN "woken" ELSE pc[u]]
    /\ op' = [op EXCEPT ![t] = NoOp]
    /\ ReleaseCallback(t)
    /\ UNCHANGED <<enabled, changes, callback, attached, condLock, current, store>>

NotifierStep(n) ==
    TestMask(n) \/ ReloadMask(n) \/ Reevaluate(n) \/ LockCallback(n) \/ MaskVisible(n)

----------------------------------------------------------------------------
(* attach_condition and detach_condition *)

\* Under the conditions mutex; the trigger value matters only if a thread waits.
AttachCondition(a, c) ==
    /\ pc[a] = "idle"
    /\ condLock = None
    /\ c \notin attached
    /\ condLock' = a
    /\ op' = [op EXCEPT ![a].cond = c]
    /\ Go(a, IF Waiting # {} THEN "check" ELSE "plant")
    /\ UNCHANGED <<enabled, changes, callback, cbLock, attached, current, store>>

CheckEnabled(a) ==
    /\ pc[a] = "check"
    /\ op' = [op EXCEPT ![a].mask = enabled[op[a].cond]]
    /\ Go(a, "checked")
    /\ UNCHANGED <<enabled, changes, callback, cbLock, attached, condLock, current, store>>

CheckChanges(a) ==
    /\ pc[a] = "checked"
    /\ op' = [op EXCEPT ![a].found = op[a].mask \cap changes[op[a].cond] # {}]
    /\ Go(a, "plant")
    /\ UNCHANGED <<enabled, changes, callback, cbLock, attached, condLock, current, store>>

PlantCallback(a) ==
    /\ pc[a] = "plant"
    /\ cbLock[op[a].cond] = None
    /\ callback' = callback \cup {op[a].cond}
    /\ Go(a, "insert")
    /\ UNCHANGED <<enabled, changes, cbLock, attached, condLock, current, store, op>>

InsertCondition(a) ==
    /\ pc[a] = "insert"
    /\ attached' = attached \cup {op[a].cond}
    /\ condLock' = None
    /\ IF op[a].found THEN Go(a, "bump") /\ UNCHANGED op ELSE Finish(a)
    /\ UNCHANGED <<enabled, changes, callback, cbLock, current, store>>

DetachCondition(a, c) ==
    /\ pc[a] = "idle"
    /\ condLock = None
    /\ c \in attached
    /\ condLock' = a
    /\ attached' = attached \ {c}
    /\ op' = [op EXCEPT ![a].cond = c]
    /\ Go(a, "unplant")
    /\ UNCHANGED <<enabled, changes, callback, cbLock, current, store>>

\* Variant: a detached condition keeps its callback.
KeepCallback(a) ==
    /\ pc[a] = "unplant"
    /\ condLock' = None
    /\ Finish(a)
    /\ UNCHANGED <<enabled, changes, callback, cbLock, attached, current, store>>

ClearCallback(a) ==
    /\ pc[a] = "unplant"
    /\ cbLock[op[a].cond] = None
    /\ callback' = callback \ {op[a].cond}
    /\ condLock' = None
    /\ Finish(a)
    /\ UNCHANGED <<enabled, changes, cbLock, attached, current, store>>

AttacherStep(a) ==
    \/ CheckEnabled(a) \/ CheckChanges(a) \/ PlantCallback(a) \/ InsertCondition(a)
    \/ ClearCallback(a)

----------------------------------------------------------------------------

Next ==
    \/ \E t \in Waiters : Enter(t) \/ WaiterStep(t) \/ Timeout(t) \/ WakeSpuriously(t)
    \/ \E n \in Notifiers :
          \/ NotifierStep(n)
          \/ \E c \in Conditions, s \in Statuses :
                AddCommunicationStatus(n, c, s) \/ RemoveCommunicationStatus(n, c, s)
          \/ \E c \in Conditions, mask \in SUBSET Statuses : SetEnabledStatuses(n, c, mask)
    \/ \E a \in Attachers :
          \/ AttacherStep(a)
          \/ \E c \in Conditions : AttachCondition(a, c) \/ DetachCondition(a, c)
    \/ \E t \in Notifiers \cup Attachers : Notify(t) \/ NotifyAll(t)

Spec == Init /\ [][Next]_vars

\* A thread inside a call goes on, a mutex released time and again is obtained,
\* and a store becomes visible; the program owes no call, no timeout and no
\* spurious wake-up.
FairSpec ==
    /\ Spec
    /\ \A t \in Waiters : WF_vars(WaiterStep(t)) /\ SF_vars(LockConditions(t))
    /\ \A n \in Notifiers : /\ WF_vars(NotifierStep(n)) /\ WF_vars(MaskVisible(n))
                            /\ SF_vars(LockCallback(n))
    /\ \A a \in Attachers : /\ WF_vars(AttacherStep(a))
                            /\ SF_vars(PlantCallback(a)) /\ SF_vars(ClearCallback(a))
    /\ \A t \in Notifiers \cup Attachers : WF_vars(Notify(t)) /\ WF_vars(NotifyAll(t))

----------------------------------------------------------------------------
(* Properties *)

\* Every variable has its type, and the mutexes are held where the code holds
\* them: conditions while scanning, attaching and detaching, waitset_callback
\* while the notify closure runs.
TypeOK ==
    /\ enabled \in [Conditions -> SUBSET Statuses]
    /\ changes \in [Conditions -> SUBSET Statuses]
    /\ callback \in SUBSET Conditions /\ attached \in SUBSET Conditions
    /\ cbLock \in [Conditions -> Notifiers \cup {None}]
    /\ condLock \in Waiters \cup Attachers \cup {None}
    /\ current \in SUBSET Waiters
    /\ store \in [Notifiers -> Stored \cup {NoStore}]
    /\ pc \in [Threads -> PC]
    /\ op \in [Threads -> [cond : Conditions \cup {None}, mask : SUBSET Statuses,
                           left : SUBSET Conditions, found : BOOLEAN, again : BOOLEAN]]
    /\ \A t \in Waiters \cup Attachers :
          condLock = t <=> pc[t] \in {"scanning", "load", "check", "checked", "plant",
                                      "insert", "unplant"}

\* A thread that changed c and has not called the closure yet.
Notifying(n, c) ==
    /\ op[n].cond = c
    /\ pc[n] \in {"added", "masked", "remasked", "callback", "bump"}

\* wait promises to return once an attached condition is triggered.  A thread
\* parked since the last notification while an attached condition is triggered
\* has a notification coming from the thread that triggered it; one parked over
\* a notification has the wake coming (wait_set.rs, wait and make_notify).
NoLostWakeup ==
    \A t \in Waiters : pc[t] = "parked" =>
        /\ t \notin current => \E n \in Notifiers \cup Attachers : pc[n] = "wake"
        /\ t \in current => \A c \in attached : Triggered(c) =>
               \E n \in Notifiers \cup Attachers : Notifying(n, c)

\* detach_condition leaves no callback behind: outside of attach and detach the
\* conditions that would call the closure are the attached ones.
CallbackIffAttached == condLock \notin Attachers => callback = attached

\* A thread does not stay in wait while a condition stays attached and triggered.
WaitReturns ==
    \A t \in Waiters, c \in Conditions :
        []<>(pc[t] = "idle") \/ []<>~(c \in attached /\ Triggered(c))
=============================================================================
