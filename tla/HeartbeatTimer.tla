-------------------------- MODULE HeartbeatTimer --------------------------
(***************************************************************************)
(* Start and stop of the periodic heartbeat of one StatefulWriter, in the   *)
(* steps the threads take.  ReliableProtocol has the flag alone; here the   *)
(* timer lives behind the message queue of the timer thread:               *)
(*                                                                         *)
(*   application    write starts the timer if heartbeat_timer_running is    *)
(*                  false (register_periodic_heartbeat_timer)              *)
(*   receive thread, sending task                                           *)
(*                  each calls stop_heartbeat_if_acked_by_all, after an     *)
(*                  ACKNACK and before a heartbeat                         *)
(*   timer thread   works off AddTimer and RemoveTimer, fires the timer    *)
(*                                                                         *)
(* The readers are one: told is the last sequence number a heartbeat has    *)
(* told it and that it may acknowledge.  A heartbeat or its answer may be   *)
(* lost.                                                                    *)
(***************************************************************************)
EXTENDS Integers, Sequences

CONSTANTS MaxSN,           \* bound on the samples written
          MaxDue           \* bound on UserHeartbeatToAll messages queued at once

ASSUME TimerAssumption == MaxSN \in Nat /\ MaxDue \in Nat \ {0}

VARIABLES
    latest,   \* the highest sequence number in the writer cache
    acked,    \* the lowest max_acked_sn of the readers
    told,     \* the last sequence number a heartbeat announced
    running,  \* heartbeat_timer_running
    queue,    \* TimerHandler::message_queue
    armed,    \* the timer is in TimerTask::timers
    due,      \* UserHeartbeatToAll messages at the sending task
    app,      \* where the writing thread is
    stop,     \* stop[s]: where stopper s is in stop_heartbeat_if_acked_by_all
    seen,     \* seen[s]: the latest sequence number s compares with
    \* history variable, read by the properties only
    overtaken \* the last message to the timer thread is from a stop that missed a write

vars == <<latest, acked, told, running, queue, armed, due, app, stop, seen, overtaken>>

Stoppers == {"receive", "send"}

Init ==
    /\ latest = 0 /\ acked = 0 /\ told = 0
    /\ running = FALSE /\ queue = <<>> /\ armed = FALSE /\ due = 0
    /\ app = "idle"
    /\ stop = [s \in Stoppers |-> "idle"]
    /\ seen = [s \in Stoppers |-> 0]
    /\ overtaken = FALSE

At(s, label) == stop' = [stop EXCEPT ![s] = label]

----------------------------------------------------------------------------
(* DataWriter::write, under the writer cache mutex until it is idle again *)

Write ==
    /\ app = "idle" /\ latest < MaxSN
    /\ latest' = latest + 1
    /\ app' = "sent"
    /\ UNCHANGED <<acked, told, running, queue, armed, due, stop, seen, overtaken>>

\* The compare-and-swap of register_periodic_heartbeat_timer_impl.
Register ==
    /\ app = "sent"
    /\ app' = IF running THEN "idle" ELSE "adding"
    /\ running' = TRUE
    /\ UNCHANGED <<latest, acked, told, queue, armed, due, stop, seen, overtaken>>

AddTimer ==
    /\ app = "adding"
    /\ queue' = Append(queue, "add")
    /\ app' = "idle"
    /\ overtaken' = FALSE
    /\ UNCHANGED <<latest, acked, told, running, armed, due, stop, seen>>

----------------------------------------------------------------------------
(* stop_heartbeat_if_acked_by_all *)

\* The handler of an ACKNACK raises max_acked_sn and then tries to stop.
HandleAcknack ==
    /\ stop["receive"] = "idle"
    /\ told > acked
    /\ acked' = told
    /\ At("receive", "check")
    /\ UNCHANGED <<latest, told, running, queue, armed, due, app, seen, overtaken>>

HandleDue ==
    /\ stop["send"] = "idle"
    /\ due > 0
    /\ due' = due - 1
    /\ At("send", "check")
    /\ UNCHANGED <<latest, acked, told, running, queue, armed, app, seen, overtaken>>

\* Variant: the two answers of stop_heartbeat_if_acked_by_all are taken for one.
SendNothing(s) == At(s, "idle")

\* What follows when the heartbeat was not stopped: the sending task sends it.
NotStopped(s) == At(s, IF s = "send" THEN "heartbeat" ELSE "idle")

CheckRunning(s) ==
    /\ stop[s] = "check"
    /\ IF running THEN At(s, "latest") ELSE NotStopped(s)
    /\ UNCHANGED <<latest, acked, told, running, queue, armed, due, app, seen, overtaken>>

\* is_acked_by_all reads the cache under its mutex and then the proxies.
ReadLatest(s) ==
    /\ stop[s] = "latest"
    /\ app = "idle"
    /\ seen' = [seen EXCEPT ![s] = latest]
    /\ At(s, "compare")
    /\ UNCHANGED <<latest, acked, told, running, queue, armed, due, app, overtaken>>

\* Variant: a reader one change behind counts as up to date.
CompareOffByOne(s) ==
    /\ stop[s] = "compare"
    /\ IF acked + 1 >= seen[s] THEN At(s, "clear") ELSE NotStopped(s)
    /\ UNCHANGED <<latest, acked, told, running, queue, armed, due, app, seen, overtaken>>

Compare(s) ==
    /\ stop[s] = "compare"
    /\ IF acked >= seen[s] THEN At(s, "clear") ELSE NotStopped(s)
    /\ UNCHANGED <<latest, acked, told, running, queue, armed, due, app, seen, overtaken>>

\* The compare-and-swap to false, whose result is not looked at.
ClearRunning(s) ==
    /\ stop[s] = "clear"
    /\ running' = FALSE
    /\ At(s, "remove")
    /\ UNCHANGED <<latest, acked, told, queue, armed, due, app, seen, overtaken>>

RemoveTimer(s) ==
    /\ stop[s] = "remove"
    /\ queue' = Append(queue, "remove")
    /\ overtaken' = (seen[s] < latest)
    /\ At(s, "idle")
    /\ UNCHANGED <<latest, acked, told, running, armed, due, app, seen>>

\* The rest of send_heartbeat_to_anonymous_matched_readers.
SendHeartbeat ==
    /\ stop["send"] = "heartbeat"
    /\ app = "idle"
    /\ told' = latest
    /\ At("send", "idle")
    /\ UNCHANGED <<latest, acked, running, queue, armed, due, app, seen, overtaken>>

----------------------------------------------------------------------------
(* The timer thread and the network *)

\* add_timer skips a timer that exists, remove_timer one that does not.
ProcessMessage ==
    /\ queue # <<>>
    /\ armed' = (Head(queue) = "add")
    /\ queue' = Tail(queue)
    /\ UNCHANGED <<latest, acked, told, running, due, app, stop, seen, overtaken>>

FireTimer ==
    /\ armed /\ due < MaxDue
    /\ due' = due + 1
    /\ UNCHANGED <<latest, acked, told, running, queue, armed, app, stop, seen, overtaken>>

\* A heartbeat or the ACKNACK it asks for is lost.
Lose ==
    /\ told > acked
    /\ told' = acked
    /\ UNCHANGED <<latest, acked, running, queue, armed, due, app, stop, seen, overtaken>>

StopStep(s) ==
    CheckRunning(s) \/ ReadLatest(s) \/ Compare(s) \/ ClearRunning(s) \/ RemoveTimer(s)

Next ==
    \/ Write \/ Register \/ AddTimer
    \/ HandleAcknack \/ HandleDue \/ SendHeartbeat
    \/ \E s \in Stoppers : StopStep(s)
    \/ ProcessMessage \/ FireTimer \/ Lose

Spec == Init /\ [][Next]_vars

\* Every thread goes on; the application owes no write and the network delivers
\* an answer now and then.
FairSpec ==
    /\ Spec
    /\ WF_vars(Register) /\ WF_vars(AddTimer)
    /\ WF_vars(HandleDue) /\ WF_vars(SendHeartbeat) /\ SF_vars(HandleAcknack)
    /\ \A s \in Stoppers : WF_vars(StopStep(s))
    /\ WF_vars(ProcessMessage) /\ WF_vars(FireTimer)

----------------------------------------------------------------------------
(* Properties *)

\* Every variable has its type; nothing is acknowledged that was not announced.
TypeOK ==
    /\ latest \in 0..MaxSN /\ told \in 0..latest /\ acked \in 0..told
    /\ running \in BOOLEAN /\ armed \in BOOLEAN
    /\ queue \in Seq({"add", "remove"})
    /\ due \in 0..MaxDue
    /\ app \in {"idle", "sent", "adding"}
    /\ stop \in [Stoppers -> {"idle", "check", "latest", "compare", "clear", "remove", "heartbeat"}]
    /\ seen \in [Stoppers -> 0..MaxSN]
    /\ overtaken \in BOOLEAN

\* A write that finds heartbeat_timer_running set leaves the timer as it is.  It may:
\* once the messages to the timer thread are worked off, the timer exists while the
\* flag is set or a change is unacknowledged.  Only a stop that compared the
\* acknowledgements with an older change than the latest takes it away before.
TimerKept ==
    /\ app = "idle" /\ queue = <<>>
    /\ running \/ acked < latest
    => armed \/ overtaken

\* The heartbeat is stopped if all readers have acknowledged the latest change:
\* while one has not, heartbeats go on until it has, unless a stop that missed a
\* write has removed the timer and no write has started it since.
OwedIsAcked == \A n \in 1..MaxSN : (latest >= n) ~> (acked >= n \/ overtaken)
=============================================================================
