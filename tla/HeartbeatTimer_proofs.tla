----------------------- MODULE HeartbeatTimer_proofs -----------------------
(***************************************************************************)
(* The flag and the timer of the periodic heartbeat, for any number of     *)
(* samples and any number of heartbeats that are due at once.              *)
(***************************************************************************)
EXTENDS HeartbeatTimer, SequenceTheorems, TLAPS

\* The timer as it will be when the queue of the timer thread is worked off.
Final == IF queue = <<>> THEN armed ELSE queue[Len(queue)] = "add"

\* A stopper compares with a change that was the latest when no write was under way,
\* and goes on only when that change is acknowledged.  If it still is the latest, no
\* write has set the flag since it was cleared.  So the timer to come is there for a
\* flag that is set and for a change that is owed, unless the last message is from a
\* stop whose change is not the latest.
Kept ==
    /\ \A s \in Stoppers :
         /\ stop[s] \in {"compare", "clear", "remove"} =>
              seen[s] <= latest /\ (seen[s] = latest => app = "idle")
         /\ stop[s] \in {"clear", "remove"} => seen[s] <= acked
         /\ stop[s] = "remove" /\ seen[s] = latest => ~running
    /\ app # "adding" /\ ~overtaken /\ running => Final
    /\ app = "idle" /\ ~overtaken /\ acked < latest => Final

-----------------------------------------------------------------------------
LEMMA StepType == TypeOK /\ [Next]_vars => TypeOK'
<1> SUFFICES ASSUME TypeOK, [Next]_vars PROVE TypeOK'
  BY Zenon
<1> USE TimerAssumption DEF TypeOK, Stoppers
<1>1. CASE Write
  BY <1>1 DEF Write
<1>2. CASE Register
  BY <1>2, Zenon DEF Register
<1>3. CASE AddTimer
  <2>1. queue' \in Seq({"add", "remove"})
    BY <1>3 DEF AddTimer
  <2> QED
    BY <1>3, <2>1, Zenon DEF AddTimer
<1>4. CASE HandleAcknack
  BY <1>4 DEF HandleAcknack, At
<1>5. CASE HandleDue
  BY <1>5 DEF HandleDue, At
<1>6. CASE SendHeartbeat
  BY <1>6 DEF SendHeartbeat, At
<1>7. ASSUME NEW s \in Stoppers, StopStep(s) PROVE TypeOK'
  <2>1. CASE CheckRunning(s)
    BY <2>1 DEF CheckRunning, NotStopped, At
  <2>2. CASE ReadLatest(s)
    BY <2>2, Zenon DEF ReadLatest, At
  <2>3. CASE Compare(s)
    BY <2>3 DEF Compare, NotStopped, At
  <2>4. CASE ClearRunning(s)
    BY <2>4, Zenon DEF ClearRunning, At
  <2>5. CASE RemoveTimer(s)
    <3>1. queue' \in Seq({"add", "remove"})
      BY <2>5 DEF RemoveTimer
    <3>2. overtaken' \in BOOLEAN
      BY <2>5 DEF RemoveTimer
    <3> QED
      BY <2>5, <3>1, <3>2, Zenon DEF RemoveTimer, At
  <2> QED
    BY <1>7, <2>1, <2>2, <2>3, <2>4, <2>5, Zenon DEF StopStep
<1>8. CASE ProcessMessage
  <2>1. queue' \in Seq({"add", "remove"})
    BY <1>8 DEF ProcessMessage
  <2>2. armed' \in BOOLEAN
    BY <1>8, Zenon DEF ProcessMessage
  <2> QED
    BY <1>8, <2>1, <2>2, Zenon DEF ProcessMessage
<1>9. CASE FireTimer
  BY <1>9 DEF FireTimer
<1>10. CASE Lose
  BY <1>10 DEF Lose
<1>11. CASE UNCHANGED vars
  BY <1>11, Zenon DEF vars
<1> QED
  BY <1>1, <1>2, <1>3, <1>4, <1>5, <1>6, <1>7, <1>8, <1>9, <1>10, <1>11, Zenon DEF Next

\* The types are kept, and nothing is acknowledged that no heartbeat has announced.
THEOREM TypeCorrect == Spec => []TypeOK
<1>1. Init => TypeOK
  <2> SUFFICES ASSUME Init PROVE TypeOK
    BY Zenon
  <2>1. queue \in Seq({"add", "remove"})
    BY DEF Init
  <2>2. stop \in [Stoppers -> {"idle", "check", "latest", "compare", "clear", "remove", "heartbeat"}]
    BY Zenon DEF Init
  <2>3. seen \in [Stoppers -> 0..MaxSN]
    BY TimerAssumption DEF Init
  <2>4. latest \in 0..MaxSN /\ told \in 0..latest /\ acked \in 0..told /\ due \in 0..MaxDue
    BY TimerAssumption DEF Init
  <2> QED
    BY <2>1, <2>2, <2>3, <2>4, Zenon DEF Init, TypeOK
<1> QED
  BY <1>1, StepType, PTL DEF Spec

-----------------------------------------------------------------------------
(* The timer to come *)

\* A message queued decides.
LEMMA Queued ==
    ASSUME TypeOK, NEW m \in {"add", "remove"}, queue' = Append(queue, m)
    PROVE  Final' = (m = "add")
<1>1. queue' # <<>> /\ queue'[Len(queue')] = m
  BY DEF TypeOK
<1> QED
  BY <1>1, Zenon DEF Final

\* The timer thread works the queue off and changes nothing that is to come.
LEMMA WorkedOff ==
    ASSUME TypeOK, ProcessMessage
    PROVE  Final' = Final
<1> DEFINE n == Len(queue)
<1>1. /\ queue \in Seq({"add", "remove"}) /\ queue # <<>> /\ n \in Nat \ {0}
      /\ queue' = Tail(queue) /\ armed' = (queue[1] = "add")
  BY DEF TypeOK, ProcessMessage
<1>2. CASE n = 1
  <2>1. queue' \in Seq({"add", "remove"}) /\ Len(queue') = 0
    BY <1>1, <1>2
  <2>2. queue' = <<>>
    BY <2>1, EmptySeq, Zenon
  <2>3. queue[Len(queue)] = queue[1]
    BY <1>2, Zenon
  <2> QED
    BY <1>1, <2>2, <2>3, Zenon DEF Final
<1>3. CASE n > 1
  <2>1. Len(queue') = n - 1 /\ queue'[n - 1] = queue[n]
    BY <1>1, <1>3
  <2>2. queue' # <<>>
    BY <1>1, <1>3, <2>1
  <2>3. queue'[Len(queue')] = queue[Len(queue)]
    BY <2>1, Zenon
  <2> QED
    BY <1>1, <2>2, <2>3, Zenon DEF Final
<1>4. n = 1 \/ n > 1
  <2>1. n \in Nat \ {0}
    BY <1>1, Zenon
  <2> HIDE DEF n
  <2> QED
    BY <2>1
<1> QED
  BY <1>2, <1>3, <1>4, Zenon

\* Stopper s moves from one place to another and the rest is left alone.
LEMMA StopMoves ==
    ASSUME TypeOK, NEW s \in Stoppers, NEW label, At(s, label)
    PROVE  stop'[s] = label /\ \A u \in Stoppers \ {s} : stop'[u] = stop[u]
  BY Zenon DEF TypeOK, At

LEMMA StepKept ==
    ASSUME TypeOK, Kept, [Next]_vars
    PROVE  Kept'
<1>0. /\ latest \in Int /\ acked \in Int /\ told \in Int
      /\ \A s \in Stoppers : seen[s] \in Int
      /\ acked <= latest /\ told <= latest
  BY TimerAssumption DEF TypeOK
<1>1. CASE Write
  <2>1. /\ app = "idle" /\ app' = "sent" /\ latest' = latest + 1
        /\ UNCHANGED <<acked, running, queue, armed, stop, seen, overtaken>>
    BY <1>1, Zenon DEF Write
  <2>2. Final' = Final
    BY <2>1, Zenon DEF Final
  <2>3. ASSUME NEW s \in Stoppers, seen[s] <= latest
        PROVE  seen[s] <= latest' /\ seen[s] # latest'
    BY <1>0, <2>1, <2>3
  <2> QED
    BY <2>1, <2>2, <2>3, Zenon DEF Kept
<1>2. CASE Register
  <2>1. /\ app = "sent" /\ running' = TRUE
        /\ UNCHANGED <<latest, acked, queue, armed, stop, seen, overtaken>>
        /\ app' = IF running THEN "idle" ELSE "adding"
    BY <1>2, Zenon DEF Register
  <2>2. Final' = Final
    BY <2>1, Zenon DEF Final
  <2>3. \A s \in Stoppers : stop[s] \in {"compare", "clear", "remove"} => seen[s] # latest
    BY <2>1, Zenon DEF Kept
  <2>4. running /\ ~overtaken => Final
    BY <2>1, Zenon DEF Kept
  <2> QED
    BY <2>1, <2>2, <2>3, <2>4, Zenon DEF Kept
<1>3. CASE AddTimer
  <2>1. /\ app' = "idle" /\ queue' = Append(queue, "add")
        /\ UNCHANGED <<latest, acked, running, stop, seen>>
    BY <1>3, Zenon DEF AddTimer
  <2>2. Final'
    BY <2>1, Queued, Zenon
  <2> QED
    BY <2>1, <2>2, Zenon DEF Kept
<1>4. CASE HandleAcknack
  <2>1. /\ stop["receive"] = "idle" /\ acked' = told /\ told > acked
        /\ UNCHANGED <<latest, running, queue, armed, app, seen, overtaken>>
        /\ At("receive", "check") /\ "receive" \in Stoppers
    BY <1>4, Zenon DEF HandleAcknack, Stoppers
  <2>2. stop'["receive"] = "check" /\ \A u \in Stoppers \ {"receive"} : stop'[u] = stop[u]
    BY <2>1, StopMoves, Zenon
  <2>3. Final' = Final
    BY <2>1, Zenon DEF Final
  <2>4. acked' < latest' => acked < latest
    BY <1>0, <2>1
  <2>5. ASSUME NEW s \in Stoppers, seen[s] <= acked PROVE seen[s] <= acked'
    BY <1>0, <2>1, <2>5
  <2> QED
    BY <2>1, <2>2, <2>3, <2>4, <2>5, Zenon DEF Kept
<1>5. CASE HandleDue \/ SendHeartbeat
  <2>1. UNCHANGED <<latest, acked, running, queue, armed, app, seen, overtaken>>
    BY <1>5, Zenon DEF HandleDue, SendHeartbeat
  <2>2. PICK label \in {"check", "idle"} : At("send", label) /\ "send" \in Stoppers
    BY <1>5, Zenon DEF HandleDue, SendHeartbeat, Stoppers
  <2>3. stop'["send"] = label /\ \A u \in Stoppers \ {"send"} : stop'[u] = stop[u]
    BY <2>2, StopMoves, Zenon
  <2>4. Final' = Final
    BY <2>1, Zenon DEF Final
  <2> QED
    BY <2>1, <2>2, <2>3, <2>4, Zenon DEF Kept
<1>6. ASSUME NEW s \in Stoppers, StopStep(s) PROVE Kept'
  <2>1. CASE CheckRunning(s)
    <3>1. UNCHANGED <<latest, acked, running, queue, armed, app, seen, overtaken>>
      BY <2>1, Zenon DEF CheckRunning
    <3>2. PICK label \in {"latest", "heartbeat", "idle"} : At(s, label)
      BY <2>1, Zenon DEF CheckRunning, NotStopped
    <3>3. stop'[s] = label /\ \A u \in Stoppers \ {s} : stop'[u] = stop[u]
      BY <3>2, StopMoves, Zenon
    <3>4. Final' = Final
      BY <3>1, Zenon DEF Final
    <3> QED
      BY <3>1, <3>2, <3>3, <3>4, Zenon DEF Kept
  <2>2. CASE ReadLatest(s)
    <3>1. /\ app = "idle" /\ seen' = [seen EXCEPT ![s] = latest] /\ At(s, "compare")
          /\ UNCHANGED <<latest, acked, running, queue, armed, app, overtaken>>
      BY <2>2, Zenon DEF ReadLatest
    <3>2. stop'[s] = "compare" /\ \A u \in Stoppers \ {s} : stop'[u] = stop[u]
      BY <3>1, StopMoves, Zenon
    <3>3. seen'[s] = latest /\ \A u \in Stoppers \ {s} : seen'[u] = seen[u]
      BY <3>1, Zenon DEF TypeOK
    <3>4. Final' = Final
      BY <3>1, Zenon DEF Final
    <3>5. latest <= latest
      BY <1>0
    <3> QED
      BY <3>1, <3>2, <3>3, <3>4, <3>5, Zenon DEF Kept
  <2>3. CASE Compare(s)
    <3>1. /\ stop[s] = "compare"
          /\ UNCHANGED <<latest, acked, running, queue, armed, app, seen, overtaken>>
      BY <2>3, Zenon DEF Compare
    <3>2. PICK label \in {"clear", "heartbeat", "idle"} :
               At(s, label) /\ (label = "clear" => acked >= seen[s])
      BY <2>3, Zenon DEF Compare, NotStopped
    <3>3. stop'[s] = label /\ \A u \in Stoppers \ {s} : stop'[u] = stop[u]
      BY <3>2, StopMoves, Zenon
    <3>4. Final' = Final
      BY <3>1, Zenon DEF Final
    <3>5. label = "clear" => seen[s] <= acked
      BY <1>0, <3>2
    <3> QED
      BY <3>1, <3>2, <3>3, <3>4, <3>5, Zenon DEF Kept
  <2>4. CASE ClearRunning(s)
    <3>1. /\ stop[s] = "clear" /\ running' = FALSE /\ At(s, "remove")
          /\ UNCHANGED <<latest, acked, queue, armed, app, seen, overtaken>>
      BY <2>4, Zenon DEF ClearRunning
    <3>2. stop'[s] = "remove" /\ \A u \in Stoppers \ {s} : stop'[u] = stop[u]
      BY <3>1, StopMoves, Zenon
    <3>3. Final' = Final
      BY <3>1, Zenon DEF Final
    <3> QED
      BY <3>1, <3>2, <3>3, Zenon DEF Kept
  <2>5. CASE RemoveTimer(s)
    <3>1. /\ stop[s] = "remove" /\ overtaken' = (seen[s] < latest) /\ At(s, "idle")
          /\ UNCHANGED <<latest, acked, running, app, seen>>
      BY <2>5, Zenon DEF RemoveTimer
    <3>2. stop'[s] = "idle" /\ \A u \in Stoppers \ {s} : stop'[u] = stop[u]
      BY <3>1, StopMoves, Zenon
    <3>3. seen[s] <= latest /\ seen[s] <= acked /\ (seen[s] = latest => ~running)
      BY <3>1, Zenon DEF Kept
    <3>4. ~(seen[s] < latest) => seen[s] = latest /\ ~(acked < latest)
      BY <1>0, <3>3
    <3>5. ~overtaken' => ~running' /\ ~(acked' < latest')
      BY <3>1, <3>3, <3>4, Zenon
    <3> QED
      BY <3>1, <3>2, <3>5, Zenon DEF Kept
  <2> QED
    BY <1>6, <2>1, <2>2, <2>3, <2>4, <2>5, Zenon DEF StopStep
<1>7. CASE ProcessMessage
  <2>1. UNCHANGED <<latest, acked, running, app, stop, seen, overtaken>>
    BY <1>7, Zenon DEF ProcessMessage
  <2>2. Final' = Final
    BY <1>7, WorkedOff, Zenon
  <2> QED
    BY <2>1, <2>2, Zenon DEF Kept
<1>8. CASE FireTimer \/ Lose \/ UNCHANGED vars
  <2>1. UNCHANGED <<latest, acked, running, queue, armed, app, stop, seen, overtaken>>
    BY <1>8, Zenon DEF FireTimer, Lose, vars
  <2>2. Final' = Final
    BY <2>1, Zenon DEF Final
  <2> QED
    BY <2>1, <2>2, Zenon DEF Kept
<1> QED
  BY <1>1, <1>2, <1>3, <1>4, <1>5, <1>6, <1>7, <1>8, Zenon DEF Next

\* However writes and the two stopping threads cross, the timer exists while the flag is
\* set or a change is unacknowledged, as soon as the queue of the timer thread is empty,
\* unless a stop that missed a write was the last to speak to the timer thread.
THEOREM TimerStays == Spec => []TimerKept
<1>1. Init => Kept
  <2> SUFFICES ASSUME Init PROVE Kept
    BY Zenon
  <2>1. ~(acked < latest)
    BY DEF Init
  <2> QED
    BY <2>1, Zenon DEF Init, Kept, Final
<1>2. TypeOK /\ Kept /\ [Next]_vars => Kept'
  BY StepKept, Zenon
<1>3. Kept => TimerKept
  BY Zenon DEF Kept, TimerKept, Final
<1> QED
  BY <1>1, <1>2, <1>3, TypeCorrect, PTL DEF Spec
=============================================================================
