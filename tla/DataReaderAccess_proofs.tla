---------------------- MODULE DataReaderAccess_proofs ----------------------
(***************************************************************************)
(* What read and take keep true against the receive thread and the timer   *)
(* thread, for any number of application threads, any depth of the history *)
(* and any number of arrivals: first the types, then the histories, the    *)
(* status, the READ marks and the trigger, each by an invariant of its own. *)
(***************************************************************************)
EXTENDS DataReaderAccess, FiniteSetTheorems, WellFoundedInduction, TLAPS

\* A call that has taken its snapshot and is going through it.
Scanning == {"scan", "return", "remove"}
Ready == [at : {"snapshot"}, op : {"read", "take"}, mask : {"any", "not_read"}, left : Int]
Busy == [at : Scanning, op : {"read", "take"}, mask : {"any", "not_read"}, left : Int,
         snap : SUBSET Seqs, todo : SUBSET Seqs]
Pruned == {[at |-> "evaluate"]}
Matching == [at : {"match"}, snap : SUBSET Seqs]
Setting == [at : {"set"}, value : BOOLEAN]
Calls == {Idle} \cup Ready \cup Busy \cup Pruned \cup Matching \cup Setting
Received == [at : {"stored", "raised", "matched"}, n : Seqs]
Receiving == {Idle} \cup Received

\* A call's snapshot lists changes that have arrived, and the change it is about to
\* return is still on its list.
Sound(r) ==
    /\ r.at \in Scanning => r.todo \subseteq r.snap /\ r.snap \subseteq 1..arrived
    /\ r.at \in {"return", "remove"} => r.todo # {}

\* What the steps need of the types.
TypeInv ==
    /\ profile \in Profiles
    /\ arrived \in 0..MaxArrivals
    /\ store \subseteq 1..arrived /\ rtps \subseteq 1..arrived
    /\ read \subseteq 1..arrived /\ purging \subseteq 1..arrived
    /\ status \in BOOLEAN /\ trigger \in BOOLEAN /\ raced \in BOOLEAN
    /\ rx \in Receiving
    /\ app \in [Threads -> Calls]
    /\ \A t \in Threads : Sound(app[t])

-----------------------------------------------------------------------------
(* Minima, records and the threads a step leaves alone *)

\* A set of natural numbers that is not empty has a least element.
LEMMA Least ==
    ASSUME NEW S \in SUBSET Nat, S # {}
    PROVE  Min(S) \in S /\ \A y \in S : Min(S) <= y
<1>1. PICK x \in S : \A y \in S : ~(<<y, x>> \in OpToRel(<, Nat))
  BY NatLessThanWellFounded, WFMin, Zenon
<1>2. ASSUME NEW y \in S PROVE x <= y
  <2>1. ~(y < x)
    BY <1>1, Zenon DEF OpToRel
  <2> QED
    BY <2>1
<1> QED
  BY <1>2, Zenon DEF Min

\* The place a call has reached tells which fields it has.
LEMMA Places ==
    ASSUME NEW r \in Calls
    PROVE  /\ r.at \in Scanning <=> r \in Busy
           /\ r.at = "snapshot" <=> r \in Ready
           /\ r.at = "match" <=> r \in Matching
           /\ r.at = "set" <=> r \in Setting
           /\ r.at = "evaluate" <=> r \in Pruned
           /\ r.at = "idle" <=> r = Idle
  BY DEF Calls, Ready, Busy, Pruned, Matching, Setting, Idle, Scanning

\* A step of one thread leaves the others where they are.
LEMMA OneMoves ==
    ASSUME app \in [Threads -> Calls], NEW t \in Threads, NEW r \in Calls,
           app' = [app EXCEPT ![t] = r]
    PROVE  /\ app' \in [Threads -> Calls]
           /\ app'[t] = r
           /\ \A u \in Threads \ {t} : app'[u] = app[u]
  BY Zenon

\* Goto changes the place only.
LEMMA GotoMoves ==
    ASSUME app \in [Threads -> Calls], NEW t \in Threads, app[t] \in Busy,
           NEW at \in Scanning, Goto(t, at)
    PROVE  /\ app' \in [Threads -> Calls]
           /\ app'[t] \in Busy
           /\ app'[t].at = at /\ app'[t].op = app[t].op /\ app'[t].mask = app[t].mask
           /\ app'[t].snap = app[t].snap /\ app'[t].todo = app[t].todo
           /\ \A u \in Threads \ {t} : app'[u] = app[u]
<1> DEFINE r == [app[t] EXCEPT !.at = at]
<1>1. r \in Busy /\ r.at = at /\ r.op = app[t].op /\ r.mask = app[t].mask
         /\ r.snap = app[t].snap /\ r.todo = app[t].todo
  BY Zenon DEF Busy
<1>2. r \in Calls
  BY <1>1, Zenon DEF Calls
<1>3. app' = [app EXCEPT ![t] = r]
  BY Zenon DEF Goto
<1> HIDE DEF r
<1> QED
  BY <1>1, <1>2, <1>3, OneMoves, Zenon

\* A change passed over leaves the list.
LEMMA PassMoves ==
    ASSUME app \in [Threads -> Calls], NEW t \in Threads, app[t] \in Busy,
           NEW n, app' = [app EXCEPT ![t].todo = @ \ {n}]
    PROVE  /\ app' \in [Threads -> Calls]
           /\ app'[t] \in Busy
           /\ app'[t].at = app[t].at
           /\ app'[t].snap = app[t].snap /\ app'[t].todo = app[t].todo \ {n}
           /\ \A u \in Threads \ {t} : app'[u] = app[u]
<1> DEFINE r == [app[t] EXCEPT !.todo = app[t].todo \ {n}]
<1>1. r \in Busy /\ r.at = app[t].at /\ r.snap = app[t].snap /\ r.todo = app[t].todo \ {n}
  BY Zenon DEF Busy
<1>2. r \in Calls
  BY <1>1, Zenon DEF Calls
<1>3. app' = [app EXCEPT ![t] = r]
  BY Zenon
<1> HIDE DEF r
<1> QED
  BY <1>1, <1>2, <1>3, OneMoves, Zenon

\* A change returned leaves the list too, and the scan goes on.
LEMMA ReturnMoves ==
    ASSUME app \in [Threads -> Calls], NEW t \in Threads, app[t] \in Busy,
           app' = Returned(t)
    PROVE  /\ app' \in [Threads -> Calls]
           /\ app'[t] \in Busy
           /\ app'[t].at = "scan"
           /\ app'[t].snap = app[t].snap
           /\ app'[t].todo = app[t].todo \ {Min(app[t].todo)}
           /\ \A u \in Threads \ {t} : app'[u] = app[u]
<1> DEFINE left == app[t].left - 1
<1> DEFINE todo == app[t].todo \ {Min(app[t].todo)}
<1> DEFINE r == [app[t] EXCEPT !.at = "scan", !.left = left, !.todo = todo]
<1>1. left \in Int /\ todo \in SUBSET Seqs
  BY DEF Busy
<1>2. app' = [app EXCEPT ![t] = r]
  BY Zenon DEF Returned
<1> HIDE DEF left, todo
<1>3. r \in Busy /\ r.at = "scan" /\ r.snap = app[t].snap /\ r.todo = todo
  BY <1>1, Zenon DEF Busy, Scanning
<1>4. r \in Calls
  BY <1>3, Zenon DEF Calls
<1> HIDE DEF r
<1> QED
  BY <1>2, <1>3, <1>4, OneMoves, Zenon DEF todo

-----------------------------------------------------------------------------
(* Types *)

\* A call begins with a Ready record, and its snapshot makes it a Busy one.
LEMMA BeginMoves ==
    ASSUME TypeInv, NEW t \in Threads, NEW op \in {"read", "take"},
           NEW mask \in {"any", "not_read"}, NEW max \in Limits, Begin(t, op, mask, max)
    PROVE  /\ app' \in [Threads -> Calls]
           /\ app'[t].at = "snapshot"
           /\ \A u \in Threads \ {t} : app'[u] = app[u]
<1> DEFINE r == [at |-> "snapshot", op |-> op, mask |-> mask, left |-> max]
<1>1. max \in Int
  BY AccessAssumption DEF TypeInv, Limits
<1>2. r \in Calls /\ r.at = "snapshot"
  BY <1>1, Zenon DEF Calls, Ready
<1>3. app' = [app EXCEPT ![t] = r]
  BY Zenon DEF Begin
<1> HIDE DEF r
<1> QED
  BY <1>2, <1>3, OneMoves, Zenon DEF TypeInv

LEMMA SnapshotMoves ==
    ASSUME TypeInv, NEW t \in Threads, Snapshot(t)
    PROVE  /\ app' \in [Threads -> Calls]
           /\ app'[t].at = "scan" /\ app'[t].snap = store /\ app'[t].todo = store
           /\ \A u \in Threads \ {t} : app'[u] = app[u]
<1> DEFINE r == [at |-> "scan", op |-> app[t].op, mask |-> app[t].mask,
                 left |-> app[t].left, snap |-> store, todo |-> store]
<1>1. app[t] \in Ready
  BY Places, Zenon DEF TypeInv, Snapshot
<1>2. store \in SUBSET Seqs
  BY AccessAssumption DEF TypeInv, Seqs
<1>3. r \in Busy
  BY <1>1, <1>2, Zenon DEF Ready, Busy, Scanning
<1>4. r \in Calls /\ r.at = "scan" /\ r.snap = store /\ r.todo = store
  BY <1>3, Zenon DEF Calls
<1>5. app' = [app EXCEPT ![t] = r]
  BY Zenon DEF Snapshot
<1> HIDE DEF r
<1> QED
  BY <1>4, <1>5, OneMoves, Zenon DEF TypeInv

LEMMA PruneMoves ==
    ASSUME TypeInv, NEW t \in Threads, Prune(t)
    PROVE  /\ app' \in [Threads -> Calls]
           /\ app'[t].at = "evaluate"
           /\ \A u \in Threads \ {t} : app'[u] = app[u]
<1> DEFINE r == [at |-> "evaluate"]
<1>1. r \in Calls /\ r.at = "evaluate"
  BY Zenon DEF Calls, Pruned
<1>2. app' = [app EXCEPT ![t] = r]
  BY Zenon DEF Prune
<1> HIDE DEF r
<1> QED
  BY <1>1, <1>2, OneMoves, Zenon DEF TypeInv

LEMMA EvaluateMoves ==
    ASSUME TypeInv, NEW t \in Threads, Evaluate(t)
    PROVE  /\ app' \in [Threads -> Calls]
           /\ app'[t].at = "match" /\ app'[t].snap = store
           /\ \A u \in Threads \ {t} : app'[u] = app[u]
<1> DEFINE r == [at |-> "match", snap |-> store]
<1>1. store \in SUBSET Seqs
  BY AccessAssumption DEF TypeInv, Seqs
<1>2. r \in Calls /\ r.at = "match" /\ r.snap = store
  BY <1>1, Zenon DEF Calls, Matching
<1>3. app' = [app EXCEPT ![t] = r]
  BY Zenon DEF Evaluate
<1> HIDE DEF r
<1> QED
  BY <1>2, <1>3, OneMoves, Zenon DEF TypeInv

LEMMA MatchMoves ==
    ASSUME TypeInv, NEW t \in Threads, MatchSamples(t)
    PROVE  /\ app' \in [Threads -> Calls]
           /\ app'[t].at = "set" /\ app'[t].value = (app[t].snap \ read # {})
           /\ \A u \in Threads \ {t} : app'[u] = app[u]
<1> DEFINE r == [at |-> "set", value |-> (app[t].snap \ read # {})]
<1>1. (app[t].snap \ read # {}) \in BOOLEAN
  BY Zenon
<1>2. r \in Calls /\ r.at = "set" /\ r.value = (app[t].snap \ read # {})
  BY <1>1, Zenon DEF Calls, Setting
<1>3. app' = [app EXCEPT ![t] = r]
  BY Zenon DEF MatchSamples
<1> HIDE DEF r
<1> QED
  BY <1>2, <1>3, OneMoves, Zenon DEF TypeInv

LEMMA SetTriggerMoves ==
    ASSUME TypeInv, NEW t \in Threads, SetTrigger(t)
    PROVE  /\ app' \in [Threads -> Calls]
           /\ app'[t] = Idle /\ app'[t].at = "idle"
           /\ \A u \in Threads \ {t} : app'[u] = app[u]
<1>1. Idle \in Calls /\ Idle.at = "idle"
  BY Zenon DEF Calls, Idle
<1> QED
  BY <1>1, OneMoves, Zenon DEF SetTrigger, TypeInv

\* The change a call is about to return has arrived, and is the oldest on its list.
LEMMA NextOne ==
    ASSUME TypeInv, NEW t \in Threads, app[t].at \in Scanning, app[t].todo # {}
    PROVE  /\ app[t] \in Busy
           /\ Min(app[t].todo) \in app[t].todo
           /\ Min(app[t].todo) \in app[t].snap
           /\ Min(app[t].todo) \in 1..arrived
<1>1. app[t] \in Busy
  BY Places, Zenon DEF TypeInv
<1>2. app[t].todo \subseteq app[t].snap /\ app[t].snap \subseteq 1..arrived
  BY Zenon DEF TypeInv, Sound
<1>3. app[t].todo \in SUBSET Nat
  BY <1>1, AccessAssumption DEF Busy, Seqs
<1>4. Min(app[t].todo) \in app[t].todo
  BY <1>3, Least, Zenon
<1> QED
  BY <1>1, <1>2, <1>4, Zenon

LEMMA InitType == Init => TypeInv
<1> SUFFICES ASSUME Init PROVE TypeInv
  BY Zenon
<1>1. arrived \in 0..MaxArrivals /\ rx \in Receiving
  BY AccessAssumption DEF Init, Receiving
<1>2. app \in [Threads -> Calls]
  BY Zenon DEF Init, Calls
<1>3. \A t \in Threads : Sound(app[t])
  BY Zenon DEF Init, Sound, Idle, Scanning
<1> QED
  BY <1>1, <1>2, <1>3, Zenon DEF Init, TypeInv

LEMMA SoundStays ==
    ASSUME TypeInv, arrived' \in Nat, arrived <= arrived',
           NEW u \in Threads, app'[u] = app[u]
    PROVE  Sound(app[u])'
  BY DEF TypeInv, Sound

\* The steps of a call keep the types.
LEMMA CallType ==
    ASSUME TypeInv, NEW t \in Threads, Call(t)
    PROVE  TypeInv'
<1> USE DEF TypeInv
<1>0. arrived' = arrived /\ profile' = profile /\ rx' = rx /\ purging' = purging
        /\ status' = status /\ arrived \in Nat
  BY DEF Call, Snapshot, Examine, MarkRead, RemoveFromStore, RemoveFromRtps, Prune,
         Evaluate, MatchSamples, SetTrigger
<1>1. ASSUME app' \in [Threads -> Calls], Sound(app[t])',
             \A u \in Threads \ {t} : app'[u] = app[u]
      PROVE  app' \in [Threads -> Calls] /\ \A u \in Threads : Sound(app[u])'
  BY <1>0, <1>1, SoundStays
<1>2. CASE Snapshot(t)
  <2>1. Sound(app[t])'
    BY <1>0, <1>2, SnapshotMoves, Zenon DEF Sound
  <2>2. store' = store /\ rtps' = rtps /\ read' = read /\ trigger' = trigger /\ raced' = raced
    BY <1>2, Zenon DEF Snapshot
  <2> QED
    BY <1>0, <1>1, <1>2, <2>1, <2>2, SnapshotMoves, Zenon
<1>3. CASE Examine(t)
  <2> DEFINE n == Min(app[t].todo)
  <2>1. app[t].at = "scan" /\ app[t].todo # {} /\ app[t].at \in Scanning
    BY <1>3, Zenon DEF Examine, Scanning
  <2>2. app[t] \in Busy
    BY <2>1, NextOne, Zenon
  <2>3. store' = store /\ rtps' = rtps /\ read' = read /\ trigger' = trigger /\ raced' = raced
    BY <1>3, Zenon DEF Examine
  <2>4. CASE Goto(t, "return")
    <3>1. "return" \in Scanning
      BY Zenon DEF Scanning
    <3>2. Sound(app[t])'
      BY <1>0, <2>1, <2>2, <2>4, <3>1, GotoMoves, Zenon DEF Sound
    <3> QED
      BY <1>0, <1>1, <2>2, <2>3, <2>4, <3>1, <3>2, GotoMoves, Zenon
  <2>5. CASE app' = [app EXCEPT ![t].todo = @ \ {n}]
    <3> HIDE DEF n
    <3>1. Sound(app[t])'
      BY <1>0, <2>1, <2>2, <2>5, PassMoves DEF Sound
    <3> QED
      BY <1>0, <1>1, <2>2, <2>3, <2>5, <3>1, PassMoves, Zenon
  <2> QED
    BY <1>3, <2>4, <2>5, Zenon DEF Examine
<1>4. CASE MarkRead(t)
  <2>1. app[t].at = "return" /\ app[t].at \in Scanning /\ app[t].todo # {}
    BY <1>4, Zenon DEF MarkRead, Scanning, Sound
  <2>2. app[t] \in Busy /\ Min(app[t].todo) \in 1..arrived
    BY <2>1, NextOne, Zenon
  <2>3. store' = store /\ rtps' = rtps /\ trigger' = trigger /\ raced' = raced
          /\ read' = read \cup {Min(app[t].todo)} /\ app' = Returned(t)
    BY <1>4, Zenon DEF MarkRead
  <2>4. Sound(app[t])'
    BY <1>0, <2>1, <2>2, <2>3, ReturnMoves, Zenon DEF Sound
  <2> QED
    BY <1>0, <1>1, <2>2, <2>3, <2>4, ReturnMoves, Zenon
<1>5. CASE RemoveFromStore(t)
  <2>1. app[t].at = "return" /\ app[t].at \in Scanning /\ app[t].todo # {}
    BY <1>5, Zenon DEF RemoveFromStore, Scanning, Sound
  <2>2. app[t] \in Busy /\ "remove" \in Scanning
    BY <2>1, NextOne, Zenon DEF Scanning
  <2>3. store' \subseteq store /\ rtps' = rtps /\ read' = read /\ trigger' = trigger
          /\ raced' = raced /\ Goto(t, "remove")
    BY <1>5, Zenon DEF RemoveFromStore
  <2>4. Sound(app[t])'
    BY <1>0, <2>1, <2>2, <2>3, GotoMoves, Zenon DEF Sound
  <2> QED
    BY <1>0, <1>1, <2>2, <2>3, <2>4, GotoMoves, Zenon
<1>6. CASE RemoveFromRtps(t)
  <2>1. app[t].at = "remove" /\ app[t].at \in Scanning /\ app[t].todo # {}
    BY <1>6, Zenon DEF RemoveFromRtps, Scanning, Sound
  <2>2. app[t] \in Busy
    BY <2>1, NextOne, Zenon
  <2>3. store' = store /\ rtps' \subseteq rtps /\ read' = read /\ trigger' = trigger
          /\ raced' = raced /\ app' = Returned(t)
    BY <1>6, Zenon DEF RemoveFromRtps
  <2>4. Sound(app[t])'
    BY <1>0, <2>1, <2>2, <2>3, ReturnMoves, Zenon DEF Sound
  <2> QED
    BY <1>0, <1>1, <2>2, <2>3, <2>4, ReturnMoves, Zenon
<1>7. CASE Prune(t)
  <2>1. store' = store /\ rtps' = rtps /\ read' \subseteq read /\ trigger' = trigger
          /\ raced' \in BOOLEAN
    BY <1>7, Zenon DEF Prune, KeptMarks
  <2>2. Sound(app[t])'
    BY <1>7, PruneMoves, Zenon DEF Sound, Scanning
  <2> QED
    BY <1>0, <1>1, <1>7, <2>1, <2>2, PruneMoves, Zenon
<1>8. CASE Evaluate(t)
  <2>1. store' = store /\ rtps' = rtps /\ read' = read /\ trigger' = trigger /\ raced' \in BOOLEAN
    BY <1>8, Zenon DEF Evaluate
  <2>2. Sound(app[t])'
    BY <1>8, EvaluateMoves, Zenon DEF Sound, Scanning
  <2> QED
    BY <1>0, <1>1, <1>8, <2>1, <2>2, EvaluateMoves, Zenon
<1>9. CASE SetTrigger(t)
  <2>0. app[t] \in Setting
    BY <1>9, Places, Zenon DEF SetTrigger
  <2>1. store' = store /\ rtps' = rtps /\ read' = read /\ trigger' \in BOOLEAN /\ raced' = raced
    BY <1>9, <2>0, Zenon DEF SetTrigger, Setting
  <2>2. Sound(app[t])'
    BY <1>9, SetTriggerMoves, Zenon DEF Sound, Scanning
  <2> QED
    BY <1>0, <1>1, <1>9, <2>1, <2>2, SetTriggerMoves, Zenon
<1>10. CASE MatchSamples(t)
  <2>1. store' = store /\ rtps' = rtps /\ read' = read /\ trigger' = trigger /\ raced' = raced
    BY <1>10, Zenon DEF MatchSamples
  <2>2. Sound(app[t])'
    BY <1>10, MatchMoves, Zenon DEF Sound, Scanning
  <2> QED
    BY <1>0, <1>1, <1>10, <2>1, <2>2, MatchMoves, Zenon
<1> QED
  BY <1>2, <1>3, <1>4, <1>5, <1>6, <1>7, <1>8, <1>9, <1>10, Zenon DEF Call

\* The steps of the receive thread and of the timer thread, and the beginning of a
\* call, keep the types.
LEMMA StepType == TypeInv /\ [Next]_vars => TypeInv'
<1> SUFFICES ASSUME TypeInv, [Next]_vars PROVE TypeInv'
  BY Zenon
<1> USE DEF TypeInv
<1>0. arrived \in Nat
  OBVIOUS
<1>1. ASSUME app' = app, arrived' \in Nat, arrived <= arrived'
      PROVE  \A u \in Threads : Sound(app[u])'
  BY <1>1, SoundStays, Zenon
<1>2. CASE Receive
  <2> DEFINE n == arrived + 1
  <2>1. arrived' = n /\ n \in 0..MaxArrivals /\ n \in Seqs /\ n \in 1..n
          /\ 1..arrived \subseteq 1..n
    BY <1>0, <1>2, AccessAssumption DEF Receive, Seqs
  <2>2. store' \subseteq store \cup {n} /\ rtps' \subseteq rtps \cup {n}
    BY <1>2, Zenon DEF Receive
  <2>3. rx' \in Receiving
    BY <1>2, <2>1, Zenon DEF Receive, Receiving, Received
  <2>4. raced' \in BOOLEAN
    BY <1>2, Zenon DEF Receive
  <2>5. /\ profile' = profile /\ app' = app /\ read' = read /\ purging' = purging
        /\ status' = status /\ trigger' = trigger
    BY <1>2, Zenon DEF Receive
  <2> HIDE DEF n
  <2>6. \A u \in Threads : Sound(app[u])'
    BY <1>1, <2>1, <2>5, <1>0 DEF n
  <2> QED
    BY <2>1, <2>2, <2>3, <2>4, <2>5, <2>6, Zenon
<1>3. CASE RaiseStatus
  <2>1. rx' \in Receiving
    <3>1. rx \in Received
      BY <1>3 DEF RaiseStatus, Receiving, Received, Idle
    <3>2. rx' \in Received
      BY <1>3, <3>1, Zenon DEF RaiseStatus, Received
    <3> QED
      BY <3>2, Zenon DEF Receiving
  <2> QED
    BY <1>0, <1>1, <1>3, <2>1 DEF RaiseStatus
<1>4. CASE TriggerCondition
  <2>1. UNCHANGED <<profile, arrived, store, rtps, read, status, app, purging>>
          /\ rx' \in Receiving
    BY <1>4, Zenon DEF TriggerCondition, Receiving
  <2>2. trigger' \in BOOLEAN
    BY <1>4, Zenon DEF TriggerCondition
  <2>3. raced' \in BOOLEAN
    BY <1>4, Zenon DEF TriggerCondition
  <2>4. \A u \in Threads : Sound(app[u])'
    BY <1>0, <1>1, <2>1
  <2> QED
    BY <2>1, <2>2, <2>3, <2>4, Zenon
<1>5. CASE \E t \in Threads, op \in {"read", "take"}, mask \in {"any", "not_read"},
              max \in Limits : Begin(t, op, mask, max)
  <2>1. PICK t \in Threads, op \in {"read", "take"}, mask \in {"any", "not_read"},
             max \in Limits : Begin(t, op, mask, max)
    BY <1>5, Zenon
  <2>2. /\ app' \in [Threads -> Calls] /\ app'[t].at = "snapshot"
        /\ \A u \in Threads \ {t} : app'[u] = app[u]
    BY <2>1, BeginMoves
  <2>3. UNCHANGED <<profile, arrived, store, rtps, read, trigger, rx, purging, raced>>
          /\ status' = FALSE
    BY <2>1, Zenon DEF Begin
  <2>4. \A u \in Threads : Sound(app[u])'
    BY <1>0, <2>2, <2>3, SoundStays, Zenon DEF Sound, Scanning
  <2> QED
    BY <2>2, <2>3, <2>4, Zenon
<1>6. CASE \E t \in Threads : Call(t)
  BY <1>6, CallType, Zenon
<1>7. CASE \E n \in Seqs : Expire(n)
  BY <1>0, <1>1, <1>7 DEF Expire
<1>8. CASE PurgeStore
  BY <1>0, <1>1, <1>8 DEF PurgeStore
<1>9. CASE PurgeRtps
  BY <1>0, <1>1, <1>9 DEF PurgeRtps
<1>10. CASE UNCHANGED vars
  BY <1>0, <1>1, <1>10 DEF vars
<1>11. CASE MatchChange
  <2>1. rx \in Received
    BY <1>11 DEF MatchChange, Receiving, Received, Idle
  <2>2. rx' \in Receiving
    BY <1>11, <2>1, Zenon DEF MatchChange, Receiving, Received
  <2>3. UNCHANGED <<profile, arrived, store, rtps, read, status, trigger, raced, app, purging>>
    BY <1>11, Zenon DEF MatchChange
  <2>4. \A u \in Threads : Sound(app[u])'
    BY <1>0, <1>1, <2>3
  <2> QED
    BY <2>2, <2>3, <2>4, Zenon
<1> QED
  BY <1>2, <1>3, <1>4, <1>5, <1>6, <1>7, <1>8, <1>9, <1>10, <1>11, Zenon DEF Next

LEMMA FiniteStore ==
    ASSUME NEW S, NEW k \in Nat, S \subseteq 1..k
    PROVE  IsFiniteSet(S) /\ Cardinality(S) \in Nat
<1>1. IsFiniteSet(1..k)
  BY FS_Interval
<1> QED
  BY <1>1, FS_Subset, FS_CardinalityType, Zenon

\* ensure_capacity makes the room that add_change takes.
LEMMA StepRoom ==
    ASSUME TypeInv, [Next]_vars, Cardinality(store) <= Depth
    PROVE  Cardinality(store') <= Depth
<1>1. arrived \in Nat /\ store \subseteq 1..arrived /\ Depth \in Nat \ {0}
  BY AccessAssumption DEF TypeInv
<1>2. IsFiniteSet(store) /\ Cardinality(store) \in Nat
  BY <1>1, FiniteStore, Zenon
<1>3. ASSUME store' \subseteq store PROVE Cardinality(store') <= Depth
  <2>1. Cardinality(store') \in Nat /\ Cardinality(store') <= Cardinality(store)
    BY <1>2, <1>3, FS_Subset, FS_CardinalityType, Zenon
  <2> QED
    BY <1>1, <1>2, <2>1
<1>4. ASSUME Receive, ~(store' \subseteq store) PROVE Cardinality(store') <= Depth
  <2> DEFINE n == arrived + 1
             kept == store \ Evicted(n)
  <2>1. store' = kept \cup ({n} \ Filtered)
    BY <1>4, Zenon DEF Receive
  <2>2. n \notin Filtered /\ n \notin kept /\ store' = kept \cup {n}
    <3>1. n \notin store
      BY <1>1
    <3> QED
      BY <1>4, <2>1, <3>1, Zenon
  <2>3. IsFiniteSet(kept) /\ Cardinality(kept) \in Nat /\ Cardinality(kept) < Depth
    <3>1. CASE Cardinality(store) >= Depth
      <4>1. kept = store \ {Min(store)}
        BY <2>2, <3>1, Zenon DEF Evicted
      <4>2. store # {}
        BY <1>1, <3>1, FS_EmptySet
      <4>3. store \in SUBSET Nat
        BY <1>1
      <4>4. Min(store) \in store
        BY <4>2, <4>3, Least, Zenon
      <4> HIDE DEF kept
      <4>5. IsFiniteSet(kept) /\ Cardinality(kept) = Cardinality(store) - 1
        BY <1>2, <4>1, <4>4, FS_RemoveElement, Zenon
      <4> QED
        BY <1>1, <1>2, <4>5, FS_CardinalityType
    <3>2. CASE ~(Cardinality(store) >= Depth)
      <4>1. kept = store
        BY <3>2, Zenon DEF Evicted
      <4> HIDE DEF kept
      <4> QED
        BY <1>1, <1>2, <3>2, <4>1
    <3> QED
      BY <3>1, <3>2, Zenon
  <2> HIDE DEF kept, n
  <2>4. Cardinality(store') = Cardinality(kept) + 1
    BY <2>2, <2>3, FS_AddElement, Zenon
  <2> QED
    BY <1>1, <2>3, <2>4
<1>5. ASSUME ~Receive PROVE store' \subseteq store
  BY <1>5, Zenon DEF Next, vars, RaiseStatus, MatchChange, TriggerCondition, Begin, Call,
     Snapshot, Examine,
              MarkRead, RemoveFromStore, RemoveFromRtps, Prune, Evaluate, MatchSamples, SetTrigger,
              Expire, PurgeStore, PurgeRtps
<1> QED
  BY <1>3, <1>4, <1>5, Zenon

\* The types are what they should be, and the DataReader's history keeps within the
\* depth of KEEP_LAST, whatever arrives, is taken, expires or is purged.
THEOREM TypeCorrect == Spec => []TypeOK
<1> DEFINE I == TypeInv /\ Cardinality(store) <= Depth
<1>1. Init => I
  <2> SUFFICES ASSUME Init PROVE Cardinality(store) <= Depth
    BY InitType, Zenon
  <2> QED
    BY AccessAssumption, FS_EmptySet DEF Init
<1>2. I /\ [Next]_vars => I'
  <2> SUFFICES ASSUME I, [Next]_vars PROVE I'
    BY Zenon
  <2>1. TypeInv'
    BY StepType, Zenon
  <2> QED
    BY <2>1, StepRoom, Zenon
<1>3. I => TypeOK
  <2> SUFFICES ASSUME I PROVE TypeOK
    BY Zenon
  <2>1. rx.at \in {"idle", "stored", "raised", "matched"}
    BY DEF TypeInv, Receiving, Received, Idle
  <2>2. \A t \in Threads : app[t].at \in {"idle", "snapshot", "scan", "return", "remove",
                                          "evaluate", "match", "set"}
    BY DEF TypeInv, Calls, Ready, Busy, Pruned, Matching, Setting, Idle, Scanning
  <2>3. {status, trigger, raced} \subseteq BOOLEAN
    BY Zenon DEF TypeInv
  <2> QED
    BY <2>1, <2>2, <2>3, Zenon DEF TypeInv, TypeOK
<1> HIDE DEF I
<1> QED
  BY <1>1, <1>2, <1>3, PTL DEF Spec

\* TypeInv is an invariant.
LEMMA Types == Spec => []TypeInv
  BY InitType, StepType, PTL DEF Spec

-----------------------------------------------------------------------------
(* Where a step takes a thread *)

\* The steps of a call, by the place it leaves and the place it reaches.
LEMMA CallMoves ==
    ASSUME TypeInv, NEW t \in Threads, Call(t)
    PROVE  /\ \A u \in Threads \ {t} : app'[u] = app[u]
           /\ Snapshot(t) =>
                /\ app[t].at = "snapshot" /\ app'[t].at = "scan"
                /\ app'[t].snap = store /\ app'[t].todo = store
           /\ Examine(t) =>
                /\ app[t].at = "scan" /\ app'[t].at \in {"scan", "return"}
                /\ app'[t].snap = app[t].snap /\ app'[t].todo \subseteq app[t].todo
                /\ app'[t].at = "return" =>
                     /\ app'[t].mask = app[t].mask /\ app'[t].todo = app[t].todo
                     /\ Matches(app[t].mask, Min(app[t].todo))
           /\ MarkRead(t) \/ RemoveFromRtps(t) =>
                /\ app'[t].at = "scan" /\ app'[t].snap = app[t].snap
                /\ app'[t].todo = app[t].todo \ {Min(app[t].todo)}
                /\ Min(app[t].todo) \in app[t].snap /\ Min(app[t].todo) \in 1..arrived
           /\ RemoveFromStore(t) =>
                /\ app'[t].at = "remove" /\ app'[t].snap = app[t].snap
                /\ app'[t].todo = app[t].todo
           /\ Prune(t) => app'[t].at = "evaluate"
           /\ Evaluate(t) => app'[t].at = "match" /\ app'[t].snap = store
           /\ MatchSamples(t) => app'[t].at = "set" /\ app'[t].value = (app[t].snap \ read # {})
           /\ SetTrigger(t) => app'[t].at = "idle" /\ app'[t] = Idle
<1>0. app \in [Threads -> Calls] /\ "return" \in Scanning /\ "remove" \in Scanning
  BY Zenon DEF TypeInv, Scanning
<1>1. CASE Snapshot(t)
  BY <1>1, SnapshotMoves, Zenon DEF Snapshot, Examine, MarkRead, RemoveFromStore, RemoveFromRtps,
     Prune, Evaluate, MatchSamples, SetTrigger
<1>2. CASE Examine(t)
  <2>1. app[t].at = "scan" /\ app[t] \in Busy
    BY <1>2, NextOne, Zenon DEF Examine, Scanning
  <2> DEFINE n == Min(app[t].todo)
  <2>2. CASE Matches(app[t].mask, n) /\ Goto(t, "return")
    BY <1>0, <2>1, <2>2, GotoMoves DEF Snapshot, MarkRead, RemoveFromStore, RemoveFromRtps,
       Prune, Evaluate, MatchSamples, SetTrigger, Examine
  <2>3. CASE app' = [app EXCEPT ![t].todo = @ \ {n}]
    <3> HIDE DEF n
    <3>1. /\ app'[t].at = "scan" /\ app'[t].snap = app[t].snap
          /\ app'[t].todo = app[t].todo \ {n}
          /\ \A u \in Threads \ {t} : app'[u] = app[u]
      BY <1>0, <2>1, <2>3, PassMoves, Zenon
    <3>2. ~Snapshot(t) /\ ~MarkRead(t) /\ ~RemoveFromRtps(t) /\ ~RemoveFromStore(t)
            /\ ~Evaluate(t) /\ ~MatchSamples(t) /\ ~SetTrigger(t)
      BY <2>1, Zenon DEF Snapshot, MarkRead, RemoveFromStore, RemoveFromRtps, Evaluate,
         MatchSamples, SetTrigger
    <3>3. ~Prune(t)
      BY <1>2 DEF Prune, Examine, TypeInv
    <3> QED
      BY <2>1, <3>1, <3>2, <3>3, Zenon
  <2> QED
    BY <1>2, <2>2, <2>3, Zenon DEF Examine
<1>3. CASE MarkRead(t) \/ RemoveFromRtps(t)
  <2>1. app[t].at \in Scanning /\ app[t].at \in {"return", "remove"} /\ app[t].todo # {}
          /\ app' = Returned(t)
    BY <1>3, Zenon DEF MarkRead, RemoveFromRtps, Scanning, TypeInv, Sound
  <2>2. app[t] \in Busy /\ Min(app[t].todo) \in app[t].snap /\ Min(app[t].todo) \in 1..arrived
    BY <2>1, NextOne, Zenon
  <2>3. /\ app'[t].at = "scan" /\ app'[t].snap = app[t].snap
        /\ app'[t].todo = app[t].todo \ {Min(app[t].todo)}
        /\ \A u \in Threads \ {t} : app'[u] = app[u]
    BY <1>0, <2>1, <2>2, ReturnMoves, Zenon
  <2>4. ~Snapshot(t) /\ ~Examine(t) /\ ~Prune(t) /\ ~Evaluate(t) /\ ~MatchSamples(t)
          /\ ~SetTrigger(t)
    BY <2>1, Zenon DEF Snapshot, Examine, Prune, Evaluate, MatchSamples, SetTrigger
  <2>5. ~RemoveFromStore(t)
    BY <1>3, Zenon DEF RemoveFromStore, MarkRead, RemoveFromRtps
  <2> QED
    BY <2>2, <2>3, <2>4, <2>5, Zenon
<1>4. CASE RemoveFromStore(t)
  <2>1. app[t].at \in Scanning /\ app[t].at = "return" /\ app[t].todo # {} /\ Goto(t, "remove")
    BY <1>4, Zenon DEF RemoveFromStore, Scanning, TypeInv, Sound
  <2>2. app[t] \in Busy
    BY <2>1, NextOne, Zenon
  <2>3. /\ app'[t].at = "remove" /\ app'[t].snap = app[t].snap /\ app'[t].todo = app[t].todo
        /\ \A u \in Threads \ {t} : app'[u] = app[u]
    BY <1>0, <2>1, <2>2, GotoMoves, Zenon
  <2>4. ~Snapshot(t) /\ ~Examine(t) /\ ~Prune(t) /\ ~Evaluate(t) /\ ~MatchSamples(t)
          /\ ~SetTrigger(t)
          /\ ~RemoveFromRtps(t)
    BY <2>1, Zenon DEF Snapshot, Examine, Prune, Evaluate, MatchSamples, SetTrigger, RemoveFromRtps
  <2>5. ~MarkRead(t)
    BY <1>4, Zenon DEF RemoveFromStore, MarkRead
  <2> QED
    BY <2>3, <2>4, <2>5, Zenon
<1>5. CASE Prune(t)
  <2>1. ~Snapshot(t) /\ ~MarkRead(t) /\ ~RemoveFromRtps(t) /\ ~RemoveFromStore(t)
          /\ ~Evaluate(t) /\ ~MatchSamples(t) /\ ~SetTrigger(t)
    BY <1>5, Zenon DEF Prune, Snapshot, MarkRead, RemoveFromStore, RemoveFromRtps, Evaluate,
       MatchSamples, SetTrigger
  <2>2. ~Examine(t)
    BY <1>5 DEF Prune, Examine
  <2> QED
    BY <1>5, <2>1, <2>2, PruneMoves, Zenon
<1>6. CASE Evaluate(t)
  BY <1>6, EvaluateMoves, Zenon DEF Snapshot, Examine, MarkRead, RemoveFromStore, RemoveFromRtps,
     Prune, Evaluate, MatchSamples, SetTrigger
<1>7. CASE SetTrigger(t)
  BY <1>7, SetTriggerMoves, Zenon DEF Snapshot, Examine, MarkRead, RemoveFromStore, RemoveFromRtps,
     Prune, Evaluate, MatchSamples, SetTrigger
<1>8. CASE MatchSamples(t)
  BY <1>8, MatchMoves, Zenon DEF Snapshot, Examine, MarkRead, RemoveFromStore, RemoveFromRtps,
     Prune, Evaluate, MatchSamples, SetTrigger
<1> QED
  BY <1>1, <1>2, <1>3, <1>4, <1>5, <1>6, <1>7, <1>8, Zenon DEF Call

----------------------------------------------------------------------------
(* Calls *)

\* The invariant behind HistoriesAgree: what is on its way out of the RTPS history
\* has left the store and does not come back.
Leaving ==
    /\ HistoriesAgree
    /\ purging \cap store = {}
    /\ \A t \in Threads : app[t].at = "remove" => Min(app[t].todo) \notin store

\* An application that makes one call at a time.
OneCall ==
    Serial => \A t, u \in Threads : app[t] # Idle /\ app[u] # Idle => t = u

\* The cached changes that are marked READ are all in the snapshot by which the
\* marks will be pruned.
MarksSeen ==
    Serial => \A t \in Threads : app[t].at \in Scanning => read \cap store \subseteq app[t].snap

\* A change that was taken, or read as unread, is not in the way of it again.
TakenOnce(n) ==
    /\ taken[n] <= 1
    /\ taken[n] = 1 =>
         /\ n <= arrived /\ n \notin store
         /\ \A t \in Threads : app[t].at \in Scanning => n \notin app[t].todo

FreshOnce(n) ==
    /\ fresh[n] <= 1
    /\ fresh[n] = 1 =>
         /\ n <= arrived
         /\ n \in store => n \in read
         /\ \A t \in Threads :
              app[t].at = "return" /\ app[t].op = "read" /\ app[t].mask = "not_read"
              => Min(app[t].todo) # n

Counted == fresh \in [Seqs -> 0..2] /\ taken \in [Seqs -> 0..2]

Spent == Counted /\ (Serial => \A n \in Seqs : TakenOnce(n) /\ FreshOnce(n))

\* The snapshot a call matches is current and what it found is true, unless a change
\* was stored or lost its mark since, and an unread change has its trigger, or a
\* decision to come.
Pending ==
    /\ \A t \in Threads : app[t].at = "match" => store \subseteq app[t].snap \/ raced
    /\ \A t \in Threads : app[t].at = "set" => app[t].value \/ raced \/ store \ read = {}
    /\ \A n \in store \ read :
         \/ trigger \/ raced
         \/ rx # Idle /\ rx.n = n
         \/ \E t \in Threads : app[t].at \in {"evaluate", "match", "set"}

-----------------------------------------------------------------------------
(* The two histories *)

\* What makes room for a change is a cached one.
LEMMA EvictedOld ==
    ASSUME TypeInv, NEW n
    PROVE  Evicted(n) \subseteq store
<1>1. CASE Cardinality(store) >= Depth
  <2>1. store # {}
    BY <1>1, AccessAssumption, FS_EmptySet
  <2>2. store \in SUBSET Nat
    BY DEF TypeInv
  <2>3. Min(store) \in store
    BY <2>1, <2>2, Least, Zenon
  <2> QED
    BY <2>3, Zenon DEF Evicted
<1>2. CASE ~(Cardinality(store) >= Depth)
  BY <1>2, Zenon DEF Evicted
<1> QED
  BY <1>1, <1>2, Zenon

\* A thread that is not removing before or after the step has no part in it.
LEMMA LeavingFrame ==
    ASSUME Leaving, UNCHANGED <<store, rtps, leaked, purging>>, NEW t \in Threads,
           app[t].at # "remove", app'[t].at # "remove",
           \A u \in Threads \ {t} : app'[u] = app[u]
    PROVE  Leaving'
  BY Zenon DEF Leaving, HistoriesAgree

LEMMA StepLeaving == ASSUME TypeInv, Leaving, [Next]_vars PROVE Leaving'
<1> USE DEF Leaving, HistoriesAgree
<1>1. CASE Receive
  <2> DEFINE n == arrived + 1
             E == Evicted(n)
  <2>1. /\ store' = (store \ E) \cup ({n} \ Filtered) /\ rtps' = (rtps \cup {n}) \ E
        /\ leaked' = leaked \cup ({n} \cap Filtered) /\ purging' = purging /\ app' = app
    BY <1>1, Zenon DEF Receive
  <2>2. n \notin 1..arrived
    BY DEF TypeInv
  <2>3. n \notin store /\ n \notin purging /\ E \subseteq store
    BY <2>2, EvictedOld, Zenon DEF TypeInv
  <2>4. \A t \in Threads : app[t].at = "remove" => Min(app[t].todo) # n
    <3> SUFFICES ASSUME NEW t \in Threads, app[t].at = "remove" PROVE Min(app[t].todo) # n
      BY Zenon
    <3>1. app[t].at \in Scanning /\ app[t].todo # {}
      BY Zenon DEF TypeInv, Sound, Scanning
    <3> QED
      BY <2>2, <3>1, NextOne, Zenon
  <2> HIDE DEF n, E
  <2> QED
    BY <2>1, <2>3, <2>4, Zenon
<1>2. CASE RaiseStatus \/ MatchChange \/ TriggerCondition \/ UNCHANGED vars
  BY <1>2, Zenon DEF RaiseStatus, MatchChange, TriggerCondition, vars
<1>3. CASE \E t \in Threads, op \in {"read", "take"}, mask \in {"any", "not_read"},
              max \in Limits : Begin(t, op, mask, max)
  <2>1. PICK t \in Threads, op \in {"read", "take"}, mask \in {"any", "not_read"},
             max \in Limits : Begin(t, op, mask, max)
    BY <1>3, Zenon
  <2>2. app[t].at # "remove" /\ UNCHANGED <<store, rtps, leaked, purging>>
    BY <2>1 DEF Begin, Idle
  <2> QED
    BY <2>1, <2>2, BeginMoves, LeavingFrame
<1>4. ASSUME NEW t \in Threads, Call(t) PROVE Leaving'
  <2>0. \A u \in Threads \ {t} : app'[u] = app[u]
    BY <1>4, CallMoves, Zenon
  <2>1. CASE Snapshot(t) \/ Examine(t) \/ MarkRead(t) \/ Prune(t) \/ Evaluate(t)
             \/ MatchSamples(t) \/ SetTrigger(t)
    <3>1. app[t].at # "remove" /\ UNCHANGED <<store, rtps, leaked, purging>>
      BY <2>1, Zenon DEF Snapshot, Examine, MarkRead, Prune, Evaluate, MatchSamples, SetTrigger
    <3>2. app'[t].at # "remove"
      BY <1>4, <2>1, CallMoves, Zenon
    <3> QED
      BY <2>0, <3>1, <3>2, LeavingFrame, Zenon
  <2>2. CASE RemoveFromStore(t)
    <3> DEFINE n == Min(app[t].todo)
    <3>1. app[t].at = "return" /\ store' = store \ {n} /\ UNCHANGED <<rtps, leaked, purging>>
      BY <2>2, Zenon DEF RemoveFromStore
    <3>2. app'[t].at = "remove" /\ Min(app'[t].todo) = n
      BY <1>4, <2>2, CallMoves, Zenon
    <3> HIDE DEF n
    <3> QED
      BY <2>0, <3>1, <3>2
  <2>3. CASE RemoveFromRtps(t)
    <3> DEFINE n == Min(app[t].todo)
    <3>1. app[t].at = "remove" /\ rtps' = rtps \ {n} /\ leaked' = leaked \ {n}
            /\ UNCHANGED <<store, purging>>
      BY <2>3, Zenon DEF RemoveFromRtps
    <3>2. app'[t].at = "scan" /\ n \notin store
      BY <1>4, <2>3, <3>1, CallMoves, Zenon
    <3>3. \A u \in Threads : app[u].at = "remove" /\ Min(app[u].todo) # n => app'[u] = app[u]
      BY <2>0, Zenon
    <3> HIDE DEF n
    <3> QED
      BY <2>0, <3>1, <3>2, <3>3
  <2> QED
    BY <1>4, <2>1, <2>2, <2>3, Zenon DEF Call
<1>5. CASE \E n \in Seqs : Expire(n)
  BY <1>5, Zenon DEF Expire
<1>6. CASE PurgeStore
  BY <1>6, Zenon DEF PurgeStore
<1>7. CASE PurgeRtps
  BY <1>7, Zenon DEF PurgeRtps
<1> QED
  BY <1>1, <1>2, <1>3, <1>4, <1>5, <1>6, <1>7, Zenon DEF Next

\* A change is in both histories of the DataReader or in neither, but for one that is
\* being removed and one whose loss the RTPS history is never told.
THEOREM HistoriesInStep == Spec => []HistoriesAgree
<1>1. Init => Leaving
  BY Zenon DEF Init, Leaving, HistoriesAgree, Idle
<1>2. TypeInv /\ Leaving /\ [Next]_vars => Leaving'
  BY StepLeaving, Zenon
<1>3. Leaving => HistoriesAgree
  BY Zenon DEF Leaving
<1> QED
  BY <1>1, <1>2, <1>3, Types, PTL DEF Spec

-----------------------------------------------------------------------------
(* DATA_AVAILABLE *)

LEMMA StepNoticed == ASSUME TypeInv, NoneOverlooked, [Next]_vars PROVE NoneOverlooked'
<1> USE DEF NoneOverlooked
<1>1. CASE Receive
  <2> DEFINE n == arrived + 1
  <2>1. /\ store' \subseteq store \cup {n} /\ rx' = [at |-> "stored", n |-> n]
        /\ rx = Idle /\ UNCHANGED <<status, app, seen>>
    BY <1>1, Zenon DEF Receive
  <2>2. rx.at = "idle"
    BY <2>1, Zenon DEF Idle
  <2> HIDE DEF n
  <2>3. rx'.at = "stored" /\ rx'.n = n
    BY <2>1, Zenon
  <2> QED
    BY <2>1, <2>2, <2>3, Zenon
<1>2. CASE RaiseStatus
  BY <1>2, Zenon DEF RaiseStatus
<1>3. CASE MatchChange \/ TriggerCondition
  <2>1. rx.at \in {"raised", "matched"} /\ UNCHANGED <<store, status, app, seen>>
    BY <1>3, Zenon DEF MatchChange, TriggerCondition
  <2> QED
    BY <2>1, Zenon
<1>4. CASE \E t \in Threads, op \in {"read", "take"}, mask \in {"any", "not_read"},
              max \in Limits : Begin(t, op, mask, max)
  BY <1>4, BeginMoves, Zenon
<1>5. ASSUME NEW t \in Threads, Call(t) PROVE NoneOverlooked'
  <2>1. CASE Snapshot(t)
    BY <2>1, Zenon DEF Snapshot
  <2>2. CASE ~Snapshot(t)
    <3>1. /\ store' \subseteq store /\ UNCHANGED <<status, rx, seen>>
          /\ app[t].at # "snapshot"
      BY <1>5, <2>2, Zenon DEF Call, Examine, MarkRead, RemoveFromStore, RemoveFromRtps, Prune,
                        Evaluate, MatchSamples, SetTrigger
    <3>2. \A u \in Threads \ {t} : app'[u] = app[u]
      BY <1>5, CallMoves, Zenon
    <3>3. \A u \in Threads : app[u].at = "snapshot" => app'[u].at = "snapshot"
      BY <3>1, <3>2, Zenon
    <3> QED
      BY <3>1, <3>3, Zenon
  <2> QED
    BY <2>1, <2>2, Zenon
<1>6. CASE (\E n \in Seqs : Expire(n)) \/ PurgeStore \/ PurgeRtps \/ UNCHANGED vars
  BY <1>6 DEF Expire, PurgeStore, PurgeRtps, vars
<1> QED
  BY <1>1, <1>2, <1>3, <1>4, <1>5, <1>6, Zenon DEF Next

\* No stored change goes unnoticed, because the status is cleared before the snapshot.
THEOREM NothingOverlooked == Spec => []NoneOverlooked
<1>1. Init => NoneOverlooked
  BY Zenon DEF Init, NoneOverlooked
<1>2. TypeInv /\ NoneOverlooked /\ [Next]_vars => NoneOverlooked'
  BY StepNoticed, Zenon
<1> QED
  BY <1>1, <1>2, Types, PTL DEF Spec

-----------------------------------------------------------------------------
(* READ marks *)

LEMMA StepOneCall == ASSUME TypeInv, OneCall, [Next]_vars PROVE OneCall'
<1> USE DEF OneCall, Serial
<1>1. CASE \E t \in Threads, op \in {"read", "take"}, mask \in {"any", "not_read"},
              max \in Limits : Begin(t, op, mask, max)
  <2>1. PICK t \in Threads, op \in {"read", "take"}, mask \in {"any", "not_read"},
             max \in Limits : Begin(t, op, mask, max)
    BY <1>1, Zenon
  <2>2. profile' = profile /\ (Serial => \A u \in Threads : app[u] = Idle)
    BY <2>1, Zenon DEF Begin
  <2> QED
    BY <2>1, <2>2, BeginMoves, Zenon
<1>2. ASSUME NEW t \in Threads, Call(t) PROVE OneCall'
  <2>1. profile' = profile /\ app[t].at # "idle"
    BY <1>2, Zenon DEF Call, Snapshot, Examine, MarkRead, RemoveFromStore, RemoveFromRtps, Prune,
                Evaluate, MatchSamples, SetTrigger
  <2>2. app[t] # Idle
    BY <2>1 DEF Idle
  <2>3. \A u \in Threads \ {t} : app'[u] = app[u]
    BY <1>2, CallMoves, Zenon
  <2> QED
    BY <2>1, <2>2, <2>3, Zenon
<1>3. CASE Receive \/ RaiseStatus \/ MatchChange \/ TriggerCondition \/ (\E n \in Seqs : Expire(n))
           \/ PurgeStore \/ PurgeRtps \/ UNCHANGED vars
  BY <1>3, Zenon DEF Receive, RaiseStatus, MatchChange, TriggerCondition, Expire, PurgeStore,
     PurgeRtps, vars
<1> QED
  BY <1>1, <1>2, <1>3, Zenon DEF Next

\* In a serial application no thread but the caller has a place in a call.
LEMMA OthersIdle ==
    ASSUME OneCall, Serial, NEW t \in Threads, app[t].at # "idle", NEW u \in Threads \ {t}
    PROVE  app[u].at = "idle"
  BY DEF OneCall, Idle

LEMMA StepMarks ==
    ASSUME TypeInv, OneCall, MarksSeen, [Next]_vars
    PROVE  MarksSeen' /\ (Serial => \A n \in read \cap store' : n \in read')
<1> SUFFICES ASSUME Serial \/ Serial'
             PROVE  /\ \A u \in Threads : app'[u].at \in Scanning =>
                                            read' \cap store' \subseteq app'[u].snap
                    /\ \A n \in read \cap store' : n \in read'
  BY Zenon DEF MarksSeen
<1>0. Serial
  BY Zenon DEF Serial, Next, vars, Receive, RaiseStatus, MatchChange, TriggerCondition, Begin,
     Call, Snapshot,
         Examine, MarkRead, RemoveFromStore, RemoveFromRtps, Prune, Evaluate, MatchSamples, SetTrigger,
         Expire, PurgeStore, PurgeRtps
<1>1. \A u \in Threads : app[u].at \in Scanning => read \cap store \subseteq app[u].snap
  BY <1>0, Zenon DEF MarksSeen
<1>2. CASE Receive
  <2>1. store' \subseteq store \cup {arrived + 1} /\ UNCHANGED <<read, app>>
    BY <1>2, Zenon DEF Receive
  <2>2. arrived + 1 \notin read
    BY DEF TypeInv
  <2> QED
    BY <1>1, <2>1, <2>2, Zenon
<1>3. CASE RaiseStatus \/ MatchChange \/ TriggerCondition \/ (\E n \in Seqs : Expire(n))
           \/ PurgeStore \/ PurgeRtps \/ UNCHANGED vars
  <2>1. store' \subseteq store /\ UNCHANGED <<read, app>>
    BY <1>3, Zenon DEF RaiseStatus, MatchChange, TriggerCondition, Expire, PurgeStore, PurgeRtps,
       vars
  <2> QED
    BY <1>1, <2>1, Zenon
<1>4. CASE \E t \in Threads, op \in {"read", "take"}, mask \in {"any", "not_read"},
              max \in Limits : Begin(t, op, mask, max)
  <2>1. PICK t \in Threads, op \in {"read", "take"}, mask \in {"any", "not_read"},
             max \in Limits : Begin(t, op, mask, max)
    BY <1>4, Zenon
  <2>2. UNCHANGED <<read, store>>
    BY <2>1, Zenon DEF Begin
  <2> QED
    BY <1>1, <2>1, <2>2, BeginMoves, Zenon DEF Scanning
<1>5. ASSUME NEW t \in Threads, Call(t)
      PROVE  /\ \A u \in Threads : app'[u].at \in Scanning =>
                                     read' \cap store' \subseteq app'[u].snap
             /\ \A n \in read \cap store' : n \in read'
  <2>1. app[t].at # "idle" /\ store' \subseteq store
    BY <1>5, Zenon DEF Call, Snapshot, Examine, MarkRead, RemoveFromStore, RemoveFromRtps, Prune,
                Evaluate, MatchSamples, SetTrigger
  <2>2. \A u \in Threads \ {t} : app'[u].at = "idle"
    BY <1>0, <1>5, <2>1, OthersIdle, CallMoves
  <2>3. SUFFICES /\ app'[t].at \in Scanning => read' \cap store' \subseteq app'[t].snap
                 /\ \A n \in read \cap store' : n \in read'
    BY <2>2, Zenon DEF Scanning
  <2>4. CASE Snapshot(t)
    BY <1>5, <2>4, CallMoves, Zenon DEF Snapshot
  <2>5. CASE Examine(t) \/ RemoveFromStore(t) \/ RemoveFromRtps(t)
    <3>1. app[t].at \in Scanning /\ read' = read
      BY <2>5, Zenon DEF Examine, RemoveFromStore, RemoveFromRtps, Scanning
    <3>2. app'[t].snap = app[t].snap
      BY <1>5, <2>5, CallMoves, Zenon
    <3> QED
      BY <1>1, <2>1, <3>1, <3>2, Zenon
  <2>6. CASE MarkRead(t)
    <3>1. app[t].at \in Scanning /\ read' = read \cup {Min(app[t].todo)}
      BY <2>6, Zenon DEF MarkRead, Scanning
    <3>2. app'[t].snap = app[t].snap /\ Min(app[t].todo) \in app[t].snap
      BY <1>5, <2>6, CallMoves, Zenon
    <3> QED
      BY <1>1, <2>1, <3>1, <3>2, Zenon
  <2>7. CASE Prune(t)
    <3>1. app[t].at \in Scanning /\ read' = KeptMarks(app[t].snap) /\ store' = store
      BY <2>7, Zenon DEF Prune, Scanning
    <3>2. app'[t].at = "evaluate"
      BY <1>5, <2>7, CallMoves, Zenon
    <3>3. ASSUME NEW n \in read \cap store PROVE n \in read'
      <4>1. n \in app[t].snap /\ app[t].snap \subseteq 1..arrived
        BY <1>1, <3>1, <3>3, Zenon DEF TypeInv, Sound
      <4>2. app[t].snap \in SUBSET Nat /\ app[t].snap # {}
        BY <4>1 DEF TypeInv
      <4>3. Min(app[t].snap) <= n
        BY <4>1, <4>2, Least, Zenon
      <4>4. n >= Min(app[t].snap)
        BY <4>1, <4>2, <4>3, Least, Zenon
      <4> QED
        BY <3>1, <4>2, <4>4, Zenon DEF KeptMarks
    <3> QED
      BY <3>1, <3>2, <3>3, Zenon DEF Scanning
  <2>8. CASE Evaluate(t) \/ MatchSamples(t) \/ SetTrigger(t)
    <3>1. read' = read
      BY <2>8, Zenon DEF Evaluate, MatchSamples, SetTrigger
    <3>2. app'[t].at \in {"match", "set", "idle"}
      BY <1>5, <2>8, CallMoves, Zenon
    <3> QED
      BY <3>1, <3>2, Zenon DEF Scanning
  <2> QED
    BY <1>5, <2>4, <2>5, <2>6, <2>7, <2>8, Zenon DEF Call
<1> QED
  BY <1>2, <1>3, <1>4, <1>5, Zenon DEF Next

\* The inductive invariant of a serial application's marks.
LEMMA Marks == Spec => [](OneCall /\ MarksSeen)
<1>1. Init => OneCall /\ MarksSeen
  BY Zenon DEF Init, OneCall, MarksSeen, Idle, Scanning
<1>2. TypeInv /\ OneCall /\ MarksSeen /\ [Next]_vars => OneCall' /\ MarksSeen'
  BY StepOneCall, StepMarks, Zenon
<1> QED
  BY <1>1, <1>2, Types, PTL DEF Spec

\* In an application that makes one call at a time a cached change that was read stays
\* READ: pruning by the snapshot of the call spares every mark of a cached change.
THEOREM ReadStaysRead == Spec => SerialPruning
<1> DEFINE A == Serial => \A n \in read \cap store' : n \in read'
<1>1. TypeInv /\ OneCall /\ MarksSeen /\ [Next]_vars => [A]_vars
  BY StepMarks, Zenon
<1> HIDE DEF A
<1>2. Spec => [][A]_vars
  BY <1>1, Types, Marks, PTL DEF Spec
<1> QED
  BY <1>2, Zenon DEF SerialPruning, A

-----------------------------------------------------------------------------
(* The trigger of a ReadCondition *)

LEMMA StepPending == ASSUME TypeInv, Pending, [Next]_vars PROVE Pending'
<1> USE DEF Pending
<1>1. CASE Receive
  <2> DEFINE n == arrived + 1
  <2>1. /\ store' \subseteq store \cup {n} /\ rx' = [at |-> "stored", n |-> n]
        /\ rx = Idle /\ UNCHANGED <<trigger, read, app>>
        /\ raced' = (raced \/ \E t \in Threads : Evaluating(t))
    BY <1>1, Zenon DEF Receive
  <2> HIDE DEF n
  <2>2. rx' # Idle /\ rx'.n = n
    BY <2>1, Zenon DEF Idle
  <2> QED
    BY <2>1, <2>2, Zenon DEF Evaluating
<1>2. CASE RaiseStatus
  <2>1. UNCHANGED <<store, read, trigger, raced, app>>
    BY <1>2, Zenon DEF RaiseStatus
  <2>2. rx \in Received
    BY <1>2 DEF RaiseStatus, TypeInv, Receiving, Received, Idle
  <2>3. rx'.n = rx.n /\ rx'.at = "raised"
    BY <1>2, <2>2, Zenon DEF RaiseStatus, Received
  <2>4. rx' # Idle
    BY <2>3 DEF Idle
  <2> QED
    BY <2>1, <2>3, <2>4, Zenon
<1>3. CASE MatchChange
  <2>1. UNCHANGED <<store, read, trigger, raced, app>>
    BY <1>3, Zenon DEF MatchChange
  <2>2. CASE rx.n \in store \ read
    <3>1. Matches("not_read", rx.n)
      BY <2>2, Zenon DEF Matches, SampleState
    <3>2. rx \in Received
      BY <1>3 DEF MatchChange, TypeInv, Receiving, Received, Idle
    <3>3. rx'.n = rx.n /\ rx'.at = "matched"
      BY <1>3, <3>1, <3>2, Zenon DEF MatchChange, Received
    <3>4. rx' # Idle
      BY <3>3 DEF Idle
    <3> QED
      BY <2>1, <3>3, <3>4, Zenon
  <2>3. CASE rx.n \notin store \ read
    BY <2>1, <2>3, Zenon
  <2> QED
    BY <2>2, <2>3, Zenon
<1>4. CASE TriggerCondition
  BY <1>4, Zenon DEF TriggerCondition, Evaluating
<1>5. CASE \E t \in Threads, op \in {"read", "take"}, mask \in {"any", "not_read"},
              max \in Limits : Begin(t, op, mask, max)
  <2>1. PICK t \in Threads, op \in {"read", "take"}, mask \in {"any", "not_read"},
             max \in Limits : Begin(t, op, mask, max)
    BY <1>5, Zenon
  <2>2. UNCHANGED <<store, read, trigger, raced, rx>> /\ app[t].at = "idle"
    BY <2>1 DEF Begin, Idle
  <2>3. app'[t].at = "snapshot" /\ \A u \in Threads \ {t} : app'[u] = app[u]
    BY <2>1, BeginMoves, Zenon
  <2> QED
    BY <2>2, <2>3, Zenon
<1>6. ASSUME NEW t \in Threads, Call(t) PROVE Pending'
  <2>0. \A u \in Threads \ {t} : app'[u] = app[u]
    BY <1>6, CallMoves, Zenon
  <2>1. CASE Snapshot(t) \/ Examine(t) \/ MarkRead(t) \/ RemoveFromStore(t) \/ RemoveFromRtps(t)
    <3>1. /\ store' \subseteq store /\ read \subseteq read' /\ UNCHANGED <<trigger, raced, rx>>
          /\ app[t].at \notin {"evaluate", "match", "set"}
      BY <2>1, Zenon DEF Snapshot, Examine, MarkRead, RemoveFromStore, RemoveFromRtps
    <3>2. app'[t].at \notin {"match", "set"}
      BY <1>6, <2>1, CallMoves, Zenon
    <3> QED
      BY <2>0, <3>1, <3>2, Zenon
  <2>2. CASE Prune(t)
    <3>1. /\ store' = store /\ read' = KeptMarks(app[t].snap)
          /\ raced' = (raced \/ UnmarkedMeanwhile(t))
      BY <2>2, Zenon DEF Prune
    <3>2. app'[t].at = "evaluate"
      BY <1>6, <2>2, CallMoves, Zenon
    <3>3. ASSUME NEW u \in Threads, app'[u].at = "set"
          PROVE  app'[u].value \/ raced' \/ store' \ read' = {}
      <4>1. app'[u] = app[u] /\ app[u].at = "set"
        BY <2>0, <3>2, <3>3, Zenon
      <4>2. CASE (read \cap store) \ read' = {}
        BY <3>1, <4>1, <4>2, Zenon
      <4>3. CASE (read \cap store) \ read' # {}
        BY <3>1, <4>1, <4>3, Zenon DEF UnmarkedMeanwhile
      <4> QED
        BY <4>2, <4>3, Zenon
    <3>4. ASSUME NEW u \in Threads, app'[u].at = "match"
          PROVE  store' \subseteq app'[u].snap \/ raced'
      BY <2>0, <3>1, <3>2, <3>4, Zenon
    <3> QED
      BY <3>2, <3>3, <3>4, Zenon
  <2>3. CASE Evaluate(t)
    <3>1. /\ UNCHANGED <<store, read>>
          /\ raced' = (raced /\ \E u \in Threads \ {t} : Evaluating(u))
      BY <2>3, Zenon DEF Evaluate
    <3>2. app'[t].at = "match" /\ app'[t].snap = store
      BY <1>6, <2>3, CallMoves, Zenon
    <3>3. ASSUME NEW u \in Threads, app'[u].at = "match"
          PROVE  store' \subseteq app'[u].snap \/ raced'
      BY <2>0, <3>1, <3>2, <3>3, Zenon DEF Evaluating
    <3>4. ASSUME NEW u \in Threads, app'[u].at = "set"
          PROVE  app'[u].value \/ raced' \/ store' \ read' = {}
      BY <2>0, <3>1, <3>2, <3>4, Zenon DEF Evaluating
    <3> QED
      BY <3>2, <3>3, <3>4, Zenon
  <2>4. CASE MatchSamples(t)
    <3>1. UNCHANGED <<store, read, raced, rx, trigger>> /\ app[t].at = "match"
      BY <2>4, Zenon DEF MatchSamples
    <3>2. app'[t].at = "set" /\ app'[t].value = (app[t].snap \ read # {})
      BY <1>6, <2>4, CallMoves, Zenon
    <3>3. app'[t].value \/ raced' \/ store' \ read' = {}
      BY <3>1, <3>2, Zenon
    <3> QED
      BY <2>0, <3>1, <3>2, <3>3, Zenon
  <2>5. CASE SetTrigger(t)
    <3>1. /\ UNCHANGED <<store, read, raced, rx>> /\ app[t].at = "set"
          /\ trigger' = app[t].value
      BY <2>5, Zenon DEF SetTrigger
    <3>2. app'[t].at = "idle"
      BY <1>6, <2>5, CallMoves, Zenon
    <3>3. ASSUME NEW n \in store \ read PROVE trigger' \/ raced'
      BY <3>1, <3>3, Zenon
    <3> QED
      BY <2>0, <3>1, <3>2, <3>3, Zenon
  <2> QED
    BY <1>6, <2>1, <2>2, <2>3, <2>4, <2>5, Zenon DEF Call
<1>7. CASE (\E n \in Seqs : Expire(n)) \/ PurgeStore \/ PurgeRtps \/ UNCHANGED vars
  <2>1. store' \subseteq store /\ UNCHANGED <<read, trigger, raced, rx, app>>
    BY <1>7, Zenon DEF Expire, PurgeStore, PurgeRtps, vars
  <2> QED
    BY <2>1, Zenon
<1> QED
  BY <1>1, <1>2, <1>3, <1>4, <1>5, <1>6, <1>7, Zenon DEF Next

\* Between calls an unread change has triggered the condition, unless an evaluation of
\* the condition missed it: it was stored, or its mark was pruned by another call,
\* between the evaluation's look at the history or the marks and the store of the result.
THEOREM TriggerKept == Spec => []TriggerFollows
<1>1. Init => Pending
  BY Zenon DEF Init, Pending, Idle
<1>2. TypeInv /\ Pending /\ [Next]_vars => Pending'
  BY StepPending, Zenon
<1>3. Pending => TriggerFollows
  BY DEF Pending, TriggerFollows, Idle
<1> QED
  BY <1>1, <1>2, <1>3, Types, PTL DEF Spec

-----------------------------------------------------------------------------
(* Handed out once *)

\* Count counts one change and leaves the others.
LEMMA CountOne ==
    ASSUME NEW m \in Seqs, NEW f \in [Seqs -> 0..2]
    PROVE  /\ Count(m, f) \in [Seqs -> 0..2]
           /\ f[m] = 0 /\ Serial => Count(m, f)[m] = 1
           /\ \A n \in Seqs \ {m} : Count(m, f)[n] = f[n]
<1> DEFINE c == IF Serial /\ f[m] < 2 THEN f[m] + 1 ELSE f[m]
<1>1. c \in 0..2 /\ (f[m] = 0 /\ Serial => c = 1)
  OBVIOUS
<1>2. Count(m, f) = [f EXCEPT ![m] = c]
  BY Zenon DEF Count
<1> HIDE DEF c
<1> QED
  BY <1>1, <1>2, Zenon

\* The change a call returns, with what the step needs to know of it.
LEMMA Returning ==
    ASSUME TypeInv, NEW t \in Threads, MarkRead(t) \/ RemoveFromRtps(t)
    PROVE  /\ Min(app[t].todo) \in Seqs /\ Min(app[t].todo) <= arrived
           /\ Min(app[t].todo) \in app[t].todo /\ app[t].at \in Scanning
<1>1. app[t].at \in Scanning /\ app[t].todo # {}
  BY Zenon DEF MarkRead, RemoveFromRtps, Scanning, TypeInv, Sound
<1>2. Min(app[t].todo) \in 1..arrived /\ Min(app[t].todo) \in app[t].todo
  BY <1>1, NextOne, Zenon
<1>3. arrived \in Nat /\ arrived <= MaxArrivals
  BY AccessAssumption DEF TypeInv
<1> QED
  BY <1>1, <1>2, <1>3, AccessAssumption DEF Seqs

LEMMA StepCounted == ASSUME TypeInv, Counted, [Next]_vars PROVE Counted'
<1> USE DEF Counted
<1>1. ASSUME NEW t \in Threads, MarkRead(t) PROVE Counted'
  BY <1>1, CountOne, Returning, Zenon DEF MarkRead
<1>2. ASSUME NEW t \in Threads, RemoveFromRtps(t) PROVE Counted'
  BY <1>2, CountOne, Returning, Zenon DEF RemoveFromRtps
<1>3. ASSUME ~\E t \in Threads : MarkRead(t) \/ RemoveFromRtps(t) PROVE UNCHANGED <<fresh, taken>>
  BY <1>3, Zenon DEF Next, vars, Receive, RaiseStatus, MatchChange, TriggerCondition, Begin,
     Call, Snapshot,
     Examine, RemoveFromStore, Prune, Evaluate, MatchSamples, SetTrigger, Expire, PurgeStore, PurgeRtps
<1> QED
  BY <1>1, <1>2, <1>3, Zenon

\* A change once taken has left the store and every list of changes to return.
LEMMA StepTaken ==
    ASSUME TypeInv, OneCall, Leaving, Counted, Serial, [Next]_vars,
           NEW n \in Seqs, TakenOnce(n)
    PROVE  TakenOnce(n)'
<1> USE DEF TakenOnce
<1>0. arrived \in Nat /\ n \in Int
  BY AccessAssumption DEF TypeInv, Seqs
<1>1. CASE Receive
  <2>1. /\ store' \subseteq store \cup {arrived + 1} /\ UNCHANGED <<taken, app>>
        /\ arrived' = arrived + 1
    BY <1>1, Zenon DEF Receive
  <2> QED
    BY <1>0, <2>1
<1>2. CASE RaiseStatus \/ MatchChange \/ TriggerCondition \/ (\E k \in Seqs : Expire(k)) \/ PurgeStore
           \/ PurgeRtps \/ UNCHANGED vars
  <2>1. store' \subseteq store /\ UNCHANGED <<taken, app, arrived>>
    BY <1>2, Zenon DEF RaiseStatus, MatchChange, TriggerCondition, Expire, PurgeStore, PurgeRtps,
       vars
  <2> QED
    BY <2>1, Zenon
<1>3. CASE \E t \in Threads, op \in {"read", "take"}, mask \in {"any", "not_read"},
              max \in Limits : Begin(t, op, mask, max)
  <2>1. PICK t \in Threads, op \in {"read", "take"}, mask \in {"any", "not_read"},
             max \in Limits : Begin(t, op, mask, max)
    BY <1>3, Zenon
  <2>2. UNCHANGED <<store, taken, arrived>>
    BY <2>1, Zenon DEF Begin
  <2> QED
    BY <2>1, <2>2, BeginMoves, Zenon DEF Scanning
<1>4. ASSUME NEW t \in Threads, Call(t) PROVE TakenOnce(n)'
  <2>1. app[t].at # "idle" /\ store' \subseteq store /\ arrived' = arrived
    BY <1>4, Zenon DEF Call, Snapshot, Examine, MarkRead, RemoveFromStore, RemoveFromRtps, Prune,
                Evaluate, MatchSamples, SetTrigger
  <2>2. \A u \in Threads \ {t} : app'[u].at = "idle"
    <3>1. \A u \in Threads \ {t} : app[u].at = "idle"
      BY <2>1, OthersIdle, Zenon
    <3>2. \A u \in Threads \ {t} : app'[u] = app[u]
      BY <1>4, CallMoves, Zenon
    <3> QED
      BY <3>1, <3>2, Zenon
  <2>3. \A u \in Threads \ {t} : app'[u].at \notin Scanning
    BY <2>2, Zenon DEF Scanning
  <2>4. CASE RemoveFromRtps(t)
    <3> DEFINE m == Min(app[t].todo)
    <3>1. m \in Seqs /\ m <= arrived /\ m \in app[t].todo /\ app[t].at \in Scanning
      BY <2>4, Returning, Zenon
    <3>2. app[t].at = "remove" /\ taken' = Count(m, taken) /\ store' = store
      BY <2>4, Zenon DEF RemoveFromRtps
    <3>3. app'[t].todo = app[t].todo \ {m}
      BY <1>4, <2>4, CallMoves, Zenon
    <3>4. m \notin store
      BY <3>2, Zenon DEF Leaving
    <3> HIDE DEF m
    <3>5. CASE n = m
      <4>1. taken[n] = 0
        BY <3>1, <3>5 DEF Counted
      <4>2. taken'[n] = 1
        BY <3>1, <3>2, <3>5, <4>1, CountOne, Zenon DEF Counted
      <4> QED
        BY <2>1, <2>3, <3>1, <3>2, <3>3, <3>4, <3>5, <4>2
    <3>6. CASE n # m
      <4>1. taken'[n] = taken[n]
        BY <3>1, <3>2, <3>6, CountOne DEF Counted
      <4> QED
        BY <2>1, <2>3, <3>1, <3>2, <3>3, <4>1, Zenon
    <3> QED
      BY <3>5, <3>6, Zenon
  <2>5. CASE Snapshot(t)
    <3>1. app'[t].todo = store /\ taken' = taken
      BY <1>4, <2>5, CallMoves, Zenon DEF Snapshot
    <3> QED
      BY <2>1, <2>3, <3>1, Zenon
  <2>6. CASE Examine(t) \/ MarkRead(t) \/ RemoveFromStore(t)
    <3>1. app[t].at \in Scanning /\ taken' = taken
      BY <2>6, Zenon DEF Examine, MarkRead, RemoveFromStore, Scanning
    <3>2. app'[t].todo \subseteq app[t].todo
      BY <1>4, <2>6, CallMoves, Zenon
    <3> QED
      BY <2>1, <2>3, <3>1, <3>2, Zenon
  <2>7. CASE Prune(t) \/ Evaluate(t) \/ MatchSamples(t) \/ SetTrigger(t)
    <3>1. taken' = taken
      BY <2>7, Zenon DEF Prune, Evaluate, MatchSamples, SetTrigger
    <3>2. app'[t].at \notin Scanning
      BY <1>4, <2>7, CallMoves, Zenon DEF Scanning
    <3> QED
      BY <2>1, <2>3, <3>1, <3>2, Zenon
  <2> QED
    BY <1>4, <2>4, <2>5, <2>6, <2>7, Zenon DEF Call
<1> QED
  BY <1>1, <1>2, <1>3, <1>4, Zenon DEF Next

\* A change once read as unread stays marked while it is cached, so that no later call
\* finds it unread.
LEMMA StepFresh ==
    ASSUME TypeInv, OneCall, MarksSeen, Counted, Serial, [Next]_vars,
           NEW n \in Seqs, FreshOnce(n)
    PROVE  FreshOnce(n)'
<1> USE DEF FreshOnce
<1>0. arrived \in Nat /\ n \in Int
  BY AccessAssumption DEF TypeInv, Seqs
<1>1. CASE Receive
  <2>1. /\ store' \subseteq store \cup {arrived + 1} /\ UNCHANGED <<fresh, read, app>>
        /\ arrived' = arrived + 1
    BY <1>1, Zenon DEF Receive
  <2> QED
    BY <1>0, <2>1
<1>2. CASE RaiseStatus \/ MatchChange \/ TriggerCondition \/ (\E k \in Seqs : Expire(k)) \/ PurgeStore
           \/ PurgeRtps \/ UNCHANGED vars
  <2>1. store' \subseteq store /\ UNCHANGED <<fresh, read, app, arrived>>
    BY <1>2, Zenon DEF RaiseStatus, MatchChange, TriggerCondition, Expire, PurgeStore, PurgeRtps,
       vars
  <2> QED
    BY <2>1, Zenon
<1>3. CASE \E t \in Threads, op \in {"read", "take"}, mask \in {"any", "not_read"},
              max \in Limits : Begin(t, op, mask, max)
  <2>1. PICK t \in Threads, op \in {"read", "take"}, mask \in {"any", "not_read"},
             max \in Limits : Begin(t, op, mask, max)
    BY <1>3, Zenon
  <2>2. UNCHANGED <<store, read, fresh, arrived>>
    BY <2>1, Zenon DEF Begin
  <2> QED
    BY <2>1, <2>2, BeginMoves, Zenon
<1>4. ASSUME NEW t \in Threads, Call(t) PROVE FreshOnce(n)'
  <2>1. app[t].at # "idle" /\ store' \subseteq store /\ arrived' = arrived
    BY <1>4, Zenon DEF Call, Snapshot, Examine, MarkRead, RemoveFromStore, RemoveFromRtps, Prune,
                Evaluate, MatchSamples, SetTrigger
  <2>2. \A u \in Threads \ {t} : app'[u].at = "idle"
    <3>1. \A u \in Threads \ {t} : app[u].at = "idle"
      BY <2>1, OthersIdle, Zenon
    <3>2. \A u \in Threads \ {t} : app'[u] = app[u]
      BY <1>4, CallMoves, Zenon
    <3> QED
      BY <3>1, <3>2, Zenon
  <2>3. \A k \in read \cap store' : k \in read'
    BY StepMarks, Zenon
  <2>4. CASE MarkRead(t)
    <3> DEFINE m == Min(app[t].todo)
    <3>1. m \in Seqs /\ m <= arrived
      BY <2>4, Returning, Zenon
    <3>2. /\ app[t].at = "return" /\ app[t].op = "read" /\ read' = read \cup {m}
          /\ fresh' = IF app[t].mask = "not_read" THEN Count(m, fresh) ELSE fresh
      BY <2>4, Zenon DEF MarkRead
    <3>3. app'[t].at = "scan"
      BY <1>4, <2>4, CallMoves, Zenon
    <3>4. \A u \in Threads : app'[u].at # "return"
      BY <2>2, <3>3, Zenon
    <3>5. CASE n = m /\ app[t].mask = "not_read"
      <4>1. fresh[n] = 0
        BY <3>2, <3>5 DEF Counted
      <4> HIDE DEF m
      <4>2. fresh'[n] = 1
        BY <3>1, <3>2, <3>5, <4>1, CountOne, Zenon DEF Counted
      <4> QED
        BY <2>1, <3>1, <3>2, <3>4, <3>5, <4>2
    <3>6. CASE ~(n = m /\ app[t].mask = "not_read")
      <4> HIDE DEF m
      <4>1. fresh'[n] = fresh[n]
        BY <3>1, <3>2, <3>6, CountOne DEF Counted
      <4> QED
        BY <2>1, <3>2, <3>4, <4>1, Zenon
    <3> QED
      BY <3>5, <3>6, Zenon
  <2>5. CASE Examine(t)
    <3>1. UNCHANGED <<fresh, read, store>>
      BY <2>5, Zenon DEF Examine
    <3>2. ASSUME app'[t].at = "return", app'[t].mask = "not_read", fresh[n] = 1
          PROVE  Min(app'[t].todo) # n
      <4>1. Matches("not_read", Min(app[t].todo)) /\ app'[t].todo = app[t].todo
        BY <1>4, <2>5, <3>2, CallMoves
      <4>2. Min(app[t].todo) \in store \ read
        BY <4>1, Zenon DEF Matches, SampleState
      <4> QED
        BY <3>2, <4>1, <4>2, Zenon
    <3> QED
      BY <2>1, <2>2, <3>1, <3>2, Zenon
  <2>6. CASE Snapshot(t) \/ RemoveFromStore(t) \/ RemoveFromRtps(t) \/ Prune(t)
             \/ Evaluate(t) \/ MatchSamples(t) \/ SetTrigger(t)
    <3>1. fresh' = fresh
      BY <2>6, Zenon DEF Snapshot, RemoveFromStore, RemoveFromRtps, Prune, Evaluate,
         MatchSamples, SetTrigger
    <3>2. app'[t].at # "return"
      BY <1>4, <2>6, CallMoves, Zenon
    <3> QED
      BY <2>1, <2>2, <2>3, <3>1, <3>2, Zenon
  <2> QED
    BY <1>4, <2>4, <2>5, <2>6, Zenon DEF Call
<1> QED
  BY <1>1, <1>2, <1>3, <1>4, Zenon DEF Next

\* An application that makes one call at a time gets no change twice, by take or by
\* reads of unread samples, for all that arrives, expires or is purged meanwhile.
THEOREM OncePerChange == Spec => []HandedOutOnce
<1>1. Init => Leaving /\ Spent
  BY DEF Init, Leaving, HistoriesAgree, Idle, Spent, Counted, TakenOnce, FreshOnce
<1>2. TypeInv /\ OneCall /\ MarksSeen /\ Leaving /\ Spent /\ [Next]_vars => Leaving' /\ Spent'
  <2> SUFFICES ASSUME TypeInv, OneCall, MarksSeen, Leaving, Spent, [Next]_vars
               PROVE  Leaving' /\ Spent'
    BY Zenon
  <2>1. Leaving'
    BY StepLeaving, Zenon
  <2>2. Counted'
    BY StepCounted, Zenon DEF Spent
  <2>3. Serial' => Serial
    BY Zenon DEF Serial, Next, vars, Receive, RaiseStatus, MatchChange, TriggerCondition, Begin,
       Call, Snapshot,
           Examine, MarkRead, RemoveFromStore, RemoveFromRtps, Prune, Evaluate, MatchSamples, SetTrigger,
           Expire, PurgeStore, PurgeRtps
  <2>4. ASSUME Serial, NEW n \in Seqs PROVE TakenOnce(n)' /\ FreshOnce(n)'
    <3>1. TakenOnce(n) /\ FreshOnce(n) /\ Counted
      BY <2>4, Zenon DEF Spent
    <3> QED
      BY <2>4, <3>1, StepTaken, StepFresh, Zenon
  <2>5. Seqs' = Seqs
    BY Zenon DEF Seqs
  <2> QED
    BY <2>1, <2>2, <2>3, <2>4, <2>5, Zenon DEF Spent
<1>3. Spent => HandedOutOnce
  BY Zenon DEF Spent, TakenOnce, FreshOnce, HandedOutOnce
<1> QED
  BY <1>1, <1>2, <1>3, Types, Marks, PTL DEF Spec
=============================================================================
