--------------------------- MODULE WaitSet_proofs ---------------------------
(***************************************************************************)
(* Proofs about WaitSet, for any numbers of threads, conditions and        *)
(* statuses: the types and the mutexes (TypeCorrect), the callbacks of the *)
(* attached conditions (CallbackExact), and that no wake-up is lost among  *)
(* waiting and notifying threads (NoWakeupLost).                           *)
(***************************************************************************)
EXTENDS WaitSet, TLAPS

USE WaitSetAssumption

----------------------------------------------------------------------------
(* Types *)

OpType == [cond : Conditions \cup {None}, mask : SUBSET Statuses,
           left : SUBSET Conditions, found : BOOLEAN, again : BOOLEAN]

\* The places where a thread works on the condition of its call.
OnCondition == {"load", "added", "masked", "remasked", "callback",
                "check", "checked", "plant", "insert", "unplant"}

\* The places where a thread holds the conditions mutex.
Holding == {"scanning", "load", "check", "checked", "plant", "insert", "unplant"}

\* What the threads share, and what each of them is doing.
SharedType ==
    /\ enabled \in [Conditions -> SUBSET Statuses]
    /\ changes \in [Conditions -> SUBSET Statuses]
    /\ callback \in SUBSET Conditions /\ attached \in SUBSET Conditions
    /\ cbLock \in [Conditions -> Notifiers \cup {None}]
    /\ condLock \in Waiters \cup Attachers \cup {None}
    /\ current \in SUBSET Waiters
    /\ store \in [Notifiers -> Stored \cup {NoStore}]

ThreadType ==
    /\ pc \in [Threads -> PC]
    /\ op \in [Threads -> OpType]
    /\ \A t \in Threads : pc[t] \in OnCondition => op[t].cond \in Conditions
    /\ \A t \in Waiters \cup Attachers : condLock = t <=> pc[t] \in Holding

TypeInv == SharedType /\ ThreadType

LEMMA TypeInvImpliesTypeOK == TypeInv => TypeOK
  BY Zenon DEF TypeInv, SharedType, ThreadType, TypeOK, OpType, Holding

LEMMA NoOpType == NoOp \in OpType
  BY Zenon DEF NoOp, OpType

LEMMA InitTypeInv == Init => TypeInv
  <1> SUFFICES ASSUME Init PROVE TypeInv
    BY Zenon
  <1>1. SharedType
    BY Zenon DEF Init, SharedType
  <1>2. ThreadType
    BY NoOpType, Zenon DEF Init, ThreadType, PC, OnCondition, Holding, Threads
  <1> QED
    BY <1>1, <1>2, Zenon DEF TypeInv

(***************************************************************************)
(* A step moves one thread, to label with locals o; NotifyAll alone also    *)
(* moves others, from parked to woken.                                      *)
(***************************************************************************)
Moves(t, label, o) ==
    /\ pc' = [pc EXCEPT ![t] = label]
    /\ op' = [op EXCEPT ![t] = o]

\* Releasing and taking the conditions mutex agrees with where the thread goes.
MutexFollows(t, label) ==
    \A u \in Waiters \cup Attachers :
        condLock' = u <=> IF u = t THEN label \in Holding ELSE condLock = u

LEMMA MoveKeepsThreadType ==
  ASSUME ThreadType, NEW t \in Threads, NEW label \in PC, NEW o \in OpType,
         label \in OnCondition => o.cond \in Conditions,
         MutexFollows(t, label), Moves(t, label, o)
  PROVE  ThreadType'
  <1>1. pc' \in [Threads -> PC] /\ op' \in [Threads -> OpType]
    BY Zenon DEF ThreadType, Moves
  <1>2. \A u \in Threads : pc'[u] \in OnCondition => op'[u].cond \in Conditions
    BY Zenon DEF ThreadType, Moves
  <1>3. \A u \in Waiters \cup Attachers : condLock' = u <=> pc'[u] \in Holding
    BY Zenon DEF ThreadType, Moves, MutexFollows, Threads
  <1> QED
    BY <1>1, <1>2, <1>3, Zenon DEF ThreadType

LEMMA WaiterTypes ==
  ASSUME TypeInv, NEW t \in Waiters,
         Enter(t) \/ WaiterStep(t) \/ Timeout(t) \/ WakeSpuriously(t)
  PROVE  TypeInv'
  <1> USE DEF TypeInv
  <1>t. t \in Threads /\ op[t] \in OpType
    BY Zenon DEF Threads, ThreadType
  <1>1. CASE Enter(t)
    <2>1. SharedType'
      BY <1>1, Zenon DEF Enter, SharedType, ThreadType
    <2> DEFINE o == op[t]
    <2>2. o \in OpType
      BY <1>t, <1>1, NoOpType, Zenon DEF Enter, OpType, SharedType, ThreadType, OnCondition
    <2>3. Moves(t, "snapshot", o)
      BY <1>t, <1>1, Zenon DEF Enter, Moves, Go, Finish, Observe, ThreadType
    <2>4. MutexFollows(t, "snapshot")
      BY <1>1, Zenon DEF Enter, MutexFollows, ThreadType, Holding, Threads
    <2>5. ThreadType'
      BY <1>t, <2>2, <2>3, <2>4, MoveKeepsThreadType, Zenon DEF PC, OnCondition
    <2> QED
      BY <2>1, <2>5, Zenon
  <1>2. CASE Snapshot(t)
    <2>1. SharedType'
      BY <1>2, Zenon DEF Snapshot, SharedType, ThreadType, Observe
    <2> DEFINE o == op[t]
    <2>2. o \in OpType
      BY <1>t, <1>2, NoOpType, Zenon DEF Snapshot, OpType, SharedType, ThreadType, OnCondition
    <2>3. Moves(t, "scan", o)
      BY <1>t, <1>2, Zenon DEF Snapshot, Moves, Go, Finish, Observe, ThreadType
    <2>4. MutexFollows(t, "scan")
      BY <1>2, Zenon DEF Snapshot, MutexFollows, ThreadType, Holding, Threads
    <2>5. ThreadType'
      BY <1>t, <2>2, <2>3, <2>4, MoveKeepsThreadType, Zenon DEF PC, OnCondition
    <2> QED
      BY <2>1, <2>5, Zenon
  <1>3. CASE LockConditions(t)
    <2>1. SharedType'
      BY <1>3, Zenon DEF LockConditions, SharedType, ThreadType
    <2> DEFINE o == [op[t] EXCEPT !.left = attached]
    <2>2. o \in OpType
      BY <1>t, <1>3, NoOpType, Zenon DEF LockConditions, OpType, SharedType, ThreadType,
                                  OnCondition
    <2>3. Moves(t, "scanning", o)
      BY <1>t, <1>3, Zenon DEF LockConditions, Moves, Go, Finish, Observe, ThreadType
    <2>4. MutexFollows(t, "scanning")
      BY <1>3, Zenon DEF LockConditions, MutexFollows, ThreadType, Holding, Threads
    <2>5. ThreadType'
      BY <1>t, <2>2, <2>3, <2>4, MoveKeepsThreadType, Zenon DEF PC, OnCondition
    <2> QED
      BY <2>1, <2>5, Zenon
  <1>4. CASE LoadEnabled(t)
    <2>1. SharedType'
      BY <1>4, Zenon DEF LoadEnabled, SharedType, ThreadType
    <2>2. PICK c \in op[t].left : op' = [op EXCEPT ![t].cond = c, ![t].mask = enabled[c]]
      BY <1>4, Zenon DEF LoadEnabled
    <2> DEFINE o == [op[t] EXCEPT !.cond = c, !.mask = enabled[c]]
    <2>3. o \in OpType /\ o.cond \in Conditions
      BY <1>t, <2>2, Zenon DEF OpType, SharedType
    <2>4. Moves(t, "load", o)
      BY <1>t, <1>4, <2>2, Zenon DEF LoadEnabled, Moves, Go, ThreadType
    <2>5. MutexFollows(t, "load")
      BY <1>4, Zenon DEF LoadEnabled, MutexFollows, ThreadType, Holding, Threads
    <2>6. ThreadType'
      BY <1>t, <2>3, <2>4, <2>5, MoveKeepsThreadType, Zenon DEF PC
    <2> QED
      BY <2>1, <2>6, Zenon
  <1>5. CASE LoadChanges(t)
    <2>1. SharedType'
      BY <1>5, Zenon DEF LoadChanges, SharedType, ThreadType
    <2> DEFINE o == [op[t] EXCEPT !.cond = None, !.mask = {}, !.left = @ \ {op[t].cond},
                               !.found = @ \/ op[t].mask \cap changes[op[t].cond] # {}]
    <2>2. o \in OpType
      BY <1>t, <1>5, NoOpType, Zenon DEF LoadChanges, OpType, SharedType, ThreadType,
                                         OnCondition
    <2>3. Moves(t, "scanning", o)
      BY <1>t, <1>5, Zenon DEF LoadChanges, Moves, Go, Finish, Observe, ThreadType
    <2>4. MutexFollows(t, "scanning")
      BY <1>5, Zenon DEF LoadChanges, MutexFollows, ThreadType, Holding, Threads
    <2>5. ThreadType'
      BY <1>t, <2>2, <2>3, <2>4, MoveKeepsThreadType DEF PC, OnCondition
    <2> QED
      BY <2>1, <2>5, Zenon
  <1>6. CASE EndScan(t)
    <2>1. SharedType'
      BY <1>6, Zenon DEF EndScan, SharedType, ThreadType, Finish, Go
    <2>c1. CASE Finish(t)
      <3> DEFINE o == NoOp
      <3>2. o \in OpType
        BY <1>t, <1>6, <2>c1, NoOpType, Zenon DEF EndScan, OpType, SharedType, ThreadType,
                                           OnCondition
      <3>3. Moves(t, "idle", o)
        BY <1>t, <1>6, <2>c1, Zenon DEF EndScan, Moves, Go, Finish, Observe, ThreadType
      <3>4. MutexFollows(t, "idle")
        BY <1>6, <2>c1, Zenon DEF EndScan, MutexFollows, ThreadType, Holding, Threads
      <3>5. ThreadType'
        BY <1>t, <3>2, <3>3, <3>4, MoveKeepsThreadType, Zenon DEF PC, OnCondition
      <3> QED
        BY <2>1, <3>5, Zenon
    <2>c2. CASE Go(t, "loop") /\ UNCHANGED op
      <3> DEFINE o == op[t]
      <3>2. o \in OpType
        BY <1>t, <1>6, <2>c2, NoOpType, Zenon DEF EndScan, OpType, SharedType, ThreadType,
                                           OnCondition
      <3>3. Moves(t, "loop", o)
        BY <1>t, <1>6, <2>c2, Zenon DEF EndScan, Moves, Go, Finish, Observe, ThreadType
      <3>4. MutexFollows(t, "loop")
        BY <1>6, <2>c2, Zenon DEF EndScan, MutexFollows, ThreadType, Holding, Threads
      <3>5. ThreadType'
        BY <1>t, <3>2, <3>3, <3>4, MoveKeepsThreadType, Zenon DEF PC, OnCondition
      <3> QED
        BY <2>1, <3>5, Zenon
    <2> QED
      BY <1>6, <2>c1, <2>c2, Zenon DEF EndScan
  <1>7. CASE Park(t)
    <2>1. SharedType'
      BY <1>7, Zenon DEF Park, SharedType, ThreadType
    <2> DEFINE o == op[t]
    <2>2. o \in OpType
      BY <1>t, <1>7, NoOpType, Zenon DEF Park, OpType, SharedType, ThreadType, OnCondition
    <2>3. Moves(t, "parked", o)
      BY <1>t, <1>7, Zenon DEF Park, Moves, Go, Finish, Observe, ThreadType
    <2>4. MutexFollows(t, "parked")
      BY <1>7, Zenon DEF Park, MutexFollows, ThreadType, Holding, Threads
    <2>5. ThreadType'
      BY <1>t, <2>2, <2>3, <2>4, MoveKeepsThreadType, Zenon DEF PC, OnCondition
    <2> QED
      BY <2>1, <2>5, Zenon
  <1>8. CASE Rescan(t)
    <2>1. SharedType'
      BY <1>8, Zenon DEF Rescan, SharedType, ThreadType, Observe
    <2> DEFINE o == [op[t] EXCEPT !.found = FALSE, !.again = TRUE]
    <2>2. o \in OpType
      BY <1>t, <1>8, NoOpType, Zenon DEF Rescan, OpType, SharedType, ThreadType, OnCondition
    <2>3. Moves(t, "scan", o)
      BY <1>t, <1>8, Zenon DEF Rescan, Moves, Go, Finish, Observe, ThreadType
    <2>4. MutexFollows(t, "scan")
      BY <1>8, Zenon DEF Rescan, MutexFollows, ThreadType, Holding, Threads
    <2>5. ThreadType'
      BY <1>t, <2>2, <2>3, <2>4, MoveKeepsThreadType DEF PC, OnCondition
    <2> QED
      BY <2>1, <2>5, Zenon
  <1>9. CASE Timeout(t)
    <2>1. SharedType'
      BY <1>9, Zenon DEF Timeout, SharedType, ThreadType
    <2> DEFINE o == NoOp
    <2>2. o \in OpType
      BY <1>t, <1>9, NoOpType, Zenon DEF Timeout, OpType, SharedType, ThreadType, OnCondition
    <2>3. Moves(t, "idle", o)
      BY <1>t, <1>9, Zenon DEF Timeout, Moves, Go, Finish, Observe, ThreadType
    <2>4. MutexFollows(t, "idle")
      BY <1>9, Zenon DEF Timeout, MutexFollows, ThreadType, Holding, Threads
    <2>5. ThreadType'
      BY <1>t, <2>2, <2>3, <2>4, MoveKeepsThreadType, Zenon DEF PC, OnCondition
    <2> QED
      BY <2>1, <2>5, Zenon
  <1>10. CASE WakeSpuriously(t)
    <2>1. SharedType'
      BY <1>10, Zenon DEF WakeSpuriously, SharedType, ThreadType
    <2> DEFINE o == op[t]
    <2>2. o \in OpType
      BY <1>t, <1>10, NoOpType, Zenon DEF WakeSpuriously, OpType, SharedType, ThreadType,
                                   OnCondition
    <2>3. Moves(t, "woken", o)
      BY <1>t, <1>10, Zenon DEF WakeSpuriously, Moves, Go, Finish, Observe, ThreadType
    <2>4. MutexFollows(t, "woken")
      BY <1>10, Zenon DEF WakeSpuriously, MutexFollows, ThreadType, Holding, Threads
    <2>5. ThreadType'
      BY <1>t, <2>2, <2>3, <2>4, MoveKeepsThreadType, Zenon DEF PC, OnCondition
    <2> QED
      BY <2>1, <2>5, Zenon
  <1>11. CASE Resume(t)
    <2>1. SharedType'
      BY <1>11 DEF Resume, SharedType, ThreadType, Observe
    <2>c1. CASE t \in current
      <3> DEFINE o == op[t]
      <3>2. o \in OpType
        BY <1>t, <1>11, <2>c1, NoOpType, Zenon DEF Resume, OpType, SharedType, ThreadType,
                                            OnCondition
      <3>3. Moves(t, "loop", o)
        BY <1>t, <1>11, <2>c1, Zenon DEF Resume, Moves, Go, Finish, Observe, ThreadType
      <3>4. MutexFollows(t, "loop")
        BY <1>11, <2>c1, Zenon DEF Resume, MutexFollows, ThreadType, Holding, Threads
      <3>5. ThreadType'
        BY <1>t, <3>2, <3>3, <3>4, MoveKeepsThreadType, Zenon DEF PC, OnCondition
      <3> QED
        BY <2>1, <3>5, Zenon
    <2>c2. CASE t \notin current
      <3> DEFINE o == [op[t] EXCEPT !.found = FALSE, !.again = TRUE]
      <3>2. o \in OpType
        BY <1>t, <1>11, <2>c2, NoOpType, Zenon DEF Resume, OpType, SharedType,
                                            ThreadType, OnCondition
      <3>3. Moves(t, "scan", o)
        BY <1>t, <1>11, <2>c2, Zenon DEF Resume, Moves, Go, Finish, Observe, ThreadType
      <3>4. MutexFollows(t, "scan")
        BY <1>11, <2>c2, Zenon DEF Resume, MutexFollows, ThreadType, Holding, Threads
      <3>5. ThreadType'
        BY <1>t, <3>2, <3>3, <3>4, MoveKeepsThreadType, Zenon DEF PC, OnCondition
      <3> QED
        BY <2>1, <3>5, Zenon
    <2> QED
      BY <1>11, <2>c1, <2>c2, Zenon DEF Resume
  <1> QED
    BY <1>1, <1>2, <1>3, <1>4, <1>5, <1>6, <1>7, <1>8, <1>9, <1>10, <1>11, Zenon DEF WaiterStep


LEMMA NotifierTypes ==
  ASSUME TypeInv, NEW n \in Notifiers,
         NotifierStep(n)
  PROVE  TypeInv'
  <1> USE DEF TypeInv
  <1>t. n \in Threads /\ op[n] \in OpType
    BY Zenon DEF Threads, ThreadType
  <1>1. CASE TestMask(n)
    <2>1. SharedType'
      BY <1>1, Zenon DEF TestMask, SharedType, ThreadType
    <2>c1. CASE op[n].mask \subseteq enabled[op[n].cond]
      <3> DEFINE o == op[n]
      <3>2. o \in OpType /\ o.cond \in Conditions
        BY <1>t, <1>1, <2>c1, NoOpType, Zenon DEF TestMask, OpType, SharedType, ThreadType,
                                           OnCondition
      <3>3. Moves(n, "callback", o)
        BY <1>t, <1>1, <2>c1, Zenon DEF TestMask, Moves, Go, Finish, Observe, ThreadType
      <3>4. MutexFollows(n, "callback")
        BY <1>1, <2>c1, Zenon DEF TestMask, MutexFollows, ThreadType, Holding, Threads
      <3>5. ThreadType'
        BY <1>t, <3>2, <3>3, <3>4, MoveKeepsThreadType, Zenon DEF PC, OnCondition
      <3> QED
        BY <2>1, <3>5, Zenon
    <2>c2. CASE ~(op[n].mask \subseteq enabled[op[n].cond])
      <3> DEFINE o == NoOp
      <3>2. o \in OpType
        BY <1>t, <1>1, <2>c2, NoOpType, Zenon DEF TestMask, OpType, SharedType, ThreadType,
                                           OnCondition
      <3>3. Moves(n, "idle", o)
        BY <1>t, <1>1, <2>c2, Zenon DEF TestMask, Moves, Go, Finish, Observe, ThreadType
      <3>4. MutexFollows(n, "idle")
        BY <1>1, <2>c2, Zenon DEF TestMask, MutexFollows, ThreadType, Holding, Threads
      <3>5. ThreadType'
        BY <1>t, <3>2, <3>3, <3>4, MoveKeepsThreadType, Zenon DEF PC, OnCondition
      <3> QED
        BY <2>1, <3>5, Zenon
    <2> QED
      BY <1>1, <2>c1, <2>c2, Zenon DEF TestMask
  <1>2. CASE ReloadMask(n)
    <2>1. SharedType'
      BY <1>2, Zenon DEF ReloadMask, SharedType, ThreadType
    <2> DEFINE m == IF Drained(n) THEN enabled[op[n].cond] ELSE store[n].mask
               o == [op[n] EXCEPT !.mask = m]
    <2>a. op[n].cond \in Conditions
      BY <1>t, <1>2, Zenon DEF ReloadMask, ThreadType, OnCondition
    <2>b. enabled[op[n].cond] \in SUBSET Statuses
      BY <2>a, Zenon DEF SharedType
    <2>c. store[n].mask \in SUBSET Statuses
      BY DEF SharedType, Stored, NoStore
    <2>d. m \in SUBSET Statuses
      BY <2>b, <2>c, Zenon
    <2>2. o \in OpType /\ o.cond \in Conditions
      BY <1>t, <2>a, <2>d, Zenon DEF OpType
    <2>3. Moves(n, "remasked", o)
      BY <1>t, <1>2, Zenon DEF ReloadMask, Moves, Go, Finish, Observe, ThreadType
    <2>4. MutexFollows(n, "remasked")
      BY <1>2, Zenon DEF ReloadMask, MutexFollows, ThreadType, Holding, Threads
    <2>5. ThreadType'
      BY <1>t, <2>2, <2>3, <2>4, MoveKeepsThreadType, Zenon DEF PC, OnCondition
    <2> QED
      BY <2>1, <2>5, Zenon
  <1>3. CASE Reevaluate(n)
    <2>1. SharedType'
      BY <1>3, Zenon DEF Reevaluate, SharedType, ThreadType
    <2>c1. CASE op[n].mask \cap changes[op[n].cond] # {}
      <3> DEFINE o == op[n]
      <3>2. o \in OpType /\ o.cond \in Conditions
        BY <1>t, <1>3, <2>c1, NoOpType, Zenon DEF Reevaluate, OpType, SharedType, ThreadType,
                                           OnCondition
      <3>3. Moves(n, "callback", o)
        BY <1>t, <1>3, <2>c1, Zenon DEF Reevaluate, Moves, Go, Finish, Observe, ThreadType
      <3>4. MutexFollows(n, "callback")
        BY <1>3, <2>c1, Zenon DEF Reevaluate, MutexFollows, ThreadType, Holding, Threads
      <3>5. ThreadType'
        BY <1>t, <3>2, <3>3, <3>4, MoveKeepsThreadType, Zenon DEF PC, OnCondition
      <3> QED
        BY <2>1, <3>5, Zenon
    <2>c2. CASE op[n].mask \cap changes[op[n].cond] = {}
      <3> DEFINE o == NoOp
      <3>2. o \in OpType
        BY <1>t, <1>3, <2>c2, NoOpType, Zenon DEF Reevaluate, OpType, SharedType, ThreadType,
                                           OnCondition
      <3>3. Moves(n, "idle", o)
        BY <1>t, <1>3, <2>c2, Zenon DEF Reevaluate, Moves, Go, Finish, Observe, ThreadType
      <3>4. MutexFollows(n, "idle")
        BY <1>3, <2>c2, Zenon DEF Reevaluate, MutexFollows, ThreadType, Holding, Threads
      <3>5. ThreadType'
        BY <1>t, <3>2, <3>3, <3>4, MoveKeepsThreadType, Zenon DEF PC, OnCondition
      <3> QED
        BY <2>1, <3>5, Zenon
    <2> QED
      BY <1>3, <2>c1, <2>c2, Zenon DEF Reevaluate
  <1>4. CASE LockCallback(n)
    <2>1. SharedType'
      BY <1>4 DEF LockCallback, SharedType, ThreadType
    <2>c1. CASE op[n].cond \in callback
      <3> DEFINE o == op[n]
      <3>2. o \in OpType
        BY <1>t, <1>4, <2>c1, NoOpType, Zenon DEF LockCallback, OpType, SharedType, ThreadType,
                                           OnCondition
      <3>3. Moves(n, "bump", o)
        BY <1>t, <1>4, <2>c1, Zenon DEF LockCallback, Moves, Go, Finish, Observe, ThreadType
      <3>4. MutexFollows(n, "bump")
        BY <1>4, <2>c1, Zenon DEF LockCallback, MutexFollows, ThreadType, Holding, Threads
      <3>5. ThreadType'
        BY <1>t, <3>2, <3>3, <3>4, MoveKeepsThreadType, Zenon DEF PC, OnCondition
      <3> QED
        BY <2>1, <3>5, Zenon
    <2>c2. CASE op[n].cond \notin callback
      <3> DEFINE o == NoOp
      <3>2. o \in OpType
        BY <1>t, <1>4, <2>c2, NoOpType, Zenon DEF LockCallback, OpType, SharedType, ThreadType,
                                           OnCondition
      <3>3. Moves(n, "idle", o)
        BY <1>t, <1>4, <2>c2, Zenon DEF LockCallback, Moves, Go, Finish, Observe, ThreadType
      <3>4. MutexFollows(n, "idle")
        BY <1>4, <2>c2, Zenon DEF LockCallback, MutexFollows, ThreadType, Holding, Threads
      <3>5. ThreadType'
        BY <1>t, <3>2, <3>3, <3>4, MoveKeepsThreadType, Zenon DEF PC, OnCondition
      <3> QED
        BY <2>1, <3>5, Zenon
    <2> QED
      BY <1>4, <2>c1, <2>c2, Zenon DEF LockCallback
  <1>5. CASE MaskVisible(n)
    <2>1. SharedType'
      BY <1>5, Zenon DEF MaskVisible, SharedType, ThreadType, Drained, Stored
    <2>2. ThreadType'
      BY <1>5, Zenon DEF MaskVisible, ThreadType
    <2> QED
      BY <2>1, <2>2, Zenon
  <1> QED
    BY <1>1, <1>2, <1>3, <1>4, <1>5, Zenon DEF NotifierStep


LEMMA StatusTypes ==
  ASSUME TypeInv, NEW n \in Notifiers, NEW c \in Conditions, NEW s \in Statuses,
         AddCommunicationStatus(n, c, s) \/ RemoveCommunicationStatus(n, c, s)
  PROVE  TypeInv'
  <1> USE DEF TypeInv
  <1>t. n \in Threads /\ op[n] \in OpType
    BY Zenon DEF Threads, ThreadType
  <1>1. CASE AddCommunicationStatus(n, c, s)
    <2>1. SharedType'
      BY <1>1 DEF AddCommunicationStatus, SharedType, ThreadType
    <2> DEFINE o == [NoOp EXCEPT !.cond = c, !.mask = {s}]
    <2>2. o \in OpType /\ o.cond \in Conditions
      BY <1>t, <1>1, NoOpType, ZenonT(30) DEF AddCommunicationStatus, OpType, SharedType,
                                         ThreadType, OnCondition
    <2>3. Moves(n, "added", o)
      BY <1>t, <1>1, Zenon DEF AddCommunicationStatus, Moves, Go, Finish, Observe, ThreadType
    <2>4. MutexFollows(n, "added")
      BY <1>1, Zenon DEF AddCommunicationStatus, MutexFollows, ThreadType, Holding, Threads
    <2>5. ThreadType'
      BY <1>t, <2>2, <2>3, <2>4, MoveKeepsThreadType, Zenon DEF PC, OnCondition
    <2> QED
      BY <2>1, <2>5, Zenon
  <1>2. CASE RemoveCommunicationStatus(n, c, s)
    <2>1. SharedType'
      BY <1>2, Zenon DEF RemoveCommunicationStatus, SharedType, ThreadType
    <2>2. ThreadType'
      BY <1>2, Zenon DEF RemoveCommunicationStatus, ThreadType
    <2> QED
      BY <2>1, <2>2, Zenon
  <1> QED
    BY <1>1, <1>2, Zenon


LEMMA MaskTypes ==
  ASSUME TypeInv, NEW n \in Notifiers, NEW c \in Conditions, NEW mask \in SUBSET Statuses,
         SetEnabledStatuses(n, c, mask)
  PROVE  TypeInv'
  <1> USE DEF TypeInv
  <1>t. n \in Threads /\ op[n] \in OpType
    BY Zenon DEF Threads, ThreadType
  <1>1. SharedType'
    BY Zenon DEF SetEnabledStatuses, SharedType, Stored
  <1> DEFINE o == [op[n] EXCEPT !.cond = c]
  <1>2. o \in OpType /\ o.cond \in Conditions
    BY <1>t, Zenon DEF OpType
  <1>3. Moves(n, "masked", o)
    BY <1>t, Zenon DEF SetEnabledStatuses, Moves, Go, ThreadType
  <1>4. MutexFollows(n, "masked")
    BY Zenon DEF SetEnabledStatuses, MutexFollows, ThreadType, Holding, Threads
  <1>5. ThreadType'
    BY <1>t, <1>2, <1>3, <1>4, MoveKeepsThreadType, Zenon DEF PC
  <1> QED
    BY <1>1, <1>5, Zenon


LEMMA AttachTypes ==
  ASSUME TypeInv, NEW a \in Attachers, NEW c \in Conditions,
         AttachCondition(a, c) \/ DetachCondition(a, c)
  PROVE  TypeInv'
  <1> USE DEF TypeInv
  <1>t. a \in Threads /\ op[a] \in OpType
    BY Zenon DEF Threads, ThreadType
  <1>1. CASE AttachCondition(a, c)
    <2>1. SharedType'
      BY <1>1, Zenon DEF AttachCondition, SharedType, ThreadType
    <2>c1. CASE Waiting # {}
      <3> DEFINE o == [op[a] EXCEPT !.cond = c]
      <3>2. o \in OpType /\ o.cond \in Conditions
        BY <1>t, <1>1, <2>c1, NoOpType, Zenon DEF AttachCondition, OpType, SharedType,
                                           ThreadType, OnCondition
      <3>3. Moves(a, "check", o)
        BY <1>t, <1>1, <2>c1, Zenon DEF AttachCondition, Moves, Go, Finish, Observe, ThreadType
      <3>4. MutexFollows(a, "check")
        BY <1>1, <2>c1, Zenon DEF AttachCondition, MutexFollows, ThreadType, Holding, Threads
      <3>5. ThreadType'
        BY <1>t, <3>2, <3>3, <3>4, MoveKeepsThreadType, Zenon DEF PC, OnCondition
      <3> QED
        BY <2>1, <3>5, Zenon
    <2>c2. CASE Waiting = {}
      <3> DEFINE o == [op[a] EXCEPT !.cond = c]
      <3>2. o \in OpType /\ o.cond \in Conditions
        BY <1>t, <1>1, <2>c2, NoOpType, Zenon DEF AttachCondition, OpType, SharedType,
                                           ThreadType, OnCondition
      <3>3. Moves(a, "plant", o)
        BY <1>t, <1>1, <2>c2, Zenon DEF AttachCondition, Moves, Go, Finish, Observe, ThreadType
      <3>4. MutexFollows(a, "plant")
        BY <1>1, <2>c2, Zenon DEF AttachCondition, MutexFollows, ThreadType, Holding, Threads
      <3>5. ThreadType'
        BY <1>t, <3>2, <3>3, <3>4, MoveKeepsThreadType, Zenon DEF PC, OnCondition
      <3> QED
        BY <2>1, <3>5, Zenon
    <2> QED
      BY <1>1, <2>c1, <2>c2, Zenon DEF AttachCondition
  <1>2. CASE DetachCondition(a, c)
    <2>1. SharedType'
      BY <1>2, Zenon DEF DetachCondition, SharedType, ThreadType
    <2> DEFINE o == [op[a] EXCEPT !.cond = c]
    <2>2. o \in OpType /\ o.cond \in Conditions
      BY <1>t, <1>2, NoOpType, Zenon DEF DetachCondition, OpType, SharedType, ThreadType,
                                  OnCondition
    <2>3. Moves(a, "unplant", o)
      BY <1>t, <1>2, Zenon DEF DetachCondition, Moves, Go, Finish, Observe, ThreadType
    <2>4. MutexFollows(a, "unplant")
      BY <1>2, Zenon DEF DetachCondition, MutexFollows, ThreadType, Holding, Threads
    <2>5. ThreadType'
      BY <1>t, <2>2, <2>3, <2>4, MoveKeepsThreadType, Zenon DEF PC, OnCondition
    <2> QED
      BY <2>1, <2>5, Zenon
  <1> QED
    BY <1>1, <1>2, Zenon


LEMMA AttacherStepTypes ==
  ASSUME TypeInv, NEW a \in Attachers,
         AttacherStep(a)
  PROVE  TypeInv'
  <1> USE DEF TypeInv
  <1>t. a \in Threads /\ op[a] \in OpType
    BY Zenon DEF Threads, ThreadType
  <1>1. CASE CheckEnabled(a)
    <2>1. SharedType'
      BY <1>1, Zenon DEF CheckEnabled, SharedType, ThreadType
    <2> DEFINE o == [op[a] EXCEPT !.mask = enabled[op[a].cond]]
    <2>2. o \in OpType /\ o.cond \in Conditions
      BY <1>t, <1>1, NoOpType, Zenon DEF CheckEnabled, OpType, SharedType, ThreadType, OnCondition
    <2>3. Moves(a, "checked", o)
      BY <1>t, <1>1, Zenon DEF CheckEnabled, Moves, Go, Finish, Observe, ThreadType
    <2>4. MutexFollows(a, "checked")
      BY <1>1, Zenon DEF CheckEnabled, MutexFollows, ThreadType, Holding, Threads
    <2>5. ThreadType'
      BY <1>t, <2>2, <2>3, <2>4, MoveKeepsThreadType, Zenon DEF PC, OnCondition
    <2> QED
      BY <2>1, <2>5, Zenon
  <1>2. CASE CheckChanges(a)
    <2>1. SharedType'
      BY <1>2, Zenon DEF CheckChanges, SharedType, ThreadType
    <2> DEFINE o == [op[a] EXCEPT !.found = op[a].mask \cap changes[op[a].cond] # {}]
    <2>2. o \in OpType /\ o.cond \in Conditions
      BY <1>t, <1>2, NoOpType, Zenon DEF CheckChanges, OpType, SharedType, ThreadType,
                                         OnCondition
    <2>3. Moves(a, "plant", o)
      BY <1>t, <1>2, Zenon DEF CheckChanges, Moves, Go, Finish, Observe, ThreadType
    <2>4. MutexFollows(a, "plant")
      BY <1>2, Zenon DEF CheckChanges, MutexFollows, ThreadType, Holding, Threads
    <2>5. ThreadType'
      BY <1>t, <2>2, <2>3, <2>4, MoveKeepsThreadType, Zenon DEF PC, OnCondition
    <2> QED
      BY <2>1, <2>5, Zenon
  <1>3. CASE PlantCallback(a)
    <2>1. SharedType'
      BY <1>3 DEF PlantCallback, SharedType, ThreadType, OnCondition, Threads
    <2> DEFINE o == op[a]
    <2>2. o \in OpType /\ o.cond \in Conditions
      BY <1>t, <1>3, NoOpType, Zenon DEF PlantCallback, OpType, SharedType, ThreadType, OnCondition
    <2>3. Moves(a, "insert", o)
      BY <1>t, <1>3, Zenon DEF PlantCallback, Moves, Go, Finish, Observe, ThreadType
    <2>4. MutexFollows(a, "insert")
      BY <1>3, Zenon DEF PlantCallback, MutexFollows, ThreadType, Holding, Threads
    <2>5. ThreadType'
      BY <1>t, <2>2, <2>3, <2>4, MoveKeepsThreadType, Zenon DEF PC, OnCondition
    <2> QED
      BY <2>1, <2>5, Zenon
  <1>4. CASE InsertCondition(a)
    <2>1. SharedType'
      BY <1>4 DEF InsertCondition, SharedType, ThreadType, OnCondition, Threads
    <2>c1. CASE op[a].found
      <3> DEFINE o == op[a]
      <3>2. o \in OpType
        BY <1>t, <1>4, <2>c1, NoOpType, Zenon DEF InsertCondition, OpType, SharedType,
                                           ThreadType, OnCondition
      <3>3. Moves(a, "bump", o)
        BY <1>t, <1>4, <2>c1, Zenon DEF InsertCondition, Moves, Go, Finish, Observe, ThreadType
      <3>4. MutexFollows(a, "bump")
        BY <1>4, <2>c1, Zenon DEF InsertCondition, MutexFollows, ThreadType, Holding, Threads
      <3>5. ThreadType'
        BY <1>t, <3>2, <3>3, <3>4, MoveKeepsThreadType, Zenon DEF PC, OnCondition
      <3> QED
        BY <2>1, <3>5, Zenon
    <2>c2. CASE ~op[a].found
      <3> DEFINE o == NoOp
      <3>2. o \in OpType
        BY <1>t, <1>4, <2>c2, NoOpType, Zenon DEF InsertCondition, OpType, SharedType,
                                           ThreadType, OnCondition
      <3>3. Moves(a, "idle", o)
        BY <1>t, <1>4, <2>c2, Zenon DEF InsertCondition, Moves, Go, Finish, Observe, ThreadType
      <3>4. MutexFollows(a, "idle")
        BY <1>4, <2>c2, Zenon DEF InsertCondition, MutexFollows, ThreadType, Holding, Threads
      <3>5. ThreadType'
        BY <1>t, <3>2, <3>3, <3>4, MoveKeepsThreadType, Zenon DEF PC, OnCondition
      <3> QED
        BY <2>1, <3>5, Zenon
    <2> QED
      BY <1>4, <2>c1, <2>c2, Zenon DEF InsertCondition
  <1>5. CASE ClearCallback(a)
    <2>1. SharedType'
      BY <1>5, Zenon DEF ClearCallback, SharedType, ThreadType, OnCondition, Threads
    <2> DEFINE o == NoOp
    <2>2. o \in OpType
      BY <1>t, <1>5, NoOpType, Zenon DEF ClearCallback, OpType, SharedType, ThreadType, OnCondition
    <2>3. Moves(a, "idle", o)
      BY <1>t, <1>5, Zenon DEF ClearCallback, Moves, Go, Finish, Observe, ThreadType
    <2>4. MutexFollows(a, "idle")
      BY <1>5, Zenon DEF ClearCallback, MutexFollows, ThreadType, Holding, Threads
    <2>5. ThreadType'
      BY <1>t, <2>2, <2>3, <2>4, MoveKeepsThreadType, Zenon DEF PC, OnCondition
    <2> QED
      BY <2>1, <2>5, Zenon
  <1> QED
    BY <1>1, <1>2, <1>3, <1>4, <1>5, Zenon DEF AttacherStep


LEMMA ClosureTypes ==
  ASSUME TypeInv, NEW t \in Notifiers \cup Attachers, Notify(t) \/ NotifyAll(t)
  PROVE  TypeInv'
  <1> USE DEF TypeInv
  <1>t. t \in Threads /\ op[t] \in OpType
    BY Zenon DEF Threads, ThreadType
  <1>1. CASE Notify(t)
    <2>1. SharedType'
      BY <1>1, Zenon DEF Notify, ReleaseCallback, SharedType
    <2>c1. CASE Parked = {}
      <3> DEFINE o == NoOp
      <3>2. o \in OpType
        BY <1>t, <1>1, <2>c1, NoOpType, Zenon DEF Notify, OpType, SharedType, ThreadType,
                                           OnCondition
      <3>3. Moves(t, "idle", o)
        BY <1>t, <1>1, <2>c1, Zenon DEF Notify, Moves, Go, Finish, Observe, ThreadType
      <3>4. MutexFollows(t, "idle")
        BY <1>1, <2>c1, Zenon DEF Notify, MutexFollows, ThreadType, Holding, Threads
      <3>5. ThreadType'
        BY <1>t, <3>2, <3>3, <3>4, MoveKeepsThreadType, Zenon DEF PC, OnCondition
      <3> QED
        BY <2>1, <3>5, Zenon
    <2>c2. CASE Parked # {}
      <3> DEFINE o == op[t]
      <3>2. o \in OpType
        BY <1>t, <1>1, <2>c2, NoOpType, Zenon DEF Notify, OpType, SharedType, ThreadType,
                                           OnCondition
      <3>3. Moves(t, "wake", o)
        BY <1>t, <1>1, <2>c2, Zenon DEF Notify, Moves, Go, Finish, Observe, ThreadType
      <3>4. MutexFollows(t, "wake")
        BY <1>1, <2>c2, Zenon DEF Notify, MutexFollows, ThreadType, Holding, Threads
      <3>5. ThreadType'
        BY <1>t, <3>2, <3>3, <3>4, MoveKeepsThreadType, Zenon DEF PC, OnCondition
      <3> QED
        BY <2>1, <3>5, Zenon
    <2> QED
      BY <1>1, <2>c1, <2>c2, Zenon DEF Notify
  <1>2. CASE NotifyAll(t)
    <2>1. SharedType'
      BY <1>2, Zenon DEF NotifyAll, ReleaseCallback, SharedType
    <2>2. pc' \in [Threads -> PC]
      BY <1>2, Zenon DEF NotifyAll, ThreadType, PC
    <2>3. op' \in [Threads -> OpType]
      BY <1>2, NoOpType, Zenon DEF NotifyAll, ThreadType
    <2>4. \A u \in Threads : pc'[u] \in OnCondition => op'[u].cond \in Conditions
      BY <1>2, Zenon DEF NotifyAll, ThreadType, OnCondition
    <2>5. \A u \in Waiters \cup Attachers : condLock' = u <=> pc'[u] \in Holding
      BY <1>2, Zenon DEF NotifyAll, ThreadType, Holding, Threads
    <2> QED
      BY <2>1, <2>2, <2>3, <2>4, <2>5, Zenon DEF ThreadType
  <1> QED
    BY <1>1, <1>2, Zenon

LEMMA StepTypeInv == TypeInv /\ [Next]_vars => TypeInv'
  <1> SUFFICES ASSUME TypeInv, [Next]_vars PROVE TypeInv'
    BY Zenon
  <1>1. CASE UNCHANGED vars
    BY <1>1, Zenon DEF vars, TypeInv, SharedType, ThreadType
  <1>2. CASE Next
    <2>1. CASE \E t \in Waiters : Enter(t) \/ WaiterStep(t) \/ Timeout(t) \/ WakeSpuriously(t)
      BY <2>1, WaiterTypes, Zenon
    <2>2. CASE \E n \in Notifiers : NotifierStep(n)
      BY <2>2, NotifierTypes, Zenon
    <2>3. CASE \E n \in Notifiers, c \in Conditions, s \in Statuses :
                  AddCommunicationStatus(n, c, s) \/ RemoveCommunicationStatus(n, c, s)
      BY <2>3, StatusTypes, Zenon
    <2>4. CASE \E n \in Notifiers, c \in Conditions, mask \in SUBSET Statuses :
                  SetEnabledStatuses(n, c, mask)
      BY <2>4, MaskTypes, Zenon
    <2>5. CASE \E a \in Attachers : AttacherStep(a)
      BY <2>5, AttacherStepTypes, Zenon
    <2>6. CASE \E a \in Attachers, c \in Conditions : AttachCondition(a, c) \/ DetachCondition(a, c)
      BY <2>6, AttachTypes, Zenon
    <2>7. CASE \E t \in Notifiers \cup Attachers : Notify(t) \/ NotifyAll(t)
      BY <2>7, ClosureTypes, Zenon
    <2> QED
      BY <1>2, <2>1, <2>2, <2>3, <2>4, <2>5, <2>6, <2>7, Zenon DEF Next
  <1> QED
    BY <1>1, <1>2, Zenon

\* Every variable keeps its type, and the conditions mutex is held by the thread
\* that scans, attaches or detaches, however many threads there are.
THEOREM TypeCorrect == Spec => []TypeOK
  <1>1. Spec => []TypeInv
    BY InitTypeInv, StepTypeInv, PTL DEF Spec
  <1> QED
    BY <1>1, TypeInvImpliesTypeOK, PTL

----------------------------------------------------------------------------
(* The callbacks *)

(***************************************************************************)
(* While an attacher holds the conditions mutex the two sets differ by the  *)
(* condition it is at, between the change of one and of the other.          *)
(***************************************************************************)
Planted ==
    /\ condLock \notin Attachers => callback = attached
    /\ \A a \in Attachers : condLock = a =>
          /\ pc[a] \in {"check", "checked", "plant"} => callback = attached
          /\ pc[a] \in {"insert", "unplant"} => callback = attached \cup {op[a].cond}
          /\ pc[a] = "unplant" => op[a].cond \notin attached

\* A step of thread t leaves the locals of all others alone.
OthersStay(t) == \A u \in Threads \ {t} : pc'[u] = pc[u] /\ op'[u] = op[u]

LEMMA WaiterFrame ==
  ASSUME TypeInv, NEW t \in Waiters,
         Enter(t) \/ WaiterStep(t) \/ Timeout(t) \/ WakeSpuriously(t)
  PROVE  OthersStay(t) /\ UNCHANGED <<enabled, changes, callback, attached, store>>
  <1> USE DEF TypeInv, ThreadType, OthersStay, Go, Finish, Observe
  <1>1. CASE Enter(t)
    BY <1>1, Zenon DEF Enter
  <1>2. CASE Snapshot(t)
    BY <1>2, Zenon DEF Snapshot
  <1>3. CASE LockConditions(t)
    BY <1>3, Zenon DEF LockConditions
  <1>4. CASE LoadEnabled(t)
    BY <1>4, Zenon DEF LoadEnabled
  <1>5. CASE LoadChanges(t)
    BY <1>5, Zenon DEF LoadChanges
  <1>6. CASE EndScan(t)
    BY <1>6, Zenon DEF EndScan
  <1>7. CASE Park(t)
    BY <1>7, Zenon DEF Park
  <1>8. CASE Rescan(t)
    BY <1>8, Zenon DEF Rescan
  <1>9. CASE Resume(t)
    BY <1>9, Zenon DEF Resume
  <1>10. CASE Timeout(t)
    BY <1>10, Zenon DEF Timeout
  <1>11. CASE WakeSpuriously(t)
    BY <1>11, Zenon DEF WakeSpuriously
  <1> QED
    BY <1>1, <1>2, <1>3, <1>4, <1>5, <1>6, <1>7, <1>8, <1>9, <1>10, <1>11, Zenon
    DEF WaiterStep

LEMMA StepPlanted == TypeInv /\ Planted /\ [Next]_vars => Planted'
  <1> SUFFICES ASSUME TypeInv, Planted, [Next]_vars PROVE Planted'
    BY Zenon
  <1>1. CASE UNCHANGED vars
    BY <1>1, Zenon DEF vars, Planted
  <1>2. ASSUME NEW t \in Waiters,
               Enter(t) \/ WaiterStep(t) \/ Timeout(t) \/ WakeSpuriously(t)
        PROVE  Planted'
    <2>1. UNCHANGED <<callback, attached>>
      BY <1>2, WaiterFrame, Zenon
    <2>2. condLock' = condLock \/ (condLock \notin Attachers /\ condLock' \notin Attachers)
      BY <1>2, Zenon DEF Enter, WaiterStep, Snapshot, LockConditions, LoadEnabled, LoadChanges,
                  EndScan, Park, Rescan, Resume, Timeout, WakeSpuriously, Holding,
                  TypeInv, ThreadType
    <2>3. \A a \in Attachers : pc'[a] = pc[a] /\ op'[a] = op[a]
      BY <1>2, WaiterFrame, Zenon DEF OthersStay, Threads
    <2> QED
      BY <2>1, <2>2, <2>3, Zenon DEF Planted
  <1>3. ASSUME NEW n \in Notifiers, NotifierStep(n)
        PROVE  Planted'
    <2>1. UNCHANGED <<callback, attached, condLock>>
      BY <1>3, Zenon DEF NotifierStep, TestMask, ReloadMask, Reevaluate, LockCallback, MaskVisible
    <2>2. \A a \in Attachers : pc'[a] = pc[a] /\ op'[a] = op[a]
      BY <1>3, Zenon DEF NotifierStep, TestMask, ReloadMask, Reevaluate, LockCallback, MaskVisible,
                  Go, Finish, Threads, TypeInv, ThreadType
    <2> QED
      BY <2>1, <2>2, Zenon DEF Planted
  <1>4. ASSUME NEW n \in Notifiers, NEW c \in Conditions, NEW s \in Statuses,
               AddCommunicationStatus(n, c, s) \/ RemoveCommunicationStatus(n, c, s)
        PROVE  Planted'
    <2>1. UNCHANGED <<callback, attached, condLock>>
      BY <1>4, Zenon DEF AddCommunicationStatus, RemoveCommunicationStatus
    <2>2. \A a \in Attachers : pc'[a] = pc[a] /\ op'[a] = op[a]
      BY <1>4, Zenon DEF AddCommunicationStatus, RemoveCommunicationStatus, Go, Threads,
                  TypeInv, ThreadType
    <2> QED
      BY <2>1, <2>2, Zenon DEF Planted
  <1>5. ASSUME NEW n \in Notifiers, NEW c \in Conditions, NEW mask \in SUBSET Statuses,
               SetEnabledStatuses(n, c, mask)
        PROVE  Planted'
    <2>1. UNCHANGED <<callback, attached, condLock>>
      BY <1>5, Zenon DEF SetEnabledStatuses
    <2>2. \A a \in Attachers : pc'[a] = pc[a] /\ op'[a] = op[a]
      BY <1>5, Zenon DEF SetEnabledStatuses, Go, Threads, TypeInv, ThreadType
    <2> QED
      BY <2>1, <2>2, Zenon DEF Planted
  <1>6. ASSUME NEW t \in Notifiers \cup Attachers, Notify(t) \/ NotifyAll(t)
        PROVE  Planted'
    <2>1. UNCHANGED <<callback, attached, condLock>>
      BY <1>6, Zenon DEF Notify, NotifyAll
    <2>2. \A a \in Attachers : condLock = a => pc'[a] = pc[a] /\ op'[a] = op[a]
      BY <1>6, Zenon DEF Notify, NotifyAll, Go, Finish, Threads, Holding,
                  TypeInv, ThreadType
    <2> QED
      BY <2>1, <2>2, Zenon DEF Planted
  <1>7. ASSUME NEW a \in Attachers, NEW c \in Conditions, AttachCondition(a, c)
        PROVE  Planted'
    BY <1>7, Zenon DEF AttachCondition, Planted, Go, Threads, TypeInv, ThreadType
  <1>8. ASSUME NEW a \in Attachers, NEW c \in Conditions, DetachCondition(a, c)
        PROVE  Planted'
    BY <1>8 DEF DetachCondition, Planted, Go, Threads, TypeInv, ThreadType
  <1>9. ASSUME NEW a \in Attachers, AttacherStep(a)
        PROVE  Planted'
    <2> USE DEF TypeInv, ThreadType
    <2>1. CASE CheckEnabled(a)
      BY <2>1, Zenon DEF CheckEnabled, Planted, Go, Threads, Holding
    <2>2. CASE CheckChanges(a)
      BY <2>2, Zenon DEF CheckChanges, Planted, Go, Threads, Holding
    <2>3. CASE PlantCallback(a)
      BY <2>3 DEF PlantCallback, Planted, Go, Threads, Holding
    <2>4. CASE InsertCondition(a)
      <3>1. condLock = a /\ callback = attached \cup {op[a].cond}
        BY <2>4, Zenon DEF InsertCondition, Planted, Holding
      <3>2. callback' = attached' /\ condLock' = None
        BY <2>4, <3>1, Zenon DEF InsertCondition
      <3> QED
        BY <3>2, Zenon DEF Planted
    <2>5. CASE ClearCallback(a)
      BY <2>5 DEF ClearCallback, Planted, Go, Threads, Holding
    <2> QED
      BY <1>9, <2>1, <2>2, <2>3, <2>4, <2>5, Zenon DEF AttacherStep
  <1> QED
    BY <1>1, <1>2, <1>3, <1>4, <1>5, <1>6, <1>7, <1>8, <1>9, Zenon DEF Next

\* detach_condition leaves no callback behind and attach_condition forgets none:
\* outside of the two, exactly the attached conditions call the closure.
THEOREM CallbackExact == Spec => []CallbackIffAttached
  <1>1. Init => Planted
    BY DEF Init, Planted
  <1>2. Planted => CallbackIffAttached
    BY Zenon DEF Planted, CallbackIffAttached
  <1> QED
    BY <1>1, <1>2, InitTypeInv, StepTypeInv, StepPlanted, PTL DEF Spec

----------------------------------------------------------------------------
(* Wake-ups *)

(***************************************************************************)
(* NoLostWakeup names a thread that is at condition c; here it is one that  *)
(* is bound to call the closure as long as c stays triggered, since it      *)
(* tests, or will test, the mask that is enabled now.                       *)
(***************************************************************************)
Owes(n, c) ==
    /\ op[n].cond = c
    /\ \/ pc[n] \in {"callback", "bump"}
       \/ pc[n] = "added" /\ op[n].mask \subseteq enabled[c]
       \/ pc[n] = "masked" /\ Drained(n)
       \/ pc[n] = "remasked" /\ op[n].mask = enabled[c]

Covered(c) == Triggered(c) => \E n \in Notifiers : Owes(n, c)

(***************************************************************************)
(* A thread whose snapshot is current has missed nothing: the conditions it *)
(* has looked at are covered, all of them once the scan is over.  Between   *)
(* the two loads of a condition the mask it has read is still the enabled   *)
(* one, or somebody owes the wake-up.                                       *)
(***************************************************************************)
Informed(t) ==
    t \in current =>
      /\ pc[t] \in {"loop", "parked", "woken"} => \A c \in attached : Covered(c)
      /\ pc[t] \in {"scanning", "load"} /\ ~op[t].found =>
            \A c \in attached \ op[t].left : Covered(c)
      /\ pc[t] = "load" /\ op[t].cond \in attached =>
            op[t].mask = enabled[op[t].cond] \/ Covered(op[t].cond)

\* A thread parked over a notification has the wake coming.
WakeComing(t) ==
    pc[t] = "parked" /\ t \notin current => \E n \in Notifiers \cup Attachers : pc[n] = "wake"

\* A mask that others do not see yet is the one its thread tests, or was tested and
\* matches no change.
MaskTested(n) ==
    ~Drained(n) =>
      /\ n \in Maskers
      /\ pc[n] \in {"idle", "masked", "remasked", "callback"}
      /\ pc[n] = "idle" => store[n].mask \cap changes[store[n].cond] = {}
      /\ pc[n] # "idle" => op[n].cond = store[n].cond
      /\ pc[n] = "remasked" => op[n].mask = store[n].mask

WakeInv ==
    /\ \A n \in Notifiers : MaskTested(n)
    /\ \A t \in Waiters : Informed(t) /\ WakeComing(t)

LEMMA OwesFrame ==
  ASSUME NEW n \in Notifiers, NEW c \in Conditions,
         pc'[n] = pc[n], op'[n] = op[n], UNCHANGED <<enabled, store>>
  PROVE  Owes(n, c) => Owes(n, c)'
  BY Zenon DEF Owes, Drained

\* What is covered stays covered.
LEMMA WaiterKeepsCovered ==
  ASSUME TypeInv, NEW t \in Waiters,
         Enter(t) \/ WaiterStep(t) \/ Timeout(t) \/ WakeSpuriously(t),
         NEW c \in Conditions, Covered(c)
  PROVE  Covered(c)'
  <1>1. OthersStay(t) /\ UNCHANGED <<enabled, changes, store>>
    BY WaiterFrame, Zenon
  <1>2. \A n \in Notifiers : Owes(n, c) => Owes(n, c)'
    BY <1>1, OwesFrame, Zenon DEF OthersStay, Threads
  <1> QED
    BY <1>1, <1>2, Zenon DEF Covered, Triggered

LEMMA NotifierFrame ==
  ASSUME TypeInv, NEW n \in Notifiers, NotifierStep(n)
  PROVE  OthersStay(n) /\ UNCHANGED <<changes, callback, attached, current>>
  <1> USE DEF TypeInv, ThreadType, OthersStay, Go, Finish
  <1>1. CASE TestMask(n)
    BY <1>1, Zenon DEF TestMask
  <1>2. CASE ReloadMask(n)
    BY <1>2, Zenon DEF ReloadMask
  <1>3. CASE Reevaluate(n)
    BY <1>3, Zenon DEF Reevaluate
  <1>4. CASE LockCallback(n)
    BY <1>4, Zenon DEF LockCallback
  <1>5. CASE MaskVisible(n)
    BY <1>5, Zenon DEF MaskVisible
  <1> QED
    BY <1>1, <1>2, <1>3, <1>4, <1>5, Zenon DEF NotifierStep

\* The thread whose mask becomes visible has yet to test it, or found no change for it.
LEMMA VisibleIsCovered ==
  ASSUME TypeInv, NEW n \in Notifiers, MaskTested(n), MaskVisible(n),
         NEW c \in Conditions, c = store[n].cond
  PROVE  Covered(c)'
  <1>1. enabled'[c] = store[n].mask
    BY Zenon DEF MaskVisible, TypeInv, SharedType
  <1>2. UNCHANGED <<changes, pc, op>> /\ Drained(n)'
    BY Zenon DEF MaskVisible, TypeInv, SharedType, Drained
  <1>3. CASE pc[n] = "idle"
    BY <1>1, <1>2, <1>3, Zenon DEF MaskTested, MaskVisible, Covered, Triggered
  <1>4. CASE pc[n] # "idle"
    BY <1>1, <1>2, <1>4, Zenon DEF MaskTested, MaskVisible, Covered, Owes
  <1> QED
    BY <1>3, <1>4, Zenon

LEMMA NotifierKeepsCovered ==
  ASSUME TypeInv, NEW n \in Notifiers, MaskTested(n), NotifierStep(n), callback = attached,
         NEW c \in attached, Covered(c)
  PROVE  Covered(c)'
  <1>c. c \in Conditions
    BY Zenon DEF TypeInv, SharedType
  <1>n. n \in Threads
    BY Zenon DEF Threads
  <1> USE DEF TypeInv, ThreadType, SharedType
  <1>1. CASE MaskVisible(n)
    <2>1. CASE c = store[n].cond
      BY <1>1, <1>c, <2>1, VisibleIsCovered, Zenon
    <2>2. CASE c # store[n].cond
      <3>1. enabled'[c] = enabled[c] /\ UNCHANGED <<changes, pc, op>>
        BY <1>1, <1>c, <2>2, Zenon DEF MaskVisible
      <3>2. \A m \in Notifiers : Drained(m) => Drained(m)'
        BY <1>1, Zenon DEF MaskVisible, Drained
      <3> QED
        BY <3>1, <3>2, Zenon DEF Covered, Triggered, Owes
    <2> QED
      BY <2>1, <2>2, Zenon
  <1>2. CASE ~MaskVisible(n)
    <2>1. UNCHANGED <<enabled, changes, store>>
      BY <1>2, Zenon DEF NotifierStep, TestMask, ReloadMask, Reevaluate, LockCallback
    <2>2. \A m \in Notifiers \ {n} : Owes(m, c) => Owes(m, c)'
      BY <1>c, <2>1, NotifierFrame, OwesFrame, Zenon DEF OthersStay, Threads
    <2>3. Owes(n, c) /\ Triggered(c) => Owes(n, c)'
      <3> SUFFICES ASSUME Owes(n, c), Triggered(c) PROVE Owes(n, c)'
        BY Zenon
      <3>1. CASE TestMask(n)
        BY <1>n, <2>1, <3>1 DEF TestMask, Owes, Go
      <3>2. CASE ReloadMask(n)
        BY <1>n, <2>1, <3>2 DEF ReloadMask, Owes, Drained, Go, OpType
      <3>3. CASE Reevaluate(n)
        BY <1>n, <2>1, <3>3, Zenon DEF Reevaluate, Owes, Triggered, Go
      <3>4. CASE LockCallback(n)
        BY <1>n, <2>1, <3>4, Zenon DEF LockCallback, Owes, Go
      <3> QED
        BY <1>2, <3>1, <3>2, <3>3, <3>4, Zenon DEF NotifierStep
    <2> QED
      BY <2>1, <2>2, <2>3, Zenon DEF Covered, Triggered
  <1> QED
    BY <1>1, <1>2, Zenon

LEMMA StatusFrame ==
  ASSUME TypeInv, NEW n \in Notifiers, NEW d \in Conditions, NEW s \in Statuses,
         AddCommunicationStatus(n, d, s) \/ RemoveCommunicationStatus(n, d, s)
  PROVE  /\ OthersStay(n) /\ UNCHANGED <<enabled, callback, attached, current, store>>
         /\ pc[n] = "idle" /\ Drained(n)
  BY Zenon DEF AddCommunicationStatus, RemoveCommunicationStatus, OthersStay, Go, TypeInv, ThreadType

LEMMA StatusKeepsCovered ==
  ASSUME TypeInv, NEW n \in Notifiers, NEW d \in Conditions, NEW s \in Statuses,
         AddCommunicationStatus(n, d, s) \/ RemoveCommunicationStatus(n, d, s),
         NEW c \in Conditions, Covered(c)
  PROVE  Covered(c)'
  <1> USE DEF TypeInv, ThreadType, SharedType
  <1>1. \A m \in Notifiers \ {n} : Owes(m, c) => Owes(m, c)'
    BY StatusFrame, OwesFrame, Zenon DEF OthersStay, Threads
  <1>2. ~Owes(n, c)
    BY StatusFrame, Zenon DEF Owes
  <1>3. CASE Triggered(c)
    BY <1>1, <1>2, <1>3, Zenon DEF Covered
  <1>4. CASE ~Triggered(c) /\ RemoveCommunicationStatus(n, d, s)
    BY <1>4, Zenon DEF RemoveCommunicationStatus, Triggered, Covered
  <1>5. CASE ~Triggered(c) /\ AddCommunicationStatus(n, d, s)
    <2>1. SUFFICES ASSUME Triggered(c)' PROVE Owes(n, c)'
      BY <2>1, Zenon DEF Covered
    <2>2. c = d /\ s \in enabled[c] /\ enabled' = enabled
      BY <1>5, <2>1 DEF AddCommunicationStatus, Triggered
    <2>3. pc'[n] = "added" /\ op'[n].cond = c /\ op'[n].mask = {s}
      BY <1>5, <2>2, Zenon DEF AddCommunicationStatus, Go, NoOp, Threads
    <2> QED
      BY <2>2, <2>3, Zenon DEF Owes
  <1> QED
    BY <1>3, <1>4, <1>5, Zenon

LEMMA MaskFrame ==
  ASSUME TypeInv, NEW n \in Notifiers, NEW d \in Conditions, NEW mask \in SUBSET Statuses,
         SetEnabledStatuses(n, d, mask)
  PROVE  /\ OthersStay(n) /\ UNCHANGED <<enabled, changes, callback, attached, current>>
         /\ pc[n] = "idle" /\ Drained(n) /\ \A m \in Notifiers \ {n} : store'[m] = store[m]
  BY Zenon DEF SetEnabledStatuses, OthersStay, Go, TypeInv, ThreadType, SharedType

LEMMA MaskKeepsCovered ==
  ASSUME TypeInv, NEW n \in Notifiers, NEW d \in Conditions, NEW mask \in SUBSET Statuses,
         SetEnabledStatuses(n, d, mask), NEW c \in Conditions, Covered(c)
  PROVE  Covered(c)'
  <1>1. \A m \in Notifiers \ {n} : Owes(m, c) => Owes(m, c)'
    BY MaskFrame, Zenon DEF OthersStay, Threads, Owes, Drained
  <1>2. ~Owes(n, c)
    BY MaskFrame, Zenon DEF Owes
  <1> QED
    BY <1>1, <1>2, MaskFrame, Zenon DEF Covered, Triggered

LEMMA NotifyAllKeepsCovered ==
  ASSUME TypeInv, NEW t \in Notifiers, NotifyAll(t), NEW c \in Conditions, Covered(c)
  PROVE  Covered(c)'
  <1>1. \A m \in Notifiers : Owes(m, c) => Owes(m, c)'
    BY Zenon DEF NotifyAll, Owes, Drained, Threads, TypeInv, ThreadType
  <1> QED
    BY <1>1, Zenon DEF Covered, Triggered, NotifyAll

\* A step of another thread that keeps what is covered keeps a waiter informed.
LEMMA StaysInformed ==
  ASSUME NEW t \in Waiters, Informed(t), UNCHANGED <<current, attached>>, op'[t] = op[t],
         pc'[t] = pc[t] \/ (pc[t] = "parked" /\ pc'[t] = "woken"),
         \A c \in attached : Covered(c) => Covered(c)',
         \A c \in attached : enabled'[c] = enabled[c] \/ Covered(c)'
  PROVE  Informed(t)'
  <1> SUFFICES ASSUME t \in current PROVE Informed(t)'
    BY Zenon DEF Informed
  <1>1. pc'[t] \in {"loop", "parked", "woken"} => \A c \in attached : Covered(c)'
    BY Zenon DEF Informed
  <1>2. pc'[t] \in {"scanning", "load"} /\ ~op[t].found =>
            \A c \in attached \ op[t].left : Covered(c)'
    BY Zenon DEF Informed
  <1>3. ASSUME NEW c \in attached, pc'[t] = "load", op[t].cond = c
        PROVE  op[t].mask = enabled'[c] \/ Covered(c)'
    BY <1>3, Zenon DEF Informed
  <1> QED
    BY <1>1, <1>2, <1>3, Zenon DEF Informed

----------------------------------------------------------------------------
(* The steps of a waiter *)

LEMMA WaiterStaysInformed ==
  ASSUME TypeInv, NEW t \in Waiters, Informed(t),
         Enter(t) \/ WaiterStep(t) \/ Timeout(t) \/ WakeSpuriously(t)
  PROVE  Informed(t)'
  <1>t. t \in Threads
    BY Zenon DEF Threads
  <1>c. \A c \in attached : Covered(c) => Covered(c)'
    BY WaiterKeepsCovered, Zenon DEF TypeInv, SharedType
  <1>f. UNCHANGED <<enabled, changes, attached>>
    BY WaiterFrame, Zenon
  <1> USE DEF TypeInv, SharedType, ThreadType
  <1>1. CASE Enter(t) \/ Snapshot(t) \/ Rescan(t)
    <2>1. pc'[t] \in {"snapshot", "scan"}
      BY <1>1, <1>t DEF Enter, Snapshot, Rescan, Observe, Go
    <2> QED
      BY <2>1, Zenon DEF Informed
  <1>2. CASE LockConditions(t)
    <2>1. pc'[t] = "scanning" /\ op'[t].left = attached
      BY <1>2, <1>t DEF LockConditions, Go, OpType
    <2> QED
      BY <1>f, <2>1, Zenon DEF Informed
  <1>3. CASE LoadEnabled(t)
    <2>1. PICK c \in op[t].left : op' = [op EXCEPT ![t].cond = c, ![t].mask = enabled[c]]
      BY <1>3, Zenon DEF LoadEnabled
    <2>2. /\ pc[t] = "scanning" /\ pc'[t] = "load" /\ current' = current
          /\ op'[t].left = op[t].left /\ op'[t].found = op[t].found
          /\ op'[t].cond = c /\ op'[t].mask = enabled[c]
      BY <1>3, <1>t, <2>1 DEF LoadEnabled, Go, OpType
    <2>3. t \in current /\ ~op[t].found => \A d \in attached \ op[t].left : Covered(d)'
      BY <1>c, <2>2, Zenon DEF Informed
    <2> QED
      BY <1>f, <2>2, <2>3, Zenon DEF Informed
  <1>4. CASE LoadChanges(t)
    <2> DEFINE c == op[t].cond
               hit == op[t].mask \cap changes[c] # {}
    <2>1. /\ pc[t] = "load" /\ pc'[t] = "scanning" /\ current' = current
          /\ op'[t].left = op[t].left \ {c} /\ op'[t].found = (op[t].found \/ hit)
      BY <1>4, <1>t DEF LoadChanges, Go, OpType
    <2>2. ASSUME t \in current, ~op[t].found, ~hit,
                 NEW d \in attached, d \notin op[t].left \ {c}
          PROVE  Covered(d)'
      <3>1. CASE d # c
        BY <1>c, <2>1, <2>2, <3>1, Zenon DEF Informed
      <3>2. CASE d = c
        <4>1. op[t].mask = enabled[d] \/ Covered(d)
          BY <2>1, <2>2, <3>2, Zenon DEF Informed
        <4>2. op[t].mask = enabled[d] => Covered(d)
          BY <2>2, <3>2, Zenon DEF Covered, Triggered
        <4> QED
          BY <1>c, <4>1, <4>2, Zenon
      <3> QED
        BY <3>1, <3>2, Zenon
    <2> QED
      BY <1>f, <2>1, <2>2, Zenon DEF Informed
  <1>5. CASE EndScan(t)
    <2>1. CASE Finish(t)
      BY <1>t, <2>1, Zenon DEF Finish, Go, Informed
    <2>2. CASE ~op[t].found /\ Go(t, "loop") /\ UNCHANGED <<op, current>>
      <3>1. pc[t] = "scanning" /\ op[t].left = {} /\ pc'[t] = "loop"
        BY <1>5, <1>t, <2>2, Zenon DEF EndScan, Go
      <3>2. t \in current => \A c \in attached : Covered(c)
        BY <2>2, <3>1, Zenon DEF Informed
      <3> QED
        BY <1>c, <1>f, <2>2, <3>1, <3>2, Zenon DEF Informed
    <2> QED
      BY <1>5, <2>1, <2>2, Zenon DEF EndScan
  <1>6. CASE Park(t) \/ WakeSpuriously(t) \/ (Resume(t) /\ t \in current)
    <2>1. /\ pc[t] \in {"loop", "parked", "woken"} /\ pc'[t] \in {"loop", "parked", "woken"}
          /\ UNCHANGED current
      BY <1>6, <1>t DEF Park, WakeSpuriously, Resume, Go
    <2> QED
      BY <1>c, <1>f, <2>1, Zenon DEF Informed
  <1>7. CASE Timeout(t)
    BY <1>7, Zenon DEF Timeout, Informed
  <1>8. CASE Resume(t) /\ t \notin current
    <2>1. pc'[t] = "scan"
      BY <1>8, <1>t, Zenon DEF Resume, Observe, Go
    <2> QED
      BY <2>1, Zenon DEF Informed
  <1> QED
    BY <1>1, <1>2, <1>3, <1>4, <1>5, <1>6, <1>7, <1>8, Zenon DEF WaiterStep

\* Only a thread with a current snapshot parks.
LEMMA WaiterKeepsWakeComing ==
  ASSUME TypeInv, NEW t \in Waiters, NEW u \in Waiters, WakeComing(u),
         Enter(t) \/ WaiterStep(t) \/ Timeout(t) \/ WakeSpuriously(t)
  PROVE  WakeComing(u)'
  <1> USE DEF TypeInv, SharedType, ThreadType
  <1>t. t \in Threads
    BY Zenon DEF Threads
  <1>1. \A n \in Notifiers \cup Attachers : pc'[n] = pc[n]
    BY WaiterFrame DEF OthersStay, Threads
  <1>2. CASE u # t
    <2>1. pc'[u] = pc[u]
      BY <1>2, WaiterFrame DEF OthersStay, Threads
    <2>2. u \in current' <=> u \in current
      BY <1>2, Zenon DEF Enter, WaiterStep, Snapshot, LockConditions, LoadEnabled, LoadChanges,
                  EndScan, Park, Rescan, Resume, Timeout, WakeSpuriously, Observe
    <2> QED
      BY <1>1, <2>1, <2>2, Zenon DEF WakeComing
  <1>3. CASE u = t
    <2>1. pc'[t] = "parked" => Park(t)
      BY <1>t DEF Enter, WaiterStep, Snapshot, LockConditions, LoadEnabled, LoadChanges,
                  EndScan, Rescan, Resume, Timeout, WakeSpuriously, Observe, Go, Finish
    <2>2. Park(t) => t \in current'
      BY Zenon DEF Park
    <2> QED
      BY <1>3, <2>1, <2>2, Zenon DEF WakeComing
  <1> QED
    BY <1>2, <1>3, Zenon

----------------------------------------------------------------------------
(* The masks under way *)

LEMMA StayTested ==
  ASSUME NEW m \in Notifiers, MaskTested(m), pc'[m] = pc[m], op'[m] = op[m],
         store'[m] = store[m], UNCHANGED changes
  PROVE  MaskTested(m)'
  BY Zenon DEF MaskTested, Drained

LEMMA NotifierKeepsTested ==
  ASSUME TypeInv, NEW n \in Notifiers, NotifierStep(n), NEW m \in Notifiers, MaskTested(m)
  PROVE  MaskTested(m)'
  <1> USE DEF TypeInv, SharedType, ThreadType
  <1>n. n \in Threads
    BY Zenon DEF Threads
  <1>1. CASE m # n
    <2>1. store'[m] = store[m]
      BY <1>1, Zenon DEF NotifierStep, TestMask, ReloadMask, Reevaluate, LockCallback, MaskVisible
    <2> QED
      BY <1>1, <2>1, NotifierFrame, StayTested, Zenon DEF OthersStay, Threads
  <1>2. CASE m = n
    <2>1. CASE TestMask(n)
      BY <1>2, <2>1, Zenon DEF TestMask, MaskTested, Drained
    <2>2. CASE ReloadMask(n)
      <3>1. /\ pc[n] = "masked" /\ pc'[n] = "remasked" /\ op'[n].cond = op[n].cond
            /\ ~Drained(n) => op'[n].mask = store[n].mask
            /\ UNCHANGED <<store, changes>>
        BY <1>n, <2>2 DEF ReloadMask, Go, OpType
      <3> QED
        BY <1>2, <3>1, Zenon DEF MaskTested, Drained
    <2>3. CASE Reevaluate(n)
      <3>1. CASE op[n].mask \cap changes[op[n].cond] # {}
        BY <1>2, <1>n, <2>3, <3>1, Zenon DEF Reevaluate, MaskTested, Drained, Go
      <3>2. CASE op[n].mask \cap changes[op[n].cond] = {}
        <4>1. pc[n] = "remasked" /\ pc'[n] = "idle" /\ UNCHANGED <<store, changes>>
          BY <1>n, <2>3, <3>2, Zenon DEF Reevaluate, Finish, Go
        <4> QED
          BY <1>2, <3>2, <4>1, Zenon DEF MaskTested, Drained
      <3> QED
        BY <3>1, <3>2, Zenon
    <2>4. CASE LockCallback(n)
      BY <1>2, <2>4, Zenon DEF LockCallback, MaskTested, Drained
    <2>5. CASE MaskVisible(n)
      BY <1>2, <2>5, Zenon DEF MaskVisible, MaskTested, Drained
    <2> QED
      BY <2>1, <2>2, <2>3, <2>4, <2>5, Zenon DEF NotifierStep
  <1> QED
    BY <1>1, <1>2, Zenon

\* A status is added while no mask is under way, and removing one matches no mask.
LEMMA StatusKeepsTested ==
  ASSUME MaskApart, TypeInv, NEW n \in Notifiers, NEW d \in Conditions, NEW s \in Statuses,
         AddCommunicationStatus(n, d, s) \/ RemoveCommunicationStatus(n, d, s),
         NEW m \in Notifiers, MaskTested(m)
  PROVE  MaskTested(m)'
  <1>1. CASE AddCommunicationStatus(n, d, s)
    <2>1. Drained(m)
      BY <1>1, Zenon DEF AddCommunicationStatus, Masking, MaskTested
    <2> QED
      BY <1>1, <2>1, Zenon DEF AddCommunicationStatus, MaskTested, Drained
  <1>2. CASE RemoveCommunicationStatus(n, d, s)
    <2>1. UNCHANGED <<pc, op, store>> /\ \A c \in Conditions : changes'[c] \subseteq changes[c]
      BY <1>2, Zenon DEF RemoveCommunicationStatus, TypeInv, SharedType
    <2>2. ~Drained(m) => store[m].cond \in Conditions
      BY Zenon DEF Drained, TypeInv, SharedType, Stored
    <2> QED
      BY <2>1, <2>2, Zenon DEF MaskTested, Drained
  <1> QED
    BY <1>1, <1>2, Zenon

LEMMA MaskKeepsTested ==
  ASSUME TypeInv, NEW n \in Notifiers, NEW d \in Conditions, NEW mask \in SUBSET Statuses,
         SetEnabledStatuses(n, d, mask), NEW m \in Notifiers, MaskTested(m)
  PROVE  MaskTested(m)'
  <1>1. CASE m # n
    BY <1>1, MaskFrame, StayTested, Zenon DEF OthersStay, Threads
  <1>2. CASE m = n
    <2>1. n \in Maskers /\ pc'[n] = "masked" /\ op'[n].cond = d /\ store'[n].cond = d
      BY DEF SetEnabledStatuses, Go, OpType, Threads, TypeInv, SharedType, ThreadType
    <2> QED
      BY <1>2, <2>1, Zenon DEF MaskTested
  <1> QED
    BY <1>1, <1>2, Zenon

LEMMA ClosureKeepsTested ==
  ASSUME TypeInv, NEW t \in Notifiers, Notify(t) \/ NotifyAll(t),
         NEW m \in Notifiers, MaskTested(m)
  PROVE  MaskTested(m)'
  <1> SUFFICES ASSUME ~Drained(m) PROVE MaskTested(m)'
    BY Zenon DEF Notify, NotifyAll, MaskTested, Drained
  <1>1. m # t
    BY Zenon DEF Notify, NotifyAll, MaskTested
  <1>2. pc'[m] = pc[m] /\ op'[m] = op[m]
    BY <1>1, Zenon DEF Notify, NotifyAll, MaskTested, Go, Finish, Threads, TypeInv, ThreadType
  <1> QED
    BY <1>2, StayTested, Zenon DEF Notify, NotifyAll

----------------------------------------------------------------------------
(* All of it *)

LEMMA StepWakeInv ==
  ASSUME Attachers = {}, MaskApart, TypeInv, Planted, WakeInv, [Next]_vars
  PROVE  WakeInv'
  <1>a. callback = attached /\ attached \subseteq Conditions
    BY SMTT(20) DEF Planted, TypeInv, SharedType
  <1> USE DEF WakeInv
  <1>1. CASE UNCHANGED vars
    <2>1. UNCHANGED <<enabled, changes, attached, current, store, pc, op>>
      BY <1>1, Zenon DEF vars
    <2>2. \A m \in Notifiers : MaskTested(m)'
      BY <2>1, StayTested, Zenon
    <2>3. \A c \in attached : Covered(c) => Covered(c)'
      BY <2>1, Zenon DEF Covered, Owes, Triggered, Drained
    <2>4. \A u \in Waiters : Informed(u)'
      BY <2>1, <2>3, StaysInformed, Zenon
    <2>5. \A u \in Waiters : WakeComing(u)'
      BY <2>1, Zenon DEF WakeComing
    <2> QED
      BY <2>2, <2>4, <2>5, Zenon
  <1>2. ASSUME NEW t \in Waiters,
               Enter(t) \/ WaiterStep(t) \/ Timeout(t) \/ WakeSpuriously(t)
        PROVE  WakeInv'
    <2>1. \A m \in Notifiers : MaskTested(m)'
      BY <1>2, WaiterFrame, StayTested, Zenon DEF OthersStay, Threads
    <2>2. ASSUME NEW u \in Waiters PROVE Informed(u)'
      <3>1. CASE u = t
        BY <1>2, <3>1, WaiterStaysInformed, SMTT(20)
      <3>2. CASE u # t
        <4>1. pc'[u] = pc[u] /\ op'[u] = op[u] /\ UNCHANGED <<enabled, attached>>
          BY <1>2, <3>2, WaiterFrame, Zenon DEF OthersStay, Threads
        <4>2. u \in current' <=> u \in current
          BY <1>2, <3>2, Zenon DEF Enter, WaiterStep, Snapshot, LockConditions, LoadEnabled,
                            LoadChanges, EndScan, Park, Rescan, Resume, Timeout,
                            WakeSpuriously, Observe
        <4>3. \A c \in attached : Covered(c) => Covered(c)'
          BY <1>2, <1>a, WaiterKeepsCovered, Zenon
        <4>4. u \in current => Informed(u)'
          BY <4>1, <4>3, <4>2, SMTT(20) DEF Informed
        <4> QED
          BY <4>2, <4>4, Zenon DEF Informed
      <3> QED
        BY <3>1, <3>2, Zenon
    <2>3. \A u \in Waiters : WakeComing(u)'
      BY <1>2, WaiterKeepsWakeComing, Zenon
    <2> QED
      BY <2>1, <2>2, <2>3, Zenon
  <1>3. ASSUME NEW n \in Notifiers, NotifierStep(n)
        PROVE  WakeInv'
    <2>1. \A m \in Notifiers : MaskTested(m)'
      BY <1>3, NotifierKeepsTested, Zenon
    <2>2. \A c \in attached : Covered(c) => Covered(c)'
      BY <1>3, <1>a, NotifierKeepsCovered, Zenon
    <2>3. ASSUME NEW c \in attached PROVE enabled'[c] = enabled[c] \/ Covered(c)'
      <3>1. CASE MaskVisible(n) /\ c = store[n].cond
        BY <1>a, <3>1, VisibleIsCovered, Zenon
      <3>2. CASE ~(MaskVisible(n) /\ c = store[n].cond)
        BY <1>3, <1>a, <3>2, Zenon DEF NotifierStep, TestMask, ReloadMask, Reevaluate, LockCallback,
                                MaskVisible, TypeInv, SharedType
      <3> QED
        BY <3>1, <3>2, Zenon
    <2>4. \A u \in Waiters : pc'[u] = pc[u] /\ op'[u] = op[u]
      BY <1>3, NotifierFrame, SMTT(20) DEF OthersStay, Threads
    <2>5. \A u \in Waiters : Informed(u)'
      BY <1>3, <2>2, <2>3, <2>4, NotifierFrame, StaysInformed, Zenon
    <2>6. \A m \in Notifiers : pc[m] = "wake" => pc'[m] = "wake"
      BY <1>3, NotifierFrame, SMTT(20) DEF OthersStay, Threads, NotifierStep, TestMask, ReloadMask,
                                 Reevaluate, LockCallback, MaskVisible
    <2>7. \A u \in Waiters : WakeComing(u)'
      BY <1>3, <2>4, <2>6, NotifierFrame, Zenon DEF WakeComing
    <2> QED
      BY <2>1, <2>5, <2>7, Zenon
  <1>4. ASSUME NEW n \in Notifiers, NEW d \in Conditions, NEW s \in Statuses,
               AddCommunicationStatus(n, d, s) \/ RemoveCommunicationStatus(n, d, s)
        PROVE  WakeInv'
    <2>1. \A m \in Notifiers : MaskTested(m)'
      BY <1>4, StatusKeepsTested, Zenon
    <2>2. \A c \in attached : Covered(c) => Covered(c)'
      BY <1>4, <1>a, StatusKeepsCovered, Zenon
    <2>3. /\ \A u \in Waiters : pc'[u] = pc[u] /\ op'[u] = op[u]
          /\ \A m \in Notifiers : pc[m] = "wake" => pc'[m] = "wake"
          /\ UNCHANGED <<enabled, current, attached>>
      BY <1>4, StatusFrame, Zenon DEF OthersStay, Threads
    <2>4. \A u \in Waiters : Informed(u)'
      BY <2>2, <2>3, StaysInformed, Zenon
    <2>5. \A u \in Waiters : WakeComing(u)'
      BY <2>3, Zenon DEF WakeComing
    <2> QED
      BY <2>1, <2>4, <2>5, Zenon
  <1>5. ASSUME NEW n \in Notifiers, NEW d \in Conditions, NEW mask \in SUBSET Statuses,
               SetEnabledStatuses(n, d, mask)
        PROVE  WakeInv'
    <2>1. \A m \in Notifiers : MaskTested(m)'
      BY <1>5, MaskKeepsTested, Zenon
    <2>2. \A c \in attached : Covered(c) => Covered(c)'
      BY <1>5, <1>a, MaskKeepsCovered, Zenon
    <2>3. /\ \A u \in Waiters : pc'[u] = pc[u] /\ op'[u] = op[u]
          /\ \A m \in Notifiers : pc[m] = "wake" => pc'[m] = "wake"
          /\ UNCHANGED <<enabled, current, attached>>
      BY <1>5, MaskFrame, Zenon DEF OthersStay, Threads
    <2>4. \A u \in Waiters : Informed(u)'
      BY <2>2, <2>3, StaysInformed, Zenon
    <2>5. \A u \in Waiters : WakeComing(u)'
      BY <2>3, Zenon DEF WakeComing
    <2> QED
      BY <2>1, <2>4, <2>5, Zenon
  <1>6. ASSUME NEW t \in Notifiers, Notify(t)
        PROVE  WakeInv'
    <2>1. \A m \in Notifiers : MaskTested(m)'
      BY <1>6, ClosureKeepsTested, Zenon
    <2>2. \A u \in Waiters : Informed(u)'
      BY <1>6, Zenon DEF Notify, Informed
    <2>3. \A u \in Waiters : pc'[u] = pc[u]
      BY <1>6, Zenon DEF Notify, Finish, Go, Threads, TypeInv, ThreadType
    <2>4. CASE Parked = {}
      BY <2>1, <2>2, <2>3, <2>4, Zenon DEF Parked, WakeComing
    <2>5. CASE Parked # {}
      <3>1. pc'[t] = "wake"
        BY <1>6, <2>5, Zenon DEF Notify, Go, Threads, TypeInv, ThreadType
      <3> QED
        BY <2>1, <2>2, <3>1, Zenon DEF WakeComing
    <2> QED
      BY <2>4, <2>5, Zenon
  <1>7. ASSUME NEW t \in Notifiers, NotifyAll(t)
        PROVE  WakeInv'
    <2>1. \A m \in Notifiers : MaskTested(m)'
      BY <1>7, ClosureKeepsTested, Zenon
    <2>2. \A c \in attached : Covered(c) => Covered(c)'
      BY <1>7, <1>a, NotifyAllKeepsCovered, Zenon
    <2>3. \A u \in Waiters : /\ op'[u] = op[u] /\ pc'[u] # "parked"
                             /\ pc'[u] = pc[u] \/ (pc[u] = "parked" /\ pc'[u] = "woken")
      BY <1>7, SMTT(20) DEF NotifyAll, Threads, TypeInv, ThreadType
    <2>4. \A u \in Waiters : Informed(u)'
      BY <1>7, <2>2, <2>3, StaysInformed, Zenon DEF NotifyAll
    <2>5. \A u \in Waiters : WakeComing(u)'
      BY <2>3, SMTT(20) DEF WakeComing
    <2> QED
      BY <2>1, <2>4, <2>5, Zenon
  <1> QED
    BY <1>1, <1>2, <1>3, <1>4, <1>5, <1>6, <1>7, Zenon DEF Next

LEMMA WakeInvImpliesNoLostWakeup ==
  ASSUME TypeInv, WakeInv
  PROVE  NoLostWakeup
  <1>1. \A n \in Notifiers, c \in Conditions : Owes(n, c) => Notifying(n, c)
    BY Zenon DEF Owes, Notifying
  <1> QED
    BY <1>1, Zenon DEF WakeInv, Informed, WakeComing, Covered, NoLostWakeup, TypeInv, SharedType

\* No wake-up is lost among any number of waiting and notifying threads, attached
\* conditions and statuses, as long as conditions are attached before (a status raised
\* while its condition is being attached may wake nobody) and no status is added while
\* a mask is being set.
THEOREM NoWakeupLost ==
  ASSUME Attachers = {}, MaskApart
  PROVE  Spec => []NoLostWakeup
  <1>1. Init => Planted /\ WakeInv
    <2> SUFFICES ASSUME Init PROVE Planted /\ WakeInv
      BY Zenon
    <2>1. Planted
      BY Zenon DEF Init, Planted
    <2>2. \A n \in Notifiers : MaskTested(n)
      BY Zenon DEF Init, MaskTested, Drained
    <2>3. \A t \in Waiters : Informed(t) /\ WakeComing(t)
      BY Zenon DEF Init, Informed, WakeComing, Threads
    <2> QED
      BY <2>1, <2>2, <2>3, Zenon DEF WakeInv
  <1>2. TypeInv /\ Planted /\ WakeInv /\ [Next]_vars => WakeInv'
    BY StepWakeInv, Zenon
  <1>3. TypeInv /\ WakeInv => NoLostWakeup
    BY WakeInvImpliesNoLostWakeup, Zenon
  <1> QED
    BY <1>1, <1>2, <1>3, InitTypeInv, StepTypeInv, StepPlanted, PTL DEF Spec
=============================================================================
