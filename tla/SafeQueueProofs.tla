-------------------------- MODULE SafeQueueProofs --------------------------
(* Proofs about SafeQueue, for any number of threads and values.           *)
EXTENDS SafeQueue, TLAPS

\* Who holds the mutex is between two steps, and nobody else is.  This is what
\* keeps Sleep from acting on a queue that another thread is changing.
MutexHeld ==
    \A t \in Threads : pc[t] = "locked" <=> owner = t

\* Only waiters sleep, and only producers notify.
Places ==
    /\ \A t \in Threads : pc[t] = "asleep" => t \in Waiters
    /\ \A t \in Threads : pc[t] = "notify" => t \in Producers

Inv == TypeOK /\ MutexHeld /\ Places /\ NoLostWakeup

-----------------------------------------------------------------------------

LEMMA InvInit == Init => Inv
  BY SafeQueueAssumption DEF Init, Inv, TypeOK, MutexHeld, Places, NoLostWakeup

LEMMA TypeStep == TypeOK /\ [Next]_vars => TypeOK'
<1> SUFFICES ASSUME TypeOK, [Next]_vars PROVE TypeOK'
  OBVIOUS
<1> USE DEF TypeOK, Threads
<1>1. ASSUME NEW t \in Threads, Lock(t) PROVE TypeOK'
  BY <1>1 DEF Lock, Goto
<1>2. ASSUME NEW p \in Producers, Push(p) PROVE TypeOK'
  BY <1>2 DEF Push, Goto
<1>3. ASSUME NEW p \in Producers, Notify(p) PROVE TypeOK'
  BY <1>3 DEF Notify, Goto
<1>4. ASSUME NEW t \in Waiters \cup Pollers, Pop(t) PROVE TypeOK'
  BY <1>4 DEF Pop, Goto
<1>5. ASSUME NEW t \in Pollers, PopNothing(t) PROVE TypeOK'
  BY <1>5 DEF PopNothing, Goto
<1>6. ASSUME NEW w \in Waiters, Sleep(w) PROVE TypeOK'
  BY <1>6 DEF Sleep, Goto
<1>7. ASSUME NEW w \in Waiters, WakeUp(w) PROVE TypeOK'
  BY <1>7 DEF WakeUp, Goto
<1>8. CASE UNCHANGED vars
  BY <1>8 DEF vars
<1> QED
  BY <1>1, <1>2, <1>3, <1>4, <1>5, <1>6, <1>7, <1>8 DEF Next

LEMMA MutexStep ==
  TypeOK /\ MutexHeld /\ Places /\ [Next]_vars => MutexHeld' /\ Places'
<1> SUFFICES ASSUME TypeOK, MutexHeld, Places, [Next]_vars
             PROVE  MutexHeld' /\ Places'
  OBVIOUS
<1> USE SafeQueueAssumption DEF TypeOK, Threads, MutexHeld, Places
<1>1. ASSUME NEW t \in Threads, Lock(t) PROVE MutexHeld' /\ Places'
  BY <1>1 DEF Lock, Goto
<1>2. ASSUME NEW p \in Producers, Push(p) PROVE MutexHeld' /\ Places'
  BY <1>2 DEF Push, Goto
<1>3. ASSUME NEW p \in Producers, Notify(p) PROVE MutexHeld' /\ Places'
  BY <1>3 DEF Notify, Goto
<1>4. ASSUME NEW t \in Waiters \cup Pollers, Pop(t) PROVE MutexHeld' /\ Places'
  BY <1>4 DEF Pop, Goto
<1>5. ASSUME NEW t \in Pollers, PopNothing(t) PROVE MutexHeld' /\ Places'
  BY <1>5 DEF PopNothing, Goto
<1>6. ASSUME NEW w \in Waiters, Sleep(w) PROVE MutexHeld' /\ Places'
  BY <1>6 DEF Sleep, Goto
<1>7. ASSUME NEW w \in Waiters, WakeUp(w) PROVE MutexHeld' /\ Places'
  BY <1>7 DEF WakeUp, Goto
<1>8. CASE UNCHANGED vars
  BY <1>8 DEF vars
<1> QED
  BY <1>1, <1>2, <1>3, <1>4, <1>5, <1>6, <1>7, <1>8 DEF Next

\* After a push somebody notifies; a notification wakes a waiter if all sleep;
\* and a waiter goes to sleep only when there is nothing to take.
LEMMA WakeupStep ==
  Inv /\ [Next]_vars => NoLostWakeup'
<1> SUFFICES ASSUME Inv, [Next]_vars PROVE NoLostWakeup'
  OBVIOUS
<1> USE SafeQueueAssumption DEF Inv, TypeOK, Threads, MutexHeld, Places, NoLostWakeup
<1>1. ASSUME NEW t \in Threads, Lock(t) PROVE NoLostWakeup'
  BY <1>1 DEF Lock, Goto
<1>2. ASSUME NEW p \in Producers, Push(p) PROVE NoLostWakeup'
  <2>1. pc'[p] = "notify"
    BY <1>2 DEF Push, Goto
  <2> QED
    BY <2>1
<1>3. ASSUME NEW p \in Producers, Notify(p) PROVE NoLostWakeup'
  <2>1. PICK w \in Waiters : pc'[w] # "asleep"
    BY <1>3 DEF Notify, Goto
  <2> QED
    BY <2>1
<1>4. ASSUME NEW t \in Waiters \cup Pollers, Pop(t) PROVE NoLostWakeup'
  <2>1. CASE t \in Waiters
    <3>1. pc'[t] = "out"
      BY <1>4 DEF Pop, Goto
    <3> QED
      BY <3>1, <2>1
  <2>2. CASE t \in Pollers
    BY <1>4, <2>2 DEF Pop, Goto
  <2> QED
    BY <2>1, <2>2
<1>5. ASSUME NEW t \in Pollers, PopNothing(t) PROVE NoLostWakeup'
  BY <1>5 DEF PopNothing, Goto
<1>6. ASSUME NEW w \in Waiters, Sleep(w) PROVE NoLostWakeup'
  BY <1>6 DEF Sleep, Goto
<1>7. ASSUME NEW w \in Waiters, WakeUp(w) PROVE NoLostWakeup'
  <2>1. pc'[w] = "awake"
    BY <1>7 DEF WakeUp, Goto
  <2> QED
    BY <2>1
<1>8. CASE UNCHANGED vars
  BY <1>8 DEF vars
<1> QED
  BY <1>1, <1>2, <1>3, <1>4, <1>5, <1>6, <1>7, <1>8 DEF Next

LEMMA InvStep == Inv /\ [Next]_vars => Inv'
  BY TypeStep, MutexStep, WakeupStep DEF Inv

\* At most one thread is inside the mutex, every value and place is of its
\* type, and no wakeup is lost, whatever the number of producers and consumers
\* of the queue in SafeQueue.h.
THEOREM SafeQueueInvariant == Spec => []Inv
  BY InvInit, InvStep, PTL DEF Spec

THEOREM TypeCorrect == Spec => []TypeOK
<1>1. Inv => TypeOK
  BY DEF Inv
<1> QED
  BY <1>1, SafeQueueInvariant, PTL

THEOREM WakeupsKept == Spec => []NoLostWakeup
<1>1. Inv => NoLostWakeup
  BY DEF Inv
<1> QED
  BY <1>1, SafeQueueInvariant, PTL

-----------------------------------------------------------------------------

\* The queue under its mutex is a first-in first-out queue.
THEOREM QueueIsFifo == Spec => FifoSpec
<1>1. Init => Queue!Init
  BY DEF Init, Queue!Init
<1>2. Inv /\ [Next]_vars => [Queue!Next]_Queue!fifoVars
  <2> SUFFICES ASSUME Inv, [Next]_vars PROVE [Queue!Next]_Queue!fifoVars
    OBVIOUS
  <2> USE DEF Queue!Next, Queue!fifoVars, Queue!Push, Queue!Pop
  <2>1. ASSUME NEW t \in Threads, Lock(t) PROVE UNCHANGED Queue!fifoVars
    BY <2>1 DEF Lock
  <2>2. ASSUME NEW p \in Producers, Push(p) PROVE Queue!Next
    BY <2>2 DEF Push
  <2>3. ASSUME NEW p \in Producers, Notify(p) PROVE UNCHANGED Queue!fifoVars
    BY <2>3 DEF Notify
  <2>4. ASSUME NEW t \in Waiters \cup Pollers, Pop(t) PROVE Queue!Next
    BY <2>4 DEF Pop
  <2>5. ASSUME NEW t \in Pollers, PopNothing(t) PROVE UNCHANGED Queue!fifoVars
    BY <2>5 DEF PopNothing
  <2>6. ASSUME NEW w \in Waiters, Sleep(w) PROVE UNCHANGED Queue!fifoVars
    BY <2>6 DEF Sleep
  <2>7. ASSUME NEW w \in Waiters, WakeUp(w) PROVE UNCHANGED Queue!fifoVars
    BY <2>7 DEF WakeUp
  <2>8. CASE UNCHANGED vars
    BY <2>8 DEF vars
  <2> QED
    BY <2>1, <2>2, <2>3, <2>4, <2>5, <2>6, <2>7, <2>8 DEF Next
<1> QED
  BY <1>1, <1>2, SafeQueueInvariant, PTL DEF Spec, FifoSpec, Queue!Spec

=============================================================================
