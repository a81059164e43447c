----------------------------- MODULE SafeQueue -----------------------------
(***************************************************************************)
(* The queue through which the threads of both programs talk               *)
(* (common/utility/safe_queue/SafeQueue.h): a std::queue under a mutex,    *)
(* and a condition variable for those who wait.  push() notifies after it  *)
(* has released the mutex.  A wait may end without a notification.         *)
(*                                                                         *)
(* A step is what a thread does from one operation on the mutex or on the  *)
(* condition variable to the next.                                         *)
(***************************************************************************)
EXTENDS Naturals, Sequences

CONSTANTS
    Producers,  \* threads that call push
    Waiters,    \* threads that call waitAndPop, over and over
    Pollers,    \* threads that call tryPop
    Values,     \* what is queued
    None,       \* no thread
    MaxPushes   \* bound: calls of push

Threads == Producers \cup Waiters \cup Pollers

ASSUME SafeQueueAssumption ==
    /\ None \notin Threads
    /\ Producers \cap (Waiters \cup Pollers) = {}
    /\ Waiters \cap Pollers = {}
    /\ Waiters # {}
    /\ MaxPushes \in Nat

VARIABLES
    queue,      \* m_Queue
    owner,      \* the thread that holds m_Mutex
    pc,         \* "out", "locked" (holds the mutex), "notify", "asleep"
                \* (in m_CondVar.wait) or "awake" (woken, without the mutex)
    pushes,     \* ghost: calls of push so far
    taken       \* ghost: the values taken, in order

vars == <<queue, owner, pc, pushes, taken>>

TypeOK ==
    /\ queue \in Seq(Values)
    /\ owner \in Threads \cup {None}
    /\ pc \in [Threads -> {"out", "locked", "notify", "asleep", "awake"}]
    /\ pushes \in Nat
    /\ taken \in Seq(Values)

Init ==
    /\ queue = <<>>
    /\ owner = None
    /\ pc = [t \in Threads |-> "out"]
    /\ pushes = 0
    /\ taken = <<>>

Goto(t, place) == pc' = [pc EXCEPT ![t] = place]

\* The mutex is taken: at the start of an operation, or at the end of a wait.
\* A thread that holds it, on its way to its next step, excludes the others.
Lock(t) ==
    /\ owner = None
    /\ pc[t] \in {"out", "awake"}
    /\ t \in Producers => pushes < MaxPushes
    /\ owner' = t
    /\ Goto(t, "locked")
    /\ UNCHANGED <<queue, pushes, taken>>

\* Variant of Push: nobody is notified.
PushQuietly(p) ==
    /\ pc[p] = "locked"
    /\ \E v \in Values : queue' = Append(queue, v)
    /\ pushes' = pushes + 1
    /\ owner' = None
    /\ Goto(p, "out")
    /\ UNCHANGED taken

\* push(): the value goes in and the mutex is released ...
Push(p) ==
    /\ pc[p] = "locked"
    /\ \E v \in Values : queue' = Append(queue, v)
    /\ pushes' = pushes + 1
    /\ owner' = None
    /\ Goto(p, "notify")
    /\ UNCHANGED taken

\* ... and then notify_one wakes a sleeping thread, if there is one.
Notify(p) ==
    /\ pc[p] = "notify"
    /\ LET asleep == {w \in Waiters : pc[w] = "asleep"}
       IN  IF asleep = {}
           THEN Goto(p, "out")
           ELSE \E w \in asleep : pc' = [pc EXCEPT ![p] = "out", ![w] = "awake"]
    /\ UNCHANGED <<queue, owner, pushes, taken>>

\* Variant of Pop: the back is taken.
PopBack(t) ==
    /\ pc[t] = "locked"
    /\ queue # <<>>
    /\ taken' = Append(taken, queue[Len(queue)])
    /\ queue' = SubSeq(queue, 1, Len(queue) - 1)
    /\ owner' = None
    /\ Goto(t, "out")
    /\ UNCHANGED pushes

\* The front is taken and the mutex released.
Pop(t) ==
    /\ pc[t] = "locked"
    /\ queue # <<>>
    /\ taken' = Append(taken, Head(queue))
    /\ queue' = Tail(queue)
    /\ owner' = None
    /\ Goto(t, "out")
    /\ UNCHANGED pushes

\* tryPop() of an empty queue.
PopNothing(t) ==
    /\ pc[t] = "locked"
    /\ queue = <<>>
    /\ owner' = None
    /\ Goto(t, "out")
    /\ UNCHANGED <<queue, pushes, taken>>

\* The predicate of waitAndPop() fails: the thread releases the mutex and goes
\* to sleep, in one step.
Sleep(w) ==
    /\ pc[w] = "locked"
    /\ queue = <<>>
    /\ owner' = None
    /\ Goto(w, "asleep")
    /\ UNCHANGED <<queue, pushes, taken>>

\* A spurious wakeup.
WakeUp(w) ==
    /\ pc[w] = "asleep"
    /\ Goto(w, "awake")
    /\ UNCHANGED <<queue, owner, pushes, taken>>

Next ==
    \/ \E t \in Threads : Lock(t)
    \/ \E p \in Producers : Push(p) \/ Notify(p)
    \/ \E t \in Waiters \cup Pollers : Pop(t)
    \/ \E t \in Pollers : PopNothing(t)
    \/ \E w \in Waiters : Sleep(w) \/ WakeUp(w)

Spec == Init /\ [][Next]_vars

\* The steps of a waiter but for the spurious wakeup, and those of a producer
\* that has begun to push.  A mutex may starve a thread that others overtake
\* again and again, but not here: producers stop at their bound, as they stop
\* for want of input, and strong fairness stands for a scheduler under which
\* the pollers, which come once a frame, do not hold the mutex at every try.
FairSpec ==
    /\ Spec
    /\ \A w \in Waiters : SF_vars(Lock(w)) /\ WF_vars(Pop(w)) /\ WF_vars(Sleep(w))
    /\ \A t \in Pollers : WF_vars(Pop(t)) /\ WF_vars(PopNothing(t))
    /\ \A p \in Producers : WF_vars(Push(p)) /\ WF_vars(Notify(p))

-----------------------------------------------------------------------------
(* Properties.                                                             *)

\* No wakeup is lost although push() notifies outside of the mutex: when there
\* is something to take and all waiters sleep, a producer is about to notify.
NoLostWakeup ==
    queue # <<>> /\ (\A w \in Waiters : pc[w] = "asleep")
        => \E p \in Producers : pc[p] = "notify"

\* The operations are those of a first-in first-out queue ("SafeQueue is FIFO",
\* tests/test_safe_queue.cpp:38), whatever the threads do.
Queue == INSTANCE Fifo

FifoSpec == Queue!Spec

\* What is pushed is taken: the test at tests/test_safe_queue.cpp:94 on all
\* schedules.
EverythingTaken == queue # <<>> ~> queue = <<>>

=============================================================================
