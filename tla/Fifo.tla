-------------------------------- MODULE Fifo --------------------------------
(***************************************************************************)
(* A first-in first-out queue whose operations happen at once: what the    *)
(* callers of SafeQueue rely on.                                           *)
(***************************************************************************)
EXTENDS Sequences

CONSTANT Values

VARIABLES queue, taken    \* what is queued, and the sequence of what was taken

fifoVars == <<queue, taken>>

Init == queue = <<>> /\ taken = <<>>

Push(v) ==
    /\ queue' = Append(queue, v)
    /\ UNCHANGED taken

Pop ==
    /\ queue # <<>>
    /\ taken' = Append(taken, Head(queue))
    /\ queue' = Tail(queue)

Next == Pop \/ \E v \in Values : Push(v)

Spec == Init /\ [][Next]_fifoVars

=============================================================================
