------------------------------ MODULE ChatRoom ------------------------------
(***************************************************************************)
(* What the server promises its members, whatever its threads and queues:  *)
(* a room that a connection enters and leaves once, in which every chat is *)
(* heard by all who are in the room when it is said, at once and in one    *)
(* order.                                                                  *)
(***************************************************************************)
EXTENDS Naturals, Sequences

CONSTANTS Sessions, Chat

VARIABLES
    log,        \* the chats said in the room
    room,       \* who is in it
    entered,    \* who has been in it
    heard       \* what each of them was told

roomVars == <<log, room, entered, heard>>

TypeOK ==
    /\ log \in Seq(Chat)
    /\ room \subseteq entered
    /\ entered \subseteq Sessions
    /\ heard \in [Sessions -> Seq(Chat)]

Init ==
    /\ log = <<>>
    /\ room = {}
    /\ entered = {}
    /\ heard = [s \in Sessions |-> <<>>]

Enter(s) ==
    /\ s \notin entered
    /\ entered' = entered \cup {s}
    /\ room' = room \cup {s}
    /\ UNCHANGED <<log, heard>>

Leave(s) ==
    /\ s \in room
    /\ room' = room \ {s}
    /\ UNCHANGED <<log, entered, heard>>

Say(c) ==
    /\ log' = Append(log, c)
    /\ heard' = [s \in Sessions |-> IF s \in room THEN Append(heard[s], c) ELSE heard[s]]
    /\ UNCHANGED <<room, entered>>

Next ==
    \/ \E s \in Sessions : Enter(s) \/ Leave(s)
    \/ \E c \in Chat : Say(c)

Spec == Init /\ [][Next]_roomVars

-----------------------------------------------------------------------------

\* What s heard is the part of the log that begins behind its k-th chat.
HeardFrom(s, k) ==
    /\ k + Len(heard[s]) <= Len(log)
    /\ \A i \in 1 .. Len(heard[s]) : heard[s][i] = log[k + i]

\* Nobody hears a chat twice, misses one in between or hears two in another
\* order than the others; who is still in the room has heard all that was said
\* since it entered.
HeardWithoutGaps ==
    /\ \A s \in Sessions : \E k \in 0 .. Len(log) : HeardFrom(s, k)
    /\ \A s \in room : \E k \in 0 .. Len(log) :
         HeardFrom(s, k) /\ k + Len(heard[s]) = Len(log)

=============================================================================
