------------------------------- MODULE Outbox -------------------------------
(***************************************************************************)
(* What the writer of a connection promises those who call it: lines are   *)
(* put on the wire in the order of the calls, each once, and the order to  *)
(* close is obeyed behind the last of them; after an error nothing more is *)
(* written and the connection is not closed.  These are the steps Send,    *)
(* Write, WriteError and Disconnect of module Session, for one session.    *)
(***************************************************************************)
EXTENDS Naturals, Sequences

CONSTANTS Lines, Bye

VARIABLES
    outbox,     \* given to the writer and not yet written
    written,    \* put on the wire, with Bye for the end of the connection
    stuck       \* has a write failed?

outboxVars == <<outbox, written, stuck>>

Init ==
    /\ outbox = <<>>
    /\ written = <<>>
    /\ stuck = FALSE

\* A call of send() or disconnectAfterWrite().
Give(x) ==
    /\ outbox' = Append(outbox, x)
    /\ UNCHANGED <<written, stuck>>

\* A last line and the order to close, by one caller in one step, as
\* Server::onClientReject and kickUser make them.
GiveAndClose(x) ==
    /\ outbox' = outbox \o <<x, Bye>>
    /\ UNCHANGED <<written, stuck>>

\* The first line is written, or the connection closed.
Take ==
    /\ ~stuck
    /\ outbox # <<>>
    /\ written' = Append(written, Head(outbox))
    /\ outbox' = Tail(outbox)
    /\ UNCHANGED stuck

\* The last line is written and the connection closed in one go, where the
\* order to close was there before the line was written.  (In module Session
\* these are always two steps: the order may also come later.)
TakeAndClose ==
    /\ ~stuck
    /\ Len(outbox) >= 2 /\ outbox[1] # Bye /\ outbox[2] = Bye
    /\ written' = written \o <<outbox[1], Bye>>
    /\ outbox' = Tail(Tail(outbox))
    /\ UNCHANGED stuck

Fail ==
    /\ ~stuck
    /\ outbox # <<>>
    /\ Head(outbox) # Bye
    /\ stuck' = TRUE
    /\ UNCHANGED <<outbox, written>>

Next ==
    \/ \E x \in Lines \cup {Bye} : Give(x)
    \/ \E x \in Lines : GiveAndClose(x)
    \/ Take
    \/ TakeAndClose
    \/ Fail

Spec == Init /\ [][Next]_outboxVars

=============================================================================
