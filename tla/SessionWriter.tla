--------------------------- MODULE SessionWriter ---------------------------
(***************************************************************************)
(* The writer of one session (send, disconnectAfterWrite, onWrite and      *)
(* disconnect in server/src/session/Session.cpp).  Callers on any thread   *)
(* post handlers to the io_context; the network thread runs them in order, *)
(* one at a time, and runs the completion handler of a write when the      *)
(* write is done.  Asio allows one async_write on a socket at a time: that *)
(* there is never a second one is up to this code.                         *)
(***************************************************************************)
EXTENDS Naturals, Sequences

CONSTANTS
    Lines,      \* serialized messages
    Bye,        \* the handler posted by disconnectAfterWrite
    MaxCalls    \* bound: calls of send

ASSUME WriterAssumption ==
    /\ Bye \notin Lines
    /\ MaxCalls \in Nat

VARIABLES
    calls,      \* ghost: calls of send so far
    leaving,    \* ghost: has disconnectAfterWrite been called?
    posted,     \* handlers posted and not yet run: a line, or Bye
    queue,      \* m_WriteQueue
    writes,     \* the number of async_writes in flight
    disconnectAfter,    \* m_ShouldDisconnectAfterWrite
    open,       \* m_Socket.is_open()
    failed,     \* ghost: has a write failed?
    wire        \* ghost: the lines written

vars == <<calls, leaving, posted, queue, writes, disconnectAfter, open, failed, wire>>

TypeOK ==
    /\ calls \in 0 .. MaxCalls
    /\ leaving \in BOOLEAN
    /\ posted \in Seq(Lines \cup {Bye})
    /\ queue \in Seq(Lines)
    /\ writes \in Nat
    /\ disconnectAfter \in BOOLEAN
    /\ open \in BOOLEAN
    /\ failed \in BOOLEAN
    /\ wire \in Seq(Lines)

Init ==
    /\ calls = 0
    /\ leaving = FALSE
    /\ posted = <<>>
    /\ queue = <<>>
    /\ writes = 0
    /\ disconnectAfter = FALSE
    /\ open = TRUE
    /\ failed = FALSE
    /\ wire = <<>>

-----------------------------------------------------------------------------
(* Calls, on any thread.  Nobody sends after disconnectAfterWrite: see the *)
(* property Conversation of module Server.                                 *)

Send(line) ==
    /\ ~leaving
    /\ calls < MaxCalls
    /\ calls' = calls + 1
    /\ posted' = Append(posted, line)
    /\ UNCHANGED <<leaving, queue, writes, disconnectAfter, open, failed, wire>>

DisconnectAfterWrite ==
    /\ ~leaving
    /\ leaving' = TRUE
    /\ posted' = Append(posted, Bye)
    /\ UNCHANGED <<calls, queue, writes, disconnectAfter, open, failed, wire>>

-----------------------------------------------------------------------------
(* Handlers, on the network thread.                                        *)

\* Variants of RunSend: every line starts a write; the line is put in front.
RunSendEager ==
    /\ posted # <<>> /\ Head(posted) # Bye
    /\ posted' = Tail(posted)
    /\ queue' = Append(queue, Head(posted))
    /\ writes' = writes + 1
    /\ UNCHANGED <<calls, leaving, disconnectAfter, open, failed, wire>>
RunSendFirst ==
    /\ posted # <<>> /\ Head(posted) # Bye
    /\ posted' = Tail(posted)
    /\ queue' = <<Head(posted)>> \o queue
    /\ writes' = IF queue = <<>> THEN writes + 1 ELSE writes
    /\ UNCHANGED <<calls, leaving, disconnectAfter, open, failed, wire>>

\* The handler of send(): a write is started only if the queue was empty.
RunSend ==
    /\ posted # <<>> /\ Head(posted) # Bye
    /\ posted' = Tail(posted)
    /\ queue' = Append(queue, Head(posted))
    /\ writes' = IF queue = <<>> THEN writes + 1 ELSE writes
    /\ UNCHANGED <<calls, leaving, disconnectAfter, open, failed, wire>>

\* Variant of RunDisconnect: the socket is never closed here.
RunDisconnectLater ==
    /\ posted # <<>> /\ Head(posted) = Bye
    /\ posted' = Tail(posted)
    /\ disconnectAfter' = TRUE
    /\ UNCHANGED <<calls, leaving, queue, writes, open, failed, wire>>

\* The handler of disconnectAfterWrite().
RunDisconnect ==
    /\ posted # <<>> /\ Head(posted) = Bye
    /\ posted' = Tail(posted)
    /\ disconnectAfter' = TRUE
    /\ open' = IF queue = <<>> THEN FALSE ELSE open
    /\ UNCHANGED <<calls, leaving, queue, writes, failed, wire>>

\* The completion handler of onWrite(), without an error.
WriteCompletes ==
    /\ writes > 0
    /\ open
    /\ wire' = Append(wire, Head(queue))
    /\ queue' = Tail(queue)
    /\ writes' = IF Tail(queue) # <<>> THEN writes ELSE writes - 1
    /\ open' = IF Tail(queue) = <<>> /\ disconnectAfter THEN FALSE ELSE open
    /\ UNCHANGED <<calls, leaving, posted, disconnectAfter, failed>>

\* The completion handler of onWrite(), with an error: it does nothing.
WriteFails ==
    /\ writes > 0
    /\ writes' = writes - 1
    /\ failed' = TRUE
    /\ UNCHANGED <<calls, leaving, posted, queue, disconnectAfter, open, wire>>

Handlers == RunSend \/ RunDisconnect \/ WriteCompletes \/ WriteFails

Next ==
    \/ \E line \in Lines : Send(line)
    \/ DisconnectAfterWrite
    \/ Handlers

Spec == Init /\ [][Next]_vars

-----------------------------------------------------------------------------
(* Properties.                                                             *)

\* There is a write in flight exactly when there is something to write, and
\* never a second one, until a write fails: then there is none, the queue
\* stays as it is but for what is pushed behind, and nothing starts another.
OneWriteAtATime ==
    /\ writes <= 1
    /\ writes = 1 <=> (queue # <<>> /\ ~failed)

\* The socket is closed only by a disconnectAfterWrite, when everything that
\* was sent has been written.
ClosedWhenAllWritten ==
    ~open => posted = <<>> /\ queue = <<>> /\ disconnectAfter /\ Len(wire) = calls

\* The writer implements the outbox of module Session.
Outbox == INSTANCE Outbox WITH
    outbox <- queue \o (IF disconnectAfter /\ open THEN <<Bye>> ELSE <<>>) \o posted,
    written <- IF open THEN wire ELSE Append(wire, Bye),
    stuck <- failed

OutboxSpec == Outbox!Spec

=============================================================================
