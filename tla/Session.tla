------------------------------ MODULE Session -------------------------------
(***************************************************************************)
(* The sessions of the server (server/src/session/Session.cpp), one per    *)
(* connection, as the rest of the server sees them: a read loop that hands *)
(* on the lines of the client, and a writer that puts what it is given on  *)
(* the socket in order and can be told to close it behind the last line.   *)
(* The writer's queue of handlers and its write in flight are the subject  *)
(* of module SessionWriter; here they are one sequence, "outbox".          *)
(*                                                                         *)
(* A connection is used for one session.  Its client sends one join line,  *)
(* one picture line and, once accepted, chat lines (client/src/client/     *)
(* Client.cpp), as a client does whose write queue was empty when it       *)
(* connected: module Client says what one sends ahead of them that left    *)
(* another connection with lines unwritten.  The client's end is open      *)
(* until the client leaves.                                                *)
(***************************************************************************)
EXTENDS Naturals, Sequences, Protocol

CONSTANT MayTimeOut  \* may a read fail with an error other than end of file?

ASSUME SessionAssumption == MayTimeOut \in BOOLEAN

VARIABLES
    conn,       \* m_Socket: "new", "open" or "closed" at the server's end
    peer,       \* the client's end: "open" or "closed"
    reading,    \* is an async_read_until pending?
    lines,      \* ghost: join and picture lines read from the client so far
    inChat,     \* clients that received ACCEPT, and so show the chat layer
    name,       \* the user name in m_User
    outbox,     \* posted sends and m_WriteQueue of each session
    stuck,      \* has a write of the session failed?
    written     \* ghost: what was written to each socket

sessionVars == <<conn, peer, reading, lines, inChat, name, outbox, stuck, written>>

SessionTypeOK ==
    /\ conn \in [Sessions -> {"new", "open", "closed"}]
    /\ peer \in [Sessions -> {"open", "closed"}]
    /\ reading \in [Sessions -> BOOLEAN]
    /\ lines \in [Sessions -> 0 .. 2]
    /\ inChat \subseteq Sessions
    /\ name \in [Sessions -> Users \cup {None}]
    /\ outbox \in [Sessions -> Seq(Out)]
    /\ stuck \in [Sessions -> BOOLEAN]
    /\ written \in [Sessions -> Seq(Out)]

SessionInit ==
    /\ conn = [s \in Sessions |-> "new"]
    /\ peer = [s \in Sessions |-> "open"]
    /\ reading = [s \in Sessions |-> FALSE]
    /\ lines = [s \in Sessions |-> 0]
    /\ inChat = {}
    /\ name = [s \in Sessions |-> None]
    /\ outbox = [s \in Sessions |-> <<>>]
    /\ stuck = [s \in Sessions |-> FALSE]
    /\ written = [s \in Sessions |-> <<>>]

-----------------------------------------------------------------------------
(* Called by the server on any thread: send() and disconnectAfterWrite()   *)
(* post their work to the network thread.                                  *)

\* Variant of Send: what is given last is written first.
SendFirst(group, out) ==
    outbox' = [s \in Sessions |-> IF s \in group THEN out \o outbox[s] ELSE outbox[s]]

Send(group, out) ==
    outbox' = [s \in Sessions |-> IF s \in group THEN outbox[s] \o out ELSE outbox[s]]

\* Everything ever given to the writer of s.
Posted(s) == written[s] \o outbox[s]

-----------------------------------------------------------------------------
(* Steps of the network thread that touch one session only.                *)

\* The accept handler: a session is made and start() issues its first read.
Connect(s) ==
    /\ conn[s] = "new"
    /\ conn' = [conn EXCEPT ![s] = "open"]
    /\ reading' = [reading EXCEPT ![s] = TRUE]
    /\ UNCHANGED <<peer, lines, inChat, name, outbox, stuck, written>>

\* A line was read: after handling it, onRead() reads again.  Where the socket
\* has been closed meanwhile, the read had completed before, and the next one
\* ends with an error at once.
ReadLine(s) ==
    /\ reading[s]
    /\ reading' = [reading EXCEPT ![s] = conn[s] = "open"]
    /\ UNCHANGED <<conn, peer, outbox, stuck, inChat, written>>

\* The read ended with end of file or a reset; the callback is the server's.
ReadEnd(s) ==
    /\ reading[s]
    /\ peer[s] = "closed"
    /\ reading' = [reading EXCEPT ![s] = FALSE]
    /\ UNCHANGED <<conn, peer, lines, inChat, name, outbox, stuck, written>>

\* The read ended with another error: aborted by disconnect(), or the network
\* gave up on the client.  The loop ends, and nobody is told.
ReadError(s) ==
    /\ reading[s]
    /\ \/ conn[s] = "closed" /\ UNCHANGED peer
       \/ MayTimeOut /\ peer' = [peer EXCEPT ![s] = "closed"]
    /\ reading' = [reading EXCEPT ![s] = FALSE]
    /\ UNCHANGED <<conn, lines, inChat, name, outbox, stuck, written>>

\* A write completes, and the client, if it is still there, handles the line.
Write(s) ==
    /\ conn[s] = "open" /\ ~stuck[s]
    /\ outbox[s] # <<>> /\ Head(outbox[s]) # Bye
    /\ written' = [written EXCEPT ![s] = Append(@, Head(outbox[s]))]
    /\ outbox' = [outbox EXCEPT ![s] = Tail(@)]
    /\ inChat' = IF peer[s] = "open" /\ Head(outbox[s]).type = "accept"
                 THEN inChat \cup {s} ELSE inChat
    /\ UNCHANGED <<conn, peer, reading, lines, name, stuck>>

\* A write to a client that is gone fails: its line stays in m_WriteQueue, so
\* no later send starts a write and no later order to close is obeyed.
WriteError(s) ==
    /\ conn[s] = "open" /\ ~stuck[s]
    /\ outbox[s] # <<>> /\ Head(outbox[s]) # Bye
    /\ peer[s] = "closed"
    /\ stuck' = [stuck EXCEPT ![s] = TRUE]
    /\ UNCHANGED <<conn, peer, reading, lines, inChat, name, outbox, written>>

\* Variant of Disconnect: the flag is tested where it is set, but not when a
\* write completes.
DisconnectIfUnused(s) ==
    /\ conn[s] = "open" /\ ~stuck[s]
    /\ outbox[s] = <<Bye>> /\ written[s] = <<>>
    /\ conn' = [conn EXCEPT ![s] = "closed"]
    /\ outbox' = [outbox EXCEPT ![s] = <<>>]
    /\ written' = [written EXCEPT ![s] = <<Bye>>]
    /\ UNCHANGED <<peer, reading, lines, inChat, name, stuck>>

\* disconnectAfterWrite() finds everything before it written: disconnect().
Disconnect(s) ==
    /\ conn[s] = "open" /\ ~stuck[s]
    /\ outbox[s] # <<>> /\ Head(outbox[s]) = Bye
    /\ conn' = [conn EXCEPT ![s] = "closed"]
    /\ outbox' = [outbox EXCEPT ![s] = Tail(@)]
    /\ written' = [written EXCEPT ![s] = Append(@, Bye)]
    /\ UNCHANGED <<peer, reading, lines, inChat, name, stuck>>

\* The client leaves; what it sent before may still be unread.
ClientLeaves(s) ==
    /\ conn[s] = "open"
    /\ peer[s] = "open"
    /\ peer' = [peer EXCEPT ![s] = "closed"]
    /\ UNCHANGED <<conn, reading, lines, inChat, name, outbox, stuck, written>>

-----------------------------------------------------------------------------
(* Property.                                                               *)

\* Every session implements Outbox, which SessionWriter and Connection do in
\* detail: whatever the threads of the server do, a session is given single
\* lines, or a last line with the order to close, and they reach the wire in
\* the order in which they were given (Session.cpp:17-52).
OutboxOf(s) == INSTANCE Outbox WITH
    Lines <- Out \ {Bye},
    outbox <- outbox[s],
    written <- written[s],
    stuck <- stuck[s]

OutboxesSpec ==
    /\ \A s \in Sessions : OutboxOf(s)!Init
    /\ [][\A s \in Sessions :
            [OutboxOf(s)!Next]_<<outbox[s], written[s], stuck[s]>>]_sessionVars

=============================================================================
