---------------------------- MODULE Connection ----------------------------
(***************************************************************************)
(* One connection of the server as its bytes: the reader (start, onRead    *)
(* and handleMessage in server/src/session/Session.cpp) and, by module     *)
(* SessionWriter, the writer, on one socket and one network thread.        *)
(*                                                                         *)
(* TCP delivers the bytes of the client in order and cut anywhere.         *)
(* async_read_until completes as soon as m_Buffer holds a newline; what it *)
(* read behind that newline stays in m_Buffer, and handleMessage takes     *)
(* lines out of it with getline until it is empty, the unfinished rest     *)
(* included.  A client that pipelines is no stranger: Client::onJoin of    *)
(* this repository sends its picture right behind its join line.           *)
(***************************************************************************)
EXTENDS SessionWriter, FiniteSets

CONSTANT MaxLines       \* bound: lines the client sends

ASSUME ReaderAssumption == MaxLines \in Nat

VARIABLES
    lines,      \* ghost: the lines the client has sent, numbered from 1
    bytes,      \* ghost: its bytes that arrive, now or later
    peer,       \* the client has its end of the connection open
    received,   \* bytes put into m_Buffer so far
    taken,      \* bytes taken out of it
    read,       \* async_read_until and its handler: see TypeOK
    handled,    \* ghost: the lines Message::deserialize was given
    told,       \* m_OnDisconnectCallback has been called
    pipelined,  \* ghost: a line was sent before the one before was handled
    timedOut,   \* ghost: a read ended with another error
    crashed     \* deserialize threw: nothing catches it, the process ends

readerVars == <<lines, bytes, peer, received, taken, read, handled, told,
                pipelined, timedOut, crashed>>
connectionVars == <<vars, readerVars>>

ReaderTypeOK ==
    /\ lines \in 0 .. MaxLines
    /\ bytes \in Nat /\ received \in Nat /\ taken \in Nat
    /\ taken <= received /\ received <= bytes
    /\ peer \in BOOLEAN
       \* waiting for bytes, to be run, in handleMessage, or over
    /\ read \in {"pending", "ready", "handling", "ended"}
    /\ handled \in Seq(1 .. MaxLines)
    /\ told \in BOOLEAN
    /\ pipelined \in BOOLEAN
    /\ timedOut \in BOOLEAN
    /\ crashed \in BOOLEAN

ReaderInit ==
    /\ lines = 0
    /\ bytes = 0
    /\ peer = TRUE
    /\ received = 0
    /\ taken = 0
    /\ read = "pending"
    /\ handled = <<>>
    /\ told = FALSE
    /\ pipelined = FALSE
    /\ timedOut = FALSE
    /\ crashed = FALSE

-----------------------------------------------------------------------------
(* The bytes of a line: the beginning and the end of its text, which can   *)
(* be parsed only together, and the newline.                               *)

LineSize == 3
Newline(n) == LineSize * n
Text(n) == Newline(n) - 2 .. Newline(n) - 1
Newlines == {Newline(n) : n \in 1 .. lines}

\* What m_Buffer holds.
Buffer == taken + 1 .. received

-----------------------------------------------------------------------------
(* The client, seen from the server.                                       *)

ClientSends ==
    /\ peer
    /\ lines < MaxLines
    /\ lines' = lines + 1
    /\ bytes' = bytes + LineSize
    /\ pipelined' = (pipelined \/ Len(handled) < lines)
    /\ UNCHANGED <<peer, received, taken, read, handled, told, timedOut, crashed>>

\* The connection is closed or reset: of what is on its way, any part arrives.
ClientLeaves ==
    /\ peer
    /\ peer' = FALSE
    /\ bytes' \in received .. bytes
    /\ UNCHANGED <<lines, received, taken, read, handled, told, pipelined,
                   timedOut, crashed>>

-----------------------------------------------------------------------------
(* The network thread.                                                     *)

\* Variant of Receive: async_read_some, which completes with whatever there is.
ReceiveSome ==
    /\ read = "pending" /\ open
    /\ received' \in received + 1 .. bytes
    /\ read' = "ready"
    /\ UNCHANGED <<lines, bytes, peer, taken, handled, told, pipelined, timedOut,
                   crashed>>

\* Some bytes arrive; with a newline among them async_read_until is complete.
Receive ==
    /\ read = "pending" /\ open
    /\ received' \in received + 1 .. bytes
    /\ read' = IF (taken + 1 .. received') \cap Newlines # {} THEN "ready" ELSE read
    /\ UNCHANGED <<lines, bytes, peer, taken, handled, told, pipelined, timedOut,
                   crashed>>

\* The handler of async_read_until, without an error, enters handleMessage.
RunRead ==
    /\ read = "ready"
    /\ read' = "handling"
    /\ UNCHANGED <<lines, bytes, peer, received, taken, handled, told, pipelined,
                   timedOut, crashed>>

\* getline takes the text up to the next newline, and drops that, or takes all
\* there is.
Unread == Buffer \cap Newlines
LineEnd(end) ==
    IF Unread = {} THEN end = received
    ELSE end \in Unread /\ \A other \in Unread : end <= other
TextTo(end) == taken + 1 .. IF end \in Newlines THEN end - 1 ELSE end

\* Variant of HandleLine: text that cannot be parsed is passed over.
HandleLineOrSkip ==
    /\ read = "handling"
    /\ \E end \in Buffer :
        /\ LineEnd(end)
        /\ taken' = end
        /\ \/ \E n \in 1 .. lines :
                /\ TextTo(end) = Text(n)
                /\ handled' = Append(handled, n)
           \/ /\ \A n \in 1 .. lines : TextTo(end) # Text(n)
              /\ UNCHANGED handled
    /\ UNCHANGED <<lines, bytes, peer, received, read, told, pipelined, timedOut,
                   crashed>>

\* One round of the loop in handleMessage: a whole text is a message, anything
\* else (an empty one too) makes deserialize throw.
HandleLine ==
    /\ read = "handling"
    /\ \E end \in Buffer :
        /\ LineEnd(end)
        /\ taken' = end
        /\ \/ \E n \in 1 .. lines :
                /\ TextTo(end) = Text(n)
                /\ handled' = Append(handled, n)
                /\ UNCHANGED crashed
           \/ /\ \A n \in 1 .. lines : TextTo(end) # Text(n)
              /\ crashed' = TRUE
              /\ UNCHANGED handled
    /\ UNCHANGED <<lines, bytes, peer, received, read, told, pipelined, timedOut>>

\* The end of the loop, and onRead for the next line.
ReadAgain ==
    /\ read = "handling"
    /\ Buffer = {}
    /\ read' = "pending"
    /\ UNCHANGED <<lines, bytes, peer, received, taken, handled, told, pipelined,
                   timedOut, crashed>>

\* Variant of ReadEnds: nobody is told.
ReadEndsQuietly ==
    /\ read = "pending" /\ open
    /\ ~peer /\ received = bytes
    /\ read' = "ended"
    /\ UNCHANGED <<lines, bytes, peer, received, taken, handled, told, pipelined,
                   timedOut, crashed>>

\* The handler, with eof or connection_reset.
ReadEnds ==
    /\ read = "pending" /\ open
    /\ ~peer /\ received = bytes
    /\ read' = "ended"
    /\ told' = TRUE
    /\ UNCHANGED <<lines, bytes, peer, received, taken, handled, pipelined,
                   timedOut, crashed>>

\* The handler, with operation_aborted or bad_descriptor: the socket is closed.
ReadAborted ==
    /\ read = "pending" /\ ~open
    /\ read' = "ended"
    /\ UNCHANGED <<lines, bytes, peer, received, taken, handled, told, pipelined,
                   timedOut, crashed>>

\* The handler, with another error (a timeout of the connection).
ReadTimesOut ==
    /\ read = "pending" /\ open
    /\ read' = "ended"
    /\ timedOut' = TRUE
    /\ UNCHANGED <<lines, bytes, peer, received, taken, handled, told, pipelined,
                   crashed>>

ReadHandlers == RunRead \/ HandleLine \/ ReadAgain \/ ReadEnds \/ ReadAborted

-----------------------------------------------------------------------------
(* Both together.  The handlers of the writer wait while handleMessage is  *)
(* at work: one thread runs the io_context.  Other threads call meanwhile. *)

Calls == (\E line \in Lines : Send(line)) \/ DisconnectAfterWrite

WriterStep ==
    /\ ~crashed
    /\ Calls \/ (read # "handling" /\ Handlers)
    /\ UNCHANGED readerVars

ReaderStep ==
    /\ ~crashed
    /\ ClientSends \/ ClientLeaves \/ Receive \/ ReadHandlers \/ ReadTimesOut
    /\ UNCHANGED vars

ConnectionInit == Init /\ ReaderInit

ConnectionNext == WriterStep \/ ReaderStep

ConnectionSpec == ConnectionInit /\ [][ConnectionNext]_connectionVars

\* Bytes arrive, a write completes or fails, and the thread runs what is ready.
FairConnectionSpec ==
    /\ ConnectionSpec
    /\ WF_connectionVars(~crashed /\ Receive /\ UNCHANGED vars)
    /\ WF_connectionVars(~crashed /\ ReadHandlers /\ UNCHANGED vars)
    /\ WF_connectionVars(~crashed /\ read # "handling" /\ Handlers /\ UNCHANGED readerVars)

-----------------------------------------------------------------------------
(* Properties.                                                             *)

\* Message::deserialize is given the lines of the client in the order in which
\* they were sent, none twice and none left out, however TCP cuts them
\* (Session.cpp:79-95 and 114-149).
HandledInOrder ==
    /\ Len(handled) <= lines
    /\ \A i \in 1 .. Len(handled) : handled[i] = i

\* The loop of handleMessage takes part of a line for a line only if a client
\* sends one before the server has handled the one before (Session.cpp:122):
\* a client that waits does not end the server.
CrashNeedsPipelining == crashed => pipelined

\* What is sent is written, and the connection closed when told so, unless a
\* write fails (Session.cpp:26-55 and 97-112).
SentIsWritten ==
    /\ posted # <<>> ~> (failed \/ crashed \/ (posted = <<>> /\ queue = <<>>))
    /\ leaving ~> (failed \/ crashed \/ ~open)

\* Each line of a client that stays is handled, and when the client is gone its
\* session is told, unless the server closed the connection itself or a read
\* ended with another error (Session.cpp:79-95).
ReaderGoesOn ==
    /\ Len(handled) < lines
        ~> (Len(handled) = lines \/ ~peer \/ ~open \/ timedOut \/ crashed)
    /\ ~peer ~> (told \/ ~open \/ timedOut \/ crashed)

=============================================================================
