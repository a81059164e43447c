------------------------------- MODULE Client -------------------------------
(***************************************************************************)
(* The client (client/src/client/Client.cpp) under its interface           *)
(* (ClientApplication.cpp): the interface thread shows a login, a register *)
(* or a chat layer, handles what the network thread put in the inbox, and  *)
(* is blocked while connect() waits for the network thread; the network    *)
(* thread runs the handlers of one socket, one read buffer and one write   *)
(* queue that are used again for every connection.                         *)
(*                                                                         *)
(* What the system does to the socket is apart from the handlers that hear *)
(* of it later: a connection is made (Establish) before the handler of     *)
(* async_connect runs, a line is written (Transmit) before that of         *)
(* async_write runs, and lines are received (Receive) before onRead takes  *)
(* the first of them.  No order is assumed between two handlers that are   *)
(* ready.  So the handlers of one connection may run, and start reads and  *)
(* writes, when m_Socket is already the next connection.                   *)
(*                                                                         *)
(* The server answers the join lines it is sent, and what it says          *)
(* otherwise is what the property Conversation of module Server says.      *)
(***************************************************************************)
EXTENDS Naturals, Sequences

CONSTANTS
    MaxConnects,    \* bound: calls of connect()
    MaxChats,       \* bound: chats the user sends
    MaxSays         \* bound: chats the server sends

ASSUME ClientAssumption ==
    /\ MaxConnects \in Nat
    /\ MaxChats \in Nat
    /\ MaxSays \in Nat

Connections == 1 .. MaxConnects

VARIABLES
    layer,      \* m_CurrentLayer
    popup,      \* does the login layer show why the user was sent back to it?
    inbox,      \* m_Inbox
    chats       \* ghost: chats the user has sent

uiVars == <<layer, popup, chats>>

VARIABLES
    gen,        \* calls of connect() so far: the number of the connection
    connecting, \* is connect() waiting?
    socket      \* m_Socket: "opening" in async_connect, "open" when connected,
                \* else "closed"

socketVars == <<gen, connecting, socket>>

VARIABLES
    posted,     \* handlers posted by send() and not yet run
    queue,      \* m_WriteQueue, with what remains to be written of its head
    writing,    \* the async_write: "none", "flight", or its handler is ready
                \* and the line was written ("done") or not ("failed")
    writeFailed \* ghost: has a write failed?

writeVars == <<queue, writing, writeFailed>>

VARIABLES
    buffer,     \* whole lines in m_ReadBuffer
    torn,       \* is there behind them the beginning of a line that the
                \* connection of now will not complete?
    reading,    \* is an async_read_until pending, or its handler ready with a line?
    failing     \* handlers of async_read_until that are ready with an error

readVars == <<buffer, torn, reading, failing>>

VARIABLES
    remote,     \* is the server's end of the connection open?
    phase,      \* what the server has told it: "new", "in" or "out"
    asked,      \* join lines it has not yet answered
    down,       \* lines on their way to the client
    says        \* ghost: chats the server has sent

serverVars == <<remote, phase, asked, down, says>>

VARIABLES
    sent,       \* the lines written to each connection
    left        \* ghost: the lines that were waiting when it was begun

VARIABLE fault
    \* "parse": a line was no JSON text, and the exception ends the program;
    \* "resolve": the resolver's exception ends it;
    \* "two_reads": a read is begun on a socket and a buffer that another one
    \* uses, which asio forbids

vars == <<uiVars, inbox, socketVars, posted, writeVars, readVars, serverVars, sent, left, fault>>

-----------------------------------------------------------------------------

\* "rest": what remains of a line whose beginning went to a connection before.
Line == [type : {"join", "picture", "chat", "rest"}, by : Connections]
Told == {"accept", "reject", "chat", "kick"}
Read == Told \cup {"garbage"}

TypeOK ==
    /\ layer \in {"login", "register", "chat"}
    /\ popup \in BOOLEAN
    /\ inbox \in Seq(Read)
    /\ chats \in 0 .. MaxChats
    /\ gen \in 0 .. MaxConnects
    /\ connecting \in BOOLEAN
    /\ socket \in {"closed", "opening", "open"}
    /\ posted \in Seq(Line)
    /\ queue \in Seq(Line)
    /\ writing \in {"none", "flight", "done", "failed"}
    /\ writeFailed \in BOOLEAN
    /\ buffer \in Seq(Read)
    /\ torn \in BOOLEAN
    /\ reading \in BOOLEAN
    /\ failing \in Nat
    /\ remote \in BOOLEAN
    /\ phase \in {"new", "in", "out"}
    /\ asked \in Nat
    /\ down \in Seq(Told)
    /\ says \in 0 .. MaxSays
    /\ sent \in [Connections -> Seq(Line)]
    /\ left \in [Connections -> Seq(Line)]
    /\ fault \in {"none", "parse", "resolve", "two_reads"}

Init ==
    /\ layer = "login"
    /\ popup = FALSE
    /\ inbox = <<>>
    /\ chats = 0
    /\ gen = 0
    /\ connecting = FALSE
    /\ socket = "closed"
    /\ posted = <<>>
    /\ queue = <<>>
    /\ writing = "none"
    /\ writeFailed = FALSE
    /\ buffer = <<>>
    /\ torn = FALSE
    /\ reading = FALSE
    /\ failing = 0
    /\ remote = FALSE
    /\ phase = "new"
    /\ asked = 0
    /\ down = <<>>
    /\ says = 0
    /\ sent = [g \in Connections |-> <<>>]
    /\ left = [g \in Connections |-> <<>>]
    /\ fault = "none"

-----------------------------------------------------------------------------
(* The interface thread, when it is not blocked in connect().              *)

Ui == fault = "none" /\ ~connecting

\* Where what the user sees is no popup that must be closed first.
FormShown == layer = "register" \/ (layer = "login" /\ ~popup)

\* resolver.resolve throws for a port that is none, and nothing catches it.
ResolveThrows ==
    /\ Ui /\ FormShown
    /\ fault' = "resolve"
    /\ UNCHANGED <<uiVars, inbox, socketVars, posted, writeVars, readVars, serverVars, sent, left>>

\* Lines of m_WriteQueue of which something remains to be written.
Unsent == IF writing = "done" THEN Tail(queue) ELSE queue

\* The async_write when the socket is closed under it: it fails, or a part of
\* its line has gone out and it goes on with the rest, on the new socket.
WriteCutOff ==
    \/ /\ writing = "flight"
       /\ writing' = "failed"
       /\ UNCHANGED queue
    \/ /\ writing = "flight" /\ socket = "open"
       /\ queue' = <<[Head(queue) EXCEPT !.type = "rest"]>> \o Tail(queue)
       /\ UNCHANGED writing
    \/ /\ writing # "flight"
       /\ UNCHANGED <<queue, writing>>

\* The async_read_until when the socket is closed under it.  With a line in the
\* buffer its handler is ready; without one it fails, or, where the beginning
\* of a line has come, may go on with the new socket.  A beginning that has
\* come stays in the buffer in each case.
ReadCutOff ==
    /\ torn' \in IF reading /\ down # <<>> THEN {torn, TRUE} ELSE {torn}
    /\ \/ /\ ~reading \/ buffer # <<>> \/ (socket = "open" /\ down # <<>> /\ torn')
          /\ UNCHANGED <<reading, failing>>
       \/ /\ reading /\ buffer = <<>>
          /\ reading' = FALSE
          /\ failing' = failing + 1
    /\ UNCHANGED buffer

\* The button "Connect" or "Register": Client::connect, up to the wait for the
\* promise.  async_connect closes the socket and opens it again.
Connect ==
    /\ Ui /\ FormShown
    /\ gen < MaxConnects
    /\ gen' = gen + 1
    /\ connecting' = TRUE
    /\ socket' = "opening"
    /\ WriteCutOff
    /\ ReadCutOff
    /\ left' = [left EXCEPT ![gen + 1] = Unsent' \o posted]
    /\ remote' = FALSE
    /\ phase' = "new"
    /\ asked' = 0
    /\ down' = <<>>
    /\ UNCHANGED <<uiVars, inbox, posted, writeFailed, says, sent, fault>>

\* Variant of ShowAnswer: a reject only opens the popup.
ShowAnswerQuietly(answer) ==
    /\ layer' = CASE answer = "accept" -> "chat"
                  [] answer = "kick" -> "login"
                  [] OTHER -> layer
    /\ popup' = (popup \/ answer \in {"reject", "kick"})

\* What onUpdate does with a line.
ShowAnswer(answer) ==
    /\ layer' = CASE answer = "accept" -> "chat"
                  [] answer \in {"reject", "kick"} -> "login"
                  [] OTHER -> layer
    /\ popup' = (popup \/ answer \in {"reject", "kick"})

\* One turn of the loop in ClientApplication::onUpdate.
OnUpdate ==
    /\ Ui
    /\ inbox # <<>>
    /\ inbox' = Tail(inbox)
    /\ ShowAnswer(Head(inbox))
    /\ fault' = IF Head(inbox) = "garbage" THEN "parse" ELSE "none"
    /\ UNCHANGED <<chats, socketVars, posted, writeVars, readVars, serverVars, sent, left>>

\* The user reads the popup, or changes between login and register.
ChangeForm ==
    /\ Ui
    /\ \/ layer = "login" /\ popup /\ popup' = FALSE /\ UNCHANGED layer
       \/ layer = "login" /\ ~popup /\ layer' = "register" /\ UNCHANGED popup
       \/ layer = "register" /\ layer' = "login" /\ UNCHANGED popup
    /\ UNCHANGED <<chats, inbox, socketVars, posted, writeVars, readVars>>
    /\ UNCHANGED <<serverVars, sent, left, fault>>

SendChat ==
    /\ Ui
    /\ layer = "chat"
    /\ chats < MaxChats
    /\ chats' = chats + 1
    /\ posted' = Append(posted, [type |-> "chat", by |-> gen])
    /\ UNCHANGED <<layer, popup, inbox, socketVars, writeVars, readVars>>
    /\ UNCHANGED <<serverVars, sent, left, fault>>

-----------------------------------------------------------------------------
(* The network: what the system does to the socket.                        *)

Running == fault = "none"

\* What the socket is asked for may fail: it is closed, or not yet connected, or
\* the server is gone.
Broken == socket # "open" \/ ~remote

\* The connection is made; the handler of async_connect has still to run.
Establish ==
    /\ Running
    /\ socket = "opening"
    /\ socket' = "open"
    /\ remote' = TRUE
    /\ UNCHANGED <<uiVars, inbox, gen, connecting, posted, writeVars, readVars>>
    /\ UNCHANGED <<phase, asked, down, says, sent, left, fault>>

\* A line is written.  Behind the back of a server that is gone it is lost.
Transmit ==
    /\ Running
    /\ writing = "flight" /\ socket = "open"
    /\ writing' = "done"
    /\ sent' = [sent EXCEPT ![gen] = Append(@, Head(queue))]
    /\ asked' = IF Head(queue).type = "join" THEN asked + 1 ELSE asked
    /\ UNCHANGED <<uiVars, inbox, socketVars, posted, queue, writeFailed, readVars>>
    /\ UNCHANGED <<remote, phase, down, says, left, fault>>

WriteEnds ==
    /\ Running
    /\ writing = "flight" /\ Broken
    /\ writing' = "failed"
    /\ UNCHANGED <<uiVars, inbox, socketVars, posted, queue, writeFailed, readVars>>
    /\ UNCHANGED <<serverVars, sent, left, fault>>

\* Lines as they are in the buffer: the first is glued to what a connection
\* before has left there.
Taken(lines) == IF torn THEN <<"garbage">> \o Tail(lines) ELSE lines

\* A read goes to the socket only when no line is in the buffer, and may bring
\* several.
Receive ==
    /\ Running
    /\ reading /\ buffer = <<>>
    /\ socket = "open"
    /\ \E n \in 1 .. Len(down) :
         /\ buffer' = Taken(SubSeq(down, 1, n))
         /\ down' = SubSeq(down, n + 1, Len(down))
    /\ torn' = FALSE
    /\ UNCHANGED <<uiVars, inbox, socketVars, posted, writeVars, reading, failing>>
    /\ UNCHANGED <<remote, phase, asked, says, sent, left, fault>>

\* The read fails, and where the server is gone perhaps lines are lost that were
\* on their way.
ReadEnds ==
    /\ Running
    /\ reading /\ buffer = <<>>
    /\ Broken
    /\ reading' = FALSE
    /\ failing' = failing + 1
    /\ torn' \in IF down # <<>> THEN {torn, TRUE} ELSE {torn}
    /\ UNCHANGED <<uiVars, inbox, socketVars, posted, writeVars, buffer>>
    /\ UNCHANGED <<serverVars, sent, left, fault>>

-----------------------------------------------------------------------------
(* The network thread: the handlers.                                       *)

\* Variant of RunPosted: the queue is looked at after the push.
RunPostedLate ==
    /\ Running
    /\ posted # <<>>
    /\ posted' = Tail(posted)
    /\ queue' = Append(queue, Head(posted))
    /\ writing' = IF queue' = <<>> THEN "flight" ELSE writing
    /\ UNCHANGED <<uiVars, inbox, socketVars, writeFailed, readVars>>
    /\ UNCHANGED <<serverVars, sent, left, fault>>

\* The handler posted by send().
RunPosted ==
    /\ Running
    /\ posted # <<>>
    /\ posted' = Tail(posted)
    /\ queue' = Append(queue, Head(posted))
    /\ writing' = IF queue = <<>> THEN "flight" ELSE writing
    /\ UNCHANGED <<uiVars, inbox, socketVars, writeFailed, readVars>>
    /\ UNCHANGED <<serverVars, sent, left, fault>>

\* The handler of onWrite without an error: the next write goes to whatever
\* m_Socket is now.
WriteDone ==
    /\ Running
    /\ writing = "done"
    /\ queue' = Tail(queue)
    /\ writing' = IF Tail(queue) = <<>> THEN "none" ELSE "flight"
    /\ UNCHANGED <<uiVars, inbox, socketVars, posted, writeFailed, readVars>>
    /\ UNCHANGED <<serverVars, sent, left, fault>>

\* The handler of onWrite with an error: the line stays in the queue, so that
\* no later send() finds it empty and starts a write.
WriteFails ==
    /\ Running
    /\ writing = "failed"
    /\ writing' = "none"
    /\ writeFailed' = TRUE
    /\ socket' = "closed"
    /\ UNCHANGED <<uiVars, inbox, gen, connecting, posted, queue, readVars>>
    /\ UNCHANGED <<serverVars, sent, left, fault>>

\* Variant of ReadLine: what has come of the line behind it, if anything, is
\* taken for a line too.
ReadLineEager ==
    /\ Running
    /\ reading /\ buffer # <<>>
    /\ \E rest \in {<<>>} \cup {<<"garbage">> : more \in {l \in DOMAIN down : Len(buffer) = 1}} :
         inbox' = Append(inbox, Head(buffer)) \o rest
    /\ buffer' = Tail(buffer)
    /\ UNCHANGED <<uiVars, socketVars, posted, writeVars, torn, reading, failing>>
    /\ UNCHANGED <<serverVars, sent, left, fault>>

\* The handler of onRead without an error: one line, and the next read.
ReadLine ==
    /\ Running
    /\ reading /\ buffer # <<>>
    /\ inbox' = Append(inbox, Head(buffer))
    /\ buffer' = Tail(buffer)
    /\ UNCHANGED <<uiVars, socketVars, posted, writeVars, torn, reading, failing>>
    /\ UNCHANGED <<serverVars, sent, left, fault>>

\* The handler of onRead with an error closes m_Socket, whatever it is by now.
ReadFails ==
    /\ Running
    /\ failing > 0
    /\ failing' = failing - 1
    /\ socket' = "closed"
    /\ UNCHANGED <<uiVars, inbox, gen, connecting, posted, writeVars, buffer, torn, reading>>
    /\ UNCHANGED <<serverVars, sent, left, fault>>

\* Variant of OnJoin: the picture goes ahead.
OnJoinSwapped == <<[type |-> "picture", by |-> gen], [type |-> "join", by |-> gen]>>

\* onJoin: the lines that are posted first.
OnJoin == <<[type |-> "join", by |-> gen], [type |-> "picture", by |-> gen]>>

\* The handler of async_connect without an error.
Connected ==
    /\ socket = "open"
    /\ posted' = posted \o OnJoin
    /\ reading' = TRUE
    /\ fault' = IF reading THEN "two_reads" ELSE "none"
    /\ UNCHANGED socket

\* With one: a handler has closed the socket, or there is no server.
NotConnected ==
    /\ Broken
    /\ socket' = "closed"
    /\ UNCHANGED <<posted, reading, fault>>

\* Variant of ConnectDone: the promise is not set after an error.
ConnectDoneQuietly ==
    /\ Running
    /\ connecting
    /\ connecting' = FALSE
    /\ Connected
    /\ UNCHANGED <<uiVars, inbox, gen, writeVars, buffer, torn, failing, serverVars, sent, left>>

\* The handler of async_connect sets the promise, and connect() returns.
ConnectDone ==
    /\ Running
    /\ connecting
    /\ connecting' = FALSE
    /\ Connected \/ NotConnected
    /\ UNCHANGED <<uiVars, inbox, gen, writeVars, buffer, torn, failing, serverVars, sent, left>>

Network ==
    \/ Establish
    \/ Transmit
    \/ WriteEnds
    \/ Receive
    \/ ReadEnds
    \/ RunPosted
    \/ WriteDone
    \/ WriteFails
    \/ ReadLine
    \/ ReadFails
    \/ ConnectDone

-----------------------------------------------------------------------------
(* The server's end of the connection.                                     *)

Tell(line) == down' = Append(down, line)

\* A join line is answered; after a reject the connection is closed.
Answer ==
    /\ Running
    /\ remote /\ asked > 0
    /\ asked' = asked - 1
    /\ \/ Tell("accept") /\ phase' = "in" /\ UNCHANGED remote
       \/ Tell("reject") /\ phase' = "out" /\ remote' = FALSE
    /\ UNCHANGED <<uiVars, inbox, socketVars, posted, writeVars, readVars, says, sent, left, fault>>

\* A member hears a chat, or is kicked.
Say ==
    /\ Running
    /\ remote /\ phase = "in"
    /\ \/ says < MaxSays /\ says' = says + 1 /\ Tell("chat") /\ UNCHANGED <<phase, remote>>
       \/ Tell("kick") /\ phase' = "out" /\ remote' = FALSE /\ UNCHANGED says
    /\ UNCHANGED <<uiVars, inbox, socketVars, posted, writeVars, readVars, asked, sent, left, fault>>

\* The server ends, or the connection breaks.
Vanish ==
    /\ Running
    /\ remote
    /\ remote' = FALSE
    /\ UNCHANGED <<uiVars, inbox, socketVars, posted, writeVars, readVars>>
    /\ UNCHANGED <<phase, asked, down, says, sent, left, fault>>

Next ==
    \/ ResolveThrows
    \/ Connect
    \/ OnUpdate
    \/ ChangeForm
    \/ SendChat
    \/ Network
    \/ Answer
    \/ Say
    \/ Vanish

Spec == Init /\ [][Next]_vars

\* The system goes on with what the socket is asked for, and the network thread
\* runs the handlers that are ready; nothing is assumed of the user or of the
\* server.
FairSpec == Spec /\ WF_vars(Network)

-----------------------------------------------------------------------------
(* Properties.                                                             *)

\* What was waiting when connection g was begun, and then its own join line, its
\* own picture line and chats of its own.
Carries(g, lines) ==
    \A i \in DOMAIN lines :
        LET own == i - Len(left[g])
        IN  IF i <= Len(left[g]) THEN lines[i] = left[g][i]
            ELSE /\ lines[i].by = g
                 /\ lines[i].type = CASE own = 1 -> "join" [] own = 2 -> "picture" [] OTHER -> "chat"

\* The write queue survives a reconnect (Client.cpp:118), and handlers of the
\* connection before may find the new one in m_Socket.  Still a connection
\* carries first what was waiting when it was begun, in its order and each line
\* once, and then its own lines.
OwnLinesInOrder == \A g \in Connections : Carries(g, sent[g])

\* Once all that the server said on the connection is handled, the chat layer
\* is shown to a member, and to nobody that was rejected or kicked, whatever
\* an earlier connection has still put in the buffer or in the inbox.
ShownAnswerIsLatest ==
    (inbox = <<>> /\ buffer = <<>> /\ down = <<>> /\ fault = "none" /\ phase # "new")
        => (layer = "chat" <=> phase = "in")

\* On the first connection no line is taken for something it is not, and never
\* are two reads begun: both need what an earlier connection has left, bytes
\* in m_ReadBuffer or a read that goes on with the new socket.
FaultsNeedReconnect == fault \in {"parse", "two_reads"} => gen > 1

\* The interface thread, which is blocked in connect(), goes on.
ConnectReturns == connecting ~> ~connecting

\* The join line of a connection goes out, unless a write failed at some time
\* before: then none ever will.
EveryJoinSent ==
    \A g \in Connections :
        (gen = g /\ ~connecting /\ socket = "open")
            ~> (Len(sent[g]) > Len(left[g]) \/ gen # g \/ socket # "open"
                  \/ writeFailed \/ fault # "none")

=============================================================================
