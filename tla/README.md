# A verification project for sLink

sLink is a chat program: a server process with a window for its administrator
and any number of client processes with a window for their users, over TCP.
This directory holds TLA+ models of its logic, TLC configurations that check
them on small instances, and proofs, checked by TLAPS, of what matters most for
every value of the constants. Paths below are relative to `src/`.

To check a module: `tlc -config MCSafeQueue.cfg SafeQueue.tla`; the table of
runs says which module goes with which configuration. To check the proofs:
`tlapm SafeQueueProofs.tla`.

## 1. The system

### Threads

| process | thread | runs |
|---|---|---|
| server | interface | `Application::run`: poll events, `ServerApplication::onUpdate` (which calls `Server::update`), render |
| server | network | `io_context::run`: the accept handler and the handlers of every `Session` |
| server | database | `Database::run`: takes requests off a queue, answers on another |
| client | interface | `Application::run`: poll events, `ClientApplication::onUpdate`, render; blocked while `Client::connect` waits |
| client | network | `io_context::run`: the handlers of `Client` |
| client | file dialog | one detached thread for each click on the picture: `FileExplorer::open` |
| both | GPU | executes what `Renderer::renderFrame` submits, and presents |

### Components

**SafeQueue** (`common/utility/safe_queue/SafeQueue.h`). A queue, a mutex and a
condition variable; `push`, `tryPop`, `waitAndPop`. All data passed between
threads by value goes through one. *Hard:* `push` notifies after it has
released the mutex. *Correct when:* it is a FIFO queue and no waiter sleeps for
ever while there is something to take.

**Database** (`server/src/database/`). The three tables, a request queue on
which it blocks, a response queue. Operations: `start`, `close`, the
`request...` functions, and a handler for each of the six requests. *Hard:*
answers carry no identity of their request; registration is a lookup followed
by an insert, in a schema without UNIQUE; statements fail; stopping is one more
request. *Correct when:* a name has one account with one password; each join is
answered once, in order; a stop loses no login, registration, chat or picture
that was handed over before it.

**Session** (`server/src/session/`). One per connection: a read loop, a write
queue, the flag `m_ShouldDisconnectAfterWrite`. Operations: `start`, `send`,
`disconnectAfterWrite`, `disconnect`, the read and write handlers. `send` and
`disconnectAfterWrite` are called on any thread and post to the network thread.
*Hard:* one `async_write` at a time; closing behind queued writes; errors in
the middle; TCP cuts the client's lines anywhere, and `m_Buffer` may hold the
beginning of a line behind the end of another. *Correct when:* lines reach the
wire in the order of the calls and the socket closes behind the last; the lines
of the client are handled in order and once, and its end is told.

**Server** (`server/src/server/`). `m_Sessions`, `m_PendingSessions`, the
inbox, two queues of names for the panel. The network thread enters it through
the callbacks of the sessions, the interface thread through `update` and
`kickUser`. *Hard:* the answer to a join takes a way over three threads and is
matched with its session by user name; every list is accessed from two threads,
under a mutex on one of them only; the panel is told of names, not of
connections. *Correct when:* what each client is told makes a sensible
conversation; a user is connected once; chats are heard and stored in one order;
the panel shows who is connected.

**ServerApplication and the panel of active users**
(`server/src/server_application/`, `server/src/ui/components/active_clients/`).
The frame, the names shown, the kick popup that keeps a name across frames; the
threads of the process, which the destructor and the order of the members stop,
join and destroy. *Correct when:* the process ends, the database serves what it
was asked before, and no thread outlives what it uses.

**Client and ClientApplication** (`client/src/client/`,
`client/src/client_application/`). One socket, one read buffer and one write
queue, used again for every connection; the layer that is shown; an inbox of
lines. *Hard:* handlers of the connection before run when the next one is being
made, or is made already; the interface thread waits for the network thread; a
failed write. *Correct when:* what a connection carries can be told from what was
waiting when it was begun and what the user does on it, what is shown is what
the server said last, and the interface never hangs.

**Profile pictures** (`common/profile_picture/`, `common/utility/base64/`,
`common/utility/file_explorer/`, parts of `ClientApplication`, `Renderer` and the
panels). A picture is chosen in a file dialog, loaded, sent in base64 and put
into a texture; the renderer keeps one texture for the user and one for each
other user, the panels and the chat window keep ids of them. *Hard:* a new
picture destroys the texture of the one before while ids of it are kept and
frames in flight may read it; the dialog runs on detached threads. *Correct when:*
a frame draws live pictures beside whom they belong to, there is one dialog at a
time, and a picture arrives as it was sent.

**Application, Window and Renderer** (`common/application/`, `common/window/`,
`common/renderer/`). The loop of both programs, and per frame in flight a fence,
a semaphore and two command buffers, per image of the swapchain a semaphore.
*Hard:* the GPU lags behind by up to two frames; the swapchain is replaced after
a resize; a fence is waited for without a timeout. *Correct when:* the loop and
the GPU never use the same thing at once and frames go on.

**Protocol and Message** (`common/protocol/`, `common/message/`): the commands
and what a line carries. **Others:** User, PasswordHasher, Timestamp, UIBackend
and the other panels, Sound. What is not modelled, and why, is in section 7 and in
`PROJECT.json`.

### How they interact

A client's join line is read by its session on the network thread
(`Server::onAccept`), which puts the session in `m_PendingSessions` under the
user's name and pushes a request for the database. The database thread answers
on its response queue. The interface thread takes the answer in its next frame,
looks the session up by name, rejects it or (`isUserConnected`,
`onClientAccept`) makes it a member, and pushes picture requests for it and the
other members. Chats go from the network thread through the inbox to the
interface thread, which sends them to all members and pushes them on the request
queue. The end of a connection is handled on the network thread
(`onClientDisconnected`) and reaches the panel through a queue of names.

## 2. The modules

| module | what it is | code |
|---|---|---|
| `Protocol` | lines and the constants they are made of | `Command.h`, `Message.h` |
| `SafeQueue` | the queue, step by step over mutex and condition variable | `SafeQueue.h` |
| `Fifo` | abstract: a FIFO queue | |
| `SessionWriter` | `send`, `disconnectAfterWrite` and `onWrite` of one session, with the posted handlers and the write in flight | `Session.cpp` 17-52, 97-112 |
| `Outbox` | abstract: lines in order, then the end of the connection; `SessionWriter`, `Connection` and each session of `Session` implement it | |
| `Connection` | one connection as its bytes: the reader, composed with `SessionWriter` on one thread | `Session.cpp` 12-24, 79-152 |
| `Session` | all sessions as the server sees them: read loop, outbox, errors, the client's end | `Session.cpp` |
| `Database` | the database thread as steps on its queues and tables | `Database.cpp` |
| `DatabaseService` | `Database` with arbitrary callers, `close()` and restarts | |
| `Teardown` | `DatabaseService` with the threads that call it, and the end of the process | `ServerApplication.cpp` 5-28, `ServerApplication.h` 43-51 |
| `Accounts` | abstract: an account book, which the table users implements | |
| `Server` | `Database` and `Session` composed with the server, the interface thread and the panel | `Server.cpp`, `ServerApplication.cpp`, `UIActiveClients.cpp` |
| `ChatRoom` | abstract: who is in the room hears everything in one order | |
| `Client` | the client's interface and network threads over several connections | `Client.cpp`, `ClientApplication.cpp`, `UIClientLogin.cpp` |
| `Frames` | the loop, the frame's synchronisation, the GPU and the presentation | `Application.cpp`, `Window.cpp`, `Renderer.cpp` |
| `FileDialog` | the file dialog and its detached threads | `FileExplorer.cpp` |
| `Textures` | `FileDialog` composed with the client's pictures: textures, the ids kept of them, and the frames that read them | `ClientApplication.cpp`, `Renderer.cpp` 1057-1064 and 1359-1405, the panels |
| `PicturePath` | base64 and the levels of an image, step by step | `Base64.cpp`, `Renderer.cpp` 550-597, 689-704, 959-1055, 1094-1140 |
| `MCDatabase`, `MCServer` | values for the runs | |
| `DatabaseLemmas`, and `...Proofs` for `SafeQueue`, `SessionWriter`, `Database`, `Server`, `Client`, `Frames`, and `PicturesProofs` for `Textures` and `PicturePath` | lemmas and proofs (section 6) | |

`PROJECT.json` maps every definition to its lines. Variables have the name of
the member they stand for, or say it in their comment; variables called *ghost*
only record the past, so that properties can speak of it.

**Steps and atomicity.** In `SafeQueue` a step is a lock, an unlock or what is
done in between. In the other modules an operation of a queue is atomic, as
`SafeQueue` refines `Fifo`. In `Server` a step of the interface thread is one
critical section with what follows it up to the next; a handler of the network
thread is one step, but for `onClientDisconnected`, whose access to
`m_Sessions` and whose push of the name are two. In `Session` the writer is one
sequence: `SessionWriter` and `Connection` implement `Outbox`, and so does every
session of `Server` (`SessionsAreOutboxes`, section 6), so that the detail and
its abstraction make one promise. The reader takes whole lines, as `Connection`
shows it to do.

**Bytes.** In `Connection` a line is three bytes: two of text, which can be parsed
only together, and the newline; that is the least that has a beginning, an end
and a place to cut between any two. Bytes arrive in any portions. The read completes
as soon as there is a newline, and asio reads no more until the next
`async_read_until`; everything in `m_Buffer`, the beginning of a further line
included, goes through the loop of `handleMessage`.

**The end of the process.** In `Teardown` every step of `~ServerApplication` and of
the destruction of the members is a step of the interface thread: `stop()` of the
io_context, which does not wait for a handler that runs; `close()`; `~jthread` of
`m_DbThread`, which waits; `~Database`; `~jthread` of `m_NetworkThread`, which
waits. A call made by a handler after `~Database` is undefined behaviour (`fault`),
and the model stops there. The process may end, or die, at any moment and start
again on the same file.

**Textures.** Textures are numbered as they are created; an id is the number of
its texture, `NoId`, or `NullId` for a descriptor made of no texture. `Live` says
whether an id is one of a texture that is not destroyed yet. What a frame reads
goes to `gpu` when it is submitted. The server is taken to accept, reject, kick
and send as the properties of `Server` say, and answers of an earlier connection
(module `Client`) are left out. The ids of the panels are never read before they
are set: `m_ProfilePictureTextureID` has no initializer, but the layers are made
by `make_shared<...>()`, which zeroes them.

**Undefined behaviour.** The network thread writes `m_PendingSessions` and
`m_Sessions` without the mutex that the interface thread holds; a database
answer may find no session; a kick may find no session. The variable `fault` of
`Server` records the first of these and the model stops there: what the program
does next is not defined. The properties of `Server` say what holds until then,
and those about `fault` say under what conditions it comes to that. In `Frames`
the misuse of a semaphore is treated in the same way; in `Client`, `fault`
stands for a second `async_read_until` on a socket and a buffer that another one
uses (`two_reads`), and for the exceptions that nobody catches: of
`Message::deserialize` (`parse`) and of the resolver (`resolve`).

**Client.** What the operating system does to the socket and the handler that
hears of it are two steps: `Establish` and `ConnectDone`, `Transmit` or
`WriteEnds` and `WriteDone` or `WriteFails`, `Receive` or `ReadEnds` and
`ReadLine` or `ReadFails`. No order is assumed between two handlers that are ready.
Asio does not ask whether a socket is connected; so a handler of the connection
before that runs between `Establish` and `ConnectDone`, or after it, starts its
next read or write on the new connection and finds it in `m_Socket` when it
closes the socket. Each handler is one step: the next line in `m_ReadBuffer` has a
handler of its own, and others may run in between. `connect()` up to its wait is
one step too: `async_connect` closes the socket and opens it again, and a read or a
write that is pending fails then, or, where a part of its line has come or gone,
may go on with the rest on the new socket (`ReadCutOff`, `WriteCutOff`).
`socket` is "closed" when it is not connected, whether or not it has a
descriptor; of the endpoints that a host may resolve to there is one. `torn` says
that `m_ReadBuffer` ends with the beginning of a line that will not be completed. The
server's end of the connection answers each join line it is sent, is free
otherwise to do all that `Conversation`, checked on `Server`, says of it, and to
vanish.

**What a client may send.** `Server` takes each connection to send one join line, one
picture line and then chats. `Client` shows when that is so: when the write queue was
empty as the connection was begun (`OwnLinesInOrder` with nothing in `left`). A
client that left another connection with lines unwritten may send these first; what
the server does with them is not modelled.

**Frames.** A resize, which makes the swapchain suboptimal or out of date, comes
with the callback of GLFW while events are polled. A step of the loop is one
Vulkan call with the code up to the next. The GPU executes submissions in order,
each when its image is available; a present waits for its semaphore and gives
back the image shown before.

**Variants.** Many definitions stand next to a *variant*: the same code with
one plausible bug (a dropped guard, a swapped order, a missing notification).
Nothing uses the variants; `PROJECT.json` pairs each property with a variant that
breaks it, which shows that the property could fail.

## 3. Runs

Bounds are set in the configurations. All the runs that pass explore their whole
state space.

| run | module | distinct states | question |
|---|---|---|---|
| `MCSafeQueue` | SafeQueue | 4 322 | Is the queue FIFO, and is no wakeup lost? |
| `MCConnection` | Connection | 75 621 | Are lines handled once and in order however they are cut, do writes never overlap, does the socket close behind the last line, and do both ways go on? |
| `MCDatabase` | MCDatabase | 133 505 | Are joins answered once and in order, does an account keep its password when lookups fail, does the process end, and is nothing lost or used too late then? |
| `MCJoin` | MCServer | 1 096 274 | Do names stay unique, who becomes a member, what is each client told, when is behaviour undefined? |
| `MCChat` | MCServer | 1 440 602 | Do members hear chats in one order, and are they stored in that order? |
| `MCPictures` | MCServer | 2 443 817 | Do pictures arrive? |
| `MCLive` | MCServer | 50 432 | Is everybody who asks answered, and is everybody told goodbye disconnected? |
| `MCClient` | Client | 603 713 | What does each server hear, what is shown, does `connect()` return? |
| `MCFrames` | Frames | 57 799 | Do the loop and the GPU keep out of each other's way, and do frames go on? |
| `MCTextures` | Textures | 1 881 294 | Is there one dialog, does every frame draw live pictures beside whom they belong to, and is none destroyed in use? |
| `MCPicturePath` | PicturePath | 359 622 | Does a picture come out of base64 as it went in, and is every level of its image filled and readable? |
| `MCPanel` | MCServer | (violation) | Does the panel show the users with a connection, and no others? |

### What they show

* **The queue.** `NoLostWakeup`, `FifoSpec`, `EverythingTaken` hold with two
  producers, two waiters, one poller and spurious wakeups. Notifying outside of
  the mutex is safe because a waiter tests the queue under it.
* **The connection.** `OneWriteAtATime`, `OutboxSpec`, `SentIsWritten`: the test
  for an empty queue is enough to keep writes apart, and
  `m_ShouldDisconnectAfterWrite` closes neither too early nor never, unless a
  write fails. `HandledInOrder`: however the bytes are cut, lines are handled in
  order, once each. `CrashNeedsPipelining` names the one exception to the rule
  that a line is a line: when a client sends one before the one before was
  handled, the beginning of the second may be taken for a line, and the
  exception of `deserialize`, which nobody catches, ends the process. A client
  that waits is safe; `Client::onJoin` of this repository does not wait: it sends
  the picture, a line of about 22 000 characters, right behind the join line, so
  that this depends on how TCP cuts the two. `ReaderGoesOn`: a line is
  handled, and the end of a client is told, unless the server closed the
  connection itself or a read ended with an error that `onRead` ignores.
* **The database.** `UniqueUsernames`, checked where two connections register,
  holds as long as no lookup fails: `getUserId` reads a failure as "not found",
  and then a registration adds a second row. `AccountsSpec` shows that this does
  not matter to logins, which read the first row. `AnsweredInOrder` and
  `EveryJoinAnswered` hold across failures and restarts.
* **The end of the server.** `StopDrainsQueue`, `TeardownEnds`: the database serves
  each login, registration, chat and picture that it was handed over before
  `close()`, and the process ends. The exception is a picture without pixels, which
  the thread puts into the queue again as a question (`Database.cpp:54`): behind
  the order to stop it is lost, with nobody left to hear an answer.
  `OnlyBusyStopHarms`: the thread is over before the database is destroyed; a
  handler of the network thread can use it afterwards, or lose such a request,
  only if it was running when the io_context was stopped, since `stop()` does not
  wait and `m_NetworkThread` is declared before `m_Database`.
* **Joining.** `OneSessionPerUser` holds although the test and the insertion are
  two critical sections, because only the interface thread inserts.
  `Conversation`, `MembersAreAccepted` hold: an answer comes first and once, and
  nothing after the goodbye. `AnswersFindAskers` holds with its condition only:
  when two connections ask under one name before the first is answered, the
  second takes the answer of the first, and its own answer meets a null session.
  `KickMissesOnlyDeparted` says that the kick popup dereferences `end()` only where
  the last connection that was let in under the name ended by itself: not after a
  kick, and not on account of a connection that was refused under the name. That it
  can is because the panel and the popup keep names across frames: an end of file
  behind the drained queues of a frame leaves the name there.
* **Chatting.** `ChatRoomSpec` and `SavedAsSaid` hold: what members hear is one
  log, and the table holds that log.
* **Pictures.** `PicturesArrive` holds with its condition: a picture uploaded
  after its owner was accepted does not reach those who are there already.
  `PictureComesOut` holds although `val` overflows, since the bits that are
  still to be written survive.
* **Textures.** `GpuReadsLive`: destroying a texture waits for the device, so that
  no frame in flight reads it; this is enough whatever ids are kept.
  `FramesDrawRight`: the login and register panels always show a live picture;
  the chat window does so for all other users, and for the user unless a
  file was loaded after the click that joined (the dialog may still be open
  then), more than one name was tried, or a picture could be read but not
  resized. In these cases it keeps an id of a texture that is gone or never was,
  or shows the user's picture beside another. `DialogOnce` holds although the
  flag is written outside of its mutex.
* **Liveness.** `EveryAskAnswered` and `GoodbyeCloses` hold, with undefined
  behaviour and failed writes as the named exceptions.
* **The client.** `OwnLinesInOrder`: a connection carries what was waiting in the write
  queue when it was begun, each line once and in its order, and then its own join
  line, picture line and chats, wherever the handlers of the connection before run.
  So lines of an earlier connection may reach the next server ahead of the join
  line, the rest of a line that was cut off among them; nothing of this comes
  between the lines of the connection or behind them. After a failed write nothing
  is ever written again: that is the exception in `EveryJoinSent`.
  `ShownAnswerIsLatest` holds whatever the connection before has left in the inbox
  and the read buffer. `FaultsNeedReconnect`: only a reconnect can make a line that
  does not parse, or begin a second read beside one that is pending, and one can do
  both: the first where the beginning of a line was left in `m_ReadBuffer`, the
  second where the handler of a line left there starts the next read
  (`Client.cpp:141`) before the handler of `async_connect` starts another
  (`Client.cpp:95`). `ConnectReturns` holds whatever the handlers of the
  connection before do to the socket.
* **The frames.** All hold. `SemaphoresSuffice` names the one exception: a
  rebuilt swapchain with more images than the first indexes
  `m_RenderFinishedSemaphores` out of range.

### Divergence found

`README.md:26` describes the server as "Administration tool for hosting a session
and monitoring active users in real time." `PanelShowsActive` states this for
states in which nothing is in transit, and TLC refutes it in `MCPanel`. The panel
is wrong in two ways:

* A user without a connection: a client leaves between its join line and the
  answer. Its end of file is handled first, `onClientDisconnected` finds nothing
  to erase; then `onClientAccept` adds the dead session to the members and its
  name to the panel, where they stay until the administrator kicks the name.
* A connected user is missing: a second connection logs in under the name of a
  connected user and is rejected. Its end lists the name as disconnected, and the
  panel drops the user who is still there, and who can no longer be kicked.

## 4. Bounds

| bound | value | why it is enough |
|---|---|---|
| connections (`Sessions`) | 2 | every race of `Server` is between two connections, or one connection and the interface thread |
| users, passwords | 2 and 1 in `Server`, 1 and 2 in `MCDatabase` | one shared and one other name; a right and a wrong password, and two registrations of one name |
| join lines (`Joins`) | 2 to 4 | each run names the mixture it needs: logins and registrations under one name or two |
| `MaxChats` of `Server` | 2 | order and gaps need two chats |
| `MaxCalls` of `DatabaseService` | 3 | two registrations of a name and a login; restarts in between are not bounded |
| `MaxCalls` of `SessionWriter` | 2 | one line in flight and one posted or queued, with the order to close behind them |
| `MaxLines` of `Connection` | 3 | the end of a line, a whole line and the beginning of another in one buffer |
| `MaxPushes` of `SafeQueue` | 3 | more pushes than waiters |
| `MaxConnects`, `MaxChats`, `MaxSays` of `Client` | 2, 1, 1 | the hazards are what one connection leaves for the next |
| `FramesInFlight`, `ImageCounts`, `MaxResizes` | 2, {2, 3, 4}, 2 | the program's two frames; a swapchain may come with fewer or more images than the first |
| `Names`, `MaxJoins`, `MaxTextures`, `MaxClicks` of `Textures` | 2, 2, 3, 2 | the user and another, in either role; each picture replaced once; a click while a dialog is open |
| `Bytes`, `MaxBytes`, `IntWidth` of `PicturePath` | 0, 1, 128, 255; 5; 16 | every length of the last group of three behind a full one; an int of 16 bits overflows with the third byte, as one of 32 with the fifth |
| `Widths`, `Heights` | 1, 3, 64 and 2, 5, 64 | the program's 64 by 64, odd sizes, and a side that reaches one texel first |

`Leavers`, `Kickable`, `MayTimeOut`, `LookupMayFail`, `WriteMayFail` choose which
disturbances a run allows, to keep each run's state space within reach.
`Passwords`, `Pixels`, `Texts` are data that the code compares or copies only.
`CHECK_DEADLOCK FALSE` is set everywhere, since all these systems may come to
rest: users may stop typing, the window may be closed, calls are bounded, and
undefined behaviour ends a model. What must not stop is stated as liveness.

## 5. Fairness

* `SafeQueue`: each thread goes on when it can, and the scheduler does not starve
  a thread that waits for the mutex again and again.
* `Connection`: bytes that were sent arrive, the network thread runs the handlers
  that are ready, and a write completes or fails. Nothing is assumed of the client,
  nor of a read that times out.
* `Teardown`, `Server`: the database thread serves its queue; the interface
  thread goes on, in its loop and in its destructor; the network thread ends the
  handler it runs, erases what it is about to erase, and each session's writer
  goes on. Nothing is assumed of clients, of the administrator, of reads, or of
  when the window is closed.
* `Client`: as long as the system has something to do to the socket or a handler is ready,
  one of these is done: a connect and a write succeed or fail, which is what the
  operating system guarantees, and the network thread runs what is ready. It is one
  weak fairness of all of these together, since asio serves them from one queue.
  Nothing is assumed of the user or of the server.
* `Frames`: the loop spins, the GPU executes and the screen shows.

All of it is weak fairness, except for the lock in `SafeQueue`. `Textures` and
`PicturePath` state safety only.

## 6. Proofs

| module | theorems |
|---|---|
| `SafeQueueProofs` | `SafeQueueInvariant`, `TypeCorrect`, `WakeupsKept`, `QueueIsFifo` |
| `SessionWriterProofs` | `WriterInvariant`, `NeverTwoWrites`, `ClosedBehindLastLine`, `WriterImplementsOutbox`; of `Connection`: `ConnectionHasWriter`, `ConnectionNeverTwoWrites`, `ConnectionImplementsOutbox`, `ReaderInvariant`, `LinesHandledInOrder`, `WaitingClientIsSafe` |
| `DatabaseProofs` (with `DatabaseLemmas`) | `TypeCorrect`, `NamesStayUnique`, `TableIsAccountBook`, `StopsWhenDrained`, `AnsweredAsAsked`; of `Teardown`: `TeardownUsesService`, `TornDownInOrder` |
| `ServerProofs` | `ServerInvariant`, `TypeCorrect`, `NobodyTwice`, `WellSpoken`, `MembersHeardAccept`, `KicksFind`, `AnswersReachAskers`, `ServerIsChatRoom`, `KnownInvariant`, `ChatsAreSaved`, `AccountsStayUnique`, `ServerKeepsAccounts`, `PicturesReachMembers`, `SessionsAreOutboxes`; of `ChatRoom`: `NothingMissed`, and of the server through it `MembersHearEverything` |
| `ClientProofs` | `LinesInvariant`, `TypeCorrect`, `LinesInOrder`, `FaultsOnlyAfterReconnect`, `LatestAnswerShown` |
| `FramesProofs` | `FramesInvariant`, `TypeCorrect`, `BuffersKeptApart`, `NoFenceInVain`, `SwapchainOutlivesFrames`, `SemaphoresKeptApart` |
| `PicturesProofs` | of `FileDialog` and `Textures`: `OneDialog`, `TexturesInvariant`, `NoTextureInUseDestroyed`, `PicturesShownRight`; of `PicturePath`: `PictureTypeCorrect`, `PicturesComeOut` |

They hold for every value of the constants that satisfies the named assumptions
of the modules (`SafeQueueAssumption`, `ProtocolAssumption`,
`DatabaseAssumption`, `SessionAssumption`, `ServerAssumption`, ...), which TLC
evaluates in the runs. The only substantial ones: the sets of threads of
`SafeQueue` do not overlap, the rows that a file holds from before have
different names, the connections of `Server` are finitely many, and an int has at
least 14 bits (base64 keeps six bits and takes eight more; the language
guarantees 16). Some
theorems are about a database that works, and say so as a hypothesis: for
`NamesStayUnique` and `AccountsStayUnique` no lookup fails, for
`ChatsAreSaved` and `PicturesReachMembers` no write either. Without it they are
false: the code takes a failed lookup for "not found" and drops what it fails
to write.

* **SafeQueue.** The invariant says who owns the mutex from where each thread
  is, that a waiter is about to sleep only while the queue is empty, and
  `NoLostWakeup`. Neither of the last two is inductive without the first.
* **SessionWriter.** The invariant accounts for every line: those on the wire, in
  the queue and posted are the calls so far; the order to close is behind all
  others; the socket is closed only when nothing is left. The refinement of
  `Outbox` maps the queue, the mark for the order to close, and the posted
  handlers to one sequence; moving a line from one to the next is a stutter.
* **Connection.** A step of the whole is a step of the writer or leaves its variables
  alone, which gives it all that is proved of `SessionWriter`. The
  invariant of the reader says that until the process ends the reader has taken
  whole lines only, one for each line handled, and that without pipelining
  there is no byte behind the one line that is not handled yet.
* **Database.** `NamesStayUnique` needs that lookups do not fail, and then that
  the row id returned is 0 only for a name without a row. `TableIsAccountBook`
  needs no such condition: a row appended for a name that has one is not the
  first. `ServerKeepsAccounts` is the same of the database in `Server`, from the
  same lemma (`BookStep`) about a row that is appended. `StopsWhenDrained`
  needs that the order to stop divides the queue: behind it, of logins,
  registrations, chats and pictures, are those that came after `close()` and no
  others, in their order (`late`); a picture that is put into the queue again comes
  back as a question, which is none of these. `AnsweredAsAsked`
  carries the order through the thread (`OrderInv`): the stamps of the answers
  taken, those in the queue of answers and those of the join requests still
  queued, in this order, increase and are no more than the calls so far.
* **Teardown.** Each step is one of `DatabaseService` or leaves it alone, so that
  its theorems carry over. `TornDownInOrder` needs that the thread cannot be on
  its way again between the join and the destruction, and that a login, registration,
  chat or picture behind the order to stop can come only from a handler that was
  running then.
* **Server.** The invariant is built in layers, each proved with those before it.
  `Inv`: `OneSessionPerUser` is not inductive; what `isUserConnected` found
  must still hold when `onClientAccept` runs (`Checked`), for which a session
  must have its name before it can wait for an answer (`Joined`, `Named`), and
  the interface thread must hold a session where it decides on one (`UiPlaces`).
  `Talk` says what has been posted to a session in each of its phases (no line
  handled, waiting, member, gone), and that a session being erased reads no more;
  `Conversation` and `MembersAreAccepted` follow. `Shown`: a name in the panel, or
  on its way there, is one whose last connection let in (`lastIn`) was told ACCEPT and
  not goodbye (`Accounted`), or one that is on its way off the panel; the second
  is not possible when the popup is opened, since the queues of names are drained
  then. With `Talk`, such a connection is a member or has ended by itself, which is
  `KickMissesOnlyDeparted`. That only a kick ends a conversation of a member is
  `TalkedKept`. `Asks` counts what is
  outstanding, a request, an answer or a decision: at most one for a session, and
  none while its line is still to be handled; so an answer finds the session that
  asked, unless another connection asked under the same name.
  `Known`: who is answered "success", who is a member, and who sent a chat that
  is saved or to be saved has a row, so that no save is dropped for want of one;
  with it the chats saved and to be saved, in order, are those said (`ToStore`).
  `PicturesComing` follows a picture owed to a session through both queues:
  requested behind the session's ask and behind the request that stores it,
  answered behind the answer to the session. Who waits has an answer to come
  (`WaitersAsked`), so that the recipient of a picture that is taken from the
  queue is a member or will never be one. `SessionsAreOutboxes` says that
  whichever threads answer, broadcast and kick, each session is given single
  lines, or a last line with the order to close, and they leave in the order in
  which they were given; no run checks it again. Whoever sends to a group of
  sessions adds one line, or one line and the order to close, to each
  (`GivenToOutbox`), a writer's step is one of `Outbox` for its own session, and
  no other step touches a writer.
* **ChatRoom.** `ServerIsChatRoom`: each step of the server maps to a step of the abstract room or
  leaves its members, its log and what each has heard alone. `NothingMissed`
  says of every behaviour of the abstract room that a member has heard all that
  was said since it came, and `MembersHearEverything` is the same of the server.
* **Client.** What a connection has carried, what remains of the write queue and what is
  posted make up one pipe (`Pipe`). A write that is done, a line that is cut off and
  a reconnect leave it as it is or begin it anew with what remains; a post appends
  to it. While `connect()` waits it is exactly what was left when the connection was
  begun, and from then on that and the connection's own lines in order (`Whole`), so
  that what is sent, its beginning, is `OwnLinesInOrder`. `Beginning`, `Opening` and
  `OneWrite` say when there is nothing to write or to read. `FaultsNeedReconnect`
  follows from what the read buffer may hold, and who may read, before the first
  reconnect (`Clean`). For `ShownAnswerIsLatest`, `AnswerComes` says that while the
  client shows no answer, or an older one, the latest is still ahead in the stream
  of what is received and what is on its way.
* **Frames.** The fences that are not signaled are those of the frames that the
  GPU has, one submission each, and that of the frame about to be submitted
  (`FencesOfSubmissions`, `FenceOfFrame`). `SemaphoresKeptApart` needs an account
  of where each image is (free, acquired, submitted, waiting to be shown), and
  that of each semaphore follows from that of its frame or its image.
* **Textures.** `OneDialog` counts the threads that have a dialog open or about to
  be closed: the writes outside of the mutex are theirs, and there is one. The
  invariant behind `PicturesShownRight` says for each id that the chat window
  keeps under which of its conditions it may be stale, and that of the panels
  is always that of the texture of the user.
* **PicturePath.** The specification of base64 in the proof is `CharAt`: the six
  bits of the bytes that a character stands for, four characters for every three
  bytes, and zero bits behind the last byte. While encoding, the characters
  written are those (`Encoding`), and while decoding, the bytes written are those
  of the picture (`Decoding`); neither says anything of `val` but its lowest eight
  or six bits, which are all that the next round can use. That these survive the
  overflow is `ShiftKeepsLow`, for any width of int that holds 14 bits. The
  arithmetic is that of a group (`EncodedBits`, `DecodedBits`) with the place in
  it where a loop stands (`EncodeAt`, `DecodeAt`). For the image, the invariant
  says at each step of the loop which layout each level is in, which levels are
  filled, and that the sizes kept are those of the level before
  (`HalfOfLevel`); that the last level has one texel is `LastLevel`.

**Powers of two.** The provers know nothing of `2 ^ n` for a variable `n`, but
`FS_SUBSET` says that it is the number of subsets of a set of `n` elements.
`PowerStep`, that there are twice as many for one element more, follows by a
bijection, and `PowerSum` by induction.

**Induction over data.** `DatabaseLemmas` derives induction over a
finite set and over a sequence (`SetInduction`, `SeqInduction`) from the
pigeonhole theorem of `FiniteSetTheorems`, for sets instead of predicates: no
theorem of a library with an operator as its parameter is used. Upon them rest the
lemmas on what a filtered sequence (`OfType`) and a mapped one (`Mapped`) become
when a line is appended or taken off, and with these `AnsweredAsAsked`,
`ServerIsChatRoom` and `ChatsAreSaved`. `NaturalsReached` of `PicturesProofs` is
induction over the naturals in the same form, from their well-foundedness; with it
`PowerSum` and the existence of a last level (`LastLevel`) are proved.

**Only model-checked.** All liveness properties (TLAPS does not prove liveness
under fairness here, nor ENABLED): `EverythingTaken`, `SentIsWritten`,
`ReaderGoesOn`, `TeardownEnds`, `EveryJoinAnswered`, `EveryAskAnswered`,
`GoodbyeCloses`, `ConnectReturns`, `EveryJoinSent`, `FramesGoOn`. The violation of section 3, which is
about the code and not a theorem.

## 7. What is not modelled

* The JSON of `Message`; in `Connection` a text parses when it is a whole line.
* The lifetime of objects: the shared pointers that keep a session alive, the
  prepared statements, the descriptor sets that each id of a texture takes from a
  pool of fixed size and that none gives back.
* The end of the client process, where a detached thread of the file dialog may
  outlive the application it refers to.
* The choice of device and formats, memory and pipelines of `Renderer`; drawing,
  layout, text fields and log lines of the panels; sounds; opening the port.
* PasswordHasher, a deterministic hash of 128 bits made of rotations and products, which
  the models take as injective on passwords; Timestamp, the decoding and scaling of images (stb).
* The text of the database's informational outbox.
* What the program does after undefined behaviour: the two races on the lists of
  `Server` (`Server.cpp:94` and `141`), the null session, the missing user of a
  kick, the database used after its end.
* In `Client`: the race on the socket object itself, which `async_connect` closes and
  opens on the interface thread (`Client.cpp:88`) while the network thread may run a
  handler that uses it; what the program does after the exception of the resolver
  (`Client.cpp:36`) or with two reads on one buffer.
* What the interface does when the server vanishes (`Client.cpp:143`): it stays in
  the chat layer, and no document says otherwise. A swapchain that is out of date
  without a resize (`Renderer.cpp:1352`): GLFW reports a resize with it.

## 8. Plan

Done, in this order, the most important behaviour first: `SafeQueue`,
`Session`/`SessionWriter`, `Database`, `Server`, with their abstract
specifications and proofs; `Client` and `Frames`; then `Connection`,
`Teardown`, `FileDialog`, `Textures` and `PicturePath`.

All safety properties that the runs check and that hold are proved.

To be modelled next: the end of the client process with its detached threads; who
holds a session, so that the end of a timed-out connection can be stated; what the
server does with the lines that a client sends ahead of its join line.
