------------------------------- MODULE Server -------------------------------
(***************************************************************************)
(* The chat server (server/src/server/Server.cpp) with the three threads   *)
(* of its process: the network thread, which runs the handlers of the      *)
(* sessions (module Session), the database thread (module Database), and   *)
(* the interface thread, which in every frame runs Server::update, brings  *)
(* the panel of active users up to date and renders it                     *)
(* (ServerApplication.cpp, UIActiveClients.cpp).                           *)
(*                                                                         *)
(* A step of the interface thread is one critical section, taken at its    *)
(* end, with what follows it up to the next; a handler of the network      *)
(* thread is one step, but for the disconnect handler, whose two accesses  *)
(* are two steps.  Where                                                   *)
(* the code has undefined behaviour (a data race, a null pointer, the      *)
(* end() iterator) the step records it in "fault", and the model stops:    *)
(* nothing can be said of what the program does next.                      *)
(***************************************************************************)
EXTENDS Database, Session, SequencesExt

CONSTANTS
    Joins,      \* the join lines clients may send, as requests for the database
    Leavers,    \* the clients that may leave on their own
    Kickable,   \* the users the administrator may choose to kick
    MaxChats    \* bound: chat lines read by the server

ASSUME ServerAssumption ==
    /\ IsFiniteSet(Sessions)
    /\ Joins \subseteq JoinRequest
    /\ Leavers \subseteq Sessions
    /\ Kickable \subseteq Users
    /\ MaxChats \in Nat

VARIABLES
    sessions,           \* m_Sessions; its order only orders picture requests
    pending,            \* m_PendingSessions: user names to sessions
    inbox,              \* m_Inbox
    pendingNames,       \* m_PendingUsernames
    disconnectedNames,  \* m_DisconnectedUsernames
    erasing,            \* the session the disconnect handler has still to erase
    log,                \* ghost: the chats broadcast
    owed,               \* ghost: pictures a session is to be sent, see OwedNow
    lastIn              \* ghost: the session last accepted under a name, or None

serverVars == <<sessions, pending, inbox, pendingNames, disconnectedNames, erasing, log, owed,
                lastIn>>

VARIABLES
    uiPc,       \* where the interface thread is in its frame
    uiAnswer,   \* the database's answer it handles
    uiSession,  \* the session that answer is for
    uiChat,     \* the chat it broadcasts
    panel,      \* m_Usernames of the panel of active users
    userToKick, \* m_UserToKick while the popup is open
    fault       \* the first undefined behaviour met, or "none"

uiVars == <<uiPc, uiAnswer, uiSession, uiChat, panel, userToKick>>

vars == <<dbVars, sessionVars, serverVars, uiVars, fault>>

-----------------------------------------------------------------------------

UiPc == {"responses", "picture", "pending", "decide", "accept",
         "inbox", "broadcast", "clients", "render", "kick"}

\* The steps of the interface thread inside a scoped_lock on m_SessionsMutex,
\* and the one inside a scoped_lock on m_PendingSessionsMutex.
HoldsSessions == uiPc \in {"picture", "decide", "accept", "broadcast", "kick"}
HoldsPending == uiPc = "pending"

\* An entry of m_DisconnectedUsernames: a name, the empty name of a client
\* that never joined (None), or a text "Rejected: ..." that is no user's name.
ListedName == Users \cup {None, "rejected"}

TypeOK ==
    /\ DatabaseTypeOK
    /\ SessionTypeOK
    /\ sessions \subseteq Sessions
    /\ pending \in [Users -> Sessions \cup {None}]
    /\ inbox \in Seq(Chat)
    /\ pendingNames \in Seq(Users)
    /\ disconnectedNames \in Seq(ListedName)
    /\ erasing \in Sessions \cup {None}
    /\ log \in Seq(Chat)
    /\ owed \subseteq Sessions \X Users
    /\ lastIn \in [Users -> Sessions \cup {None}]
    /\ uiPc \in UiPc
    /\ uiAnswer \in Response \cup {None}
    /\ uiSession \in Sessions \cup {None}
    /\ uiChat \in Chat \cup {None}
    /\ panel \subseteq Users
    /\ userToKick \in Users \cup {None}
    /\ fault \in {"none", "null_session", "end_iterator", "sessions_race", "pending_race"}

Init ==
    /\ DatabaseInit
    /\ SessionInit
    /\ sessions = {}
    /\ pending = [u \in Users |-> None]
    /\ inbox = <<>>
    /\ pendingNames = <<>>
    /\ disconnectedNames = <<>>
    /\ erasing = None
    /\ log = <<>>
    /\ owed = {}
    /\ lastIn = [u \in Users |-> None]
    /\ uiPc = "responses"
    /\ uiAnswer = None
    /\ uiSession = None
    /\ uiChat = None
    /\ panel = {}
    /\ userToKick = None
    /\ fault = "none"

-----------------------------------------------------------------------------
(* The network thread: the handlers of Session with the callbacks that     *)
(* Server::onAccept gives them.  One handler runs at a time.               *)

NetworkIdle == fault = "none" /\ erasing = None

\* LOGIN_REQUEST and REGISTER_REQUEST: m_User is set, the session waits under
\* its name (in place of any other that waits under it), and the database is
\* asked.  The write to m_PendingSessions takes no lock.
ReadJoin(s) ==
    /\ NetworkIdle
    /\ lines[s] = 0
    /\ ReadLine(s)
    /\ lines' = [lines EXCEPT ![s] = 1]
    /\ \E join \in Joins :
         /\ join.by = s
         /\ name' = [name EXCEPT ![s] = join.name]
         /\ pending' = [pending EXCEPT ![join.name] = s]
         /\ Submit(<<join>>)
    /\ fault' = IF HoldsPending THEN "pending_race" ELSE fault
    /\ UNCHANGED <<dbThread, responses, users, messages, pictures>>
    /\ UNCHANGED <<sessions, inbox, pendingNames, disconnectedNames, erasing, log, owed, lastIn>>
    /\ UNCHANGED uiVars

\* Ghosts.  Once a database that works has served the first n requests: has u a
\* row, and is there a picture of u?
HasRowAfter(u, n) ==
    \/ RowsOf(u) # {}
    \/ \E i \in 1 .. n : requests[i].type = "register" /\ requests[i].name = u

PictureAfter(u, n) ==
    \/ \E i \in DOMAIN pictures : users[i].name = u
    \/ \E i \in 1 .. n :
         /\ requests[i].type = "save_picture"
         /\ requests[i].name = u
         /\ requests[i].content # NoPixels
         /\ HasRowAfter(u, i - 1)

\* Of the pairs of a session and a user whose picture is requested for it now,
\* those whose picture will be found.
PictureKnown(u) == PictureAfter(u, Len(requests))

OwedNow(pairs) == owed \cup {pair \in pairs : PictureKnown(pair[2])}

\* PROFILE_PICTURE: asked for whether or not the join succeeded.
ReadPicture(s) ==
    /\ NetworkIdle
    /\ lines[s] = 1
    /\ ReadLine(s)
    /\ lines' = [lines EXCEPT ![s] = 2]
    /\ \E content \in Pixels \cup {NoPixels} :
         /\ Submit(<<ProfilePictureSaveRequest(name[s], content)>>)
         /\ owed' = IF content = NoPixels THEN OwedNow({<<s, name[s]>>}) ELSE owed
    /\ UNCHANGED <<dbThread, responses, users, messages, pictures>>
    /\ UNCHANGED <<sessions, pending, inbox, pendingNames, disconnectedNames, erasing, log,
                   lastIn>>
    /\ UNCHANGED <<name, uiVars, fault>>

ChatsRead == Len(inbox) + Len(log) + (IF uiPc = "broadcast" THEN 1 ELSE 0)

\* CHAT_MESSAGE, which a client sends only from its chat layer.
ReadChat(s) ==
    /\ NetworkIdle
    /\ lines[s] = 2
    /\ s \in inChat
    /\ ChatsRead < MaxChats
    /\ ReadLine(s)
    /\ \E t \in Texts : inbox' = Append(inbox, [sender |-> name[s], text |-> t])
    /\ UNCHANGED <<lines, name, dbVars, uiVars, fault>>
    /\ UNCHANGED <<sessions, pending, pendingNames, disconnectedNames, erasing, log, owed, lastIn>>

\* onClientDisconnected, first half: the name is listed.
ReadEof(s) ==
    /\ NetworkIdle
    /\ ReadEnd(s)
    /\ disconnectedNames' = Append(disconnectedNames, name[s])
    /\ erasing' = s
    /\ UNCHANGED <<sessions, pending, inbox, pendingNames, log, owed, lastIn>>
    /\ UNCHANGED <<dbVars, uiVars, fault>>

\* Variant of EraseSession: all sessions of the name are erased.
EraseByName ==
    /\ fault = "none"
    /\ erasing # None
    /\ sessions' = {s \in sessions : name[s] # name[erasing]}
    /\ erasing' = None
    /\ fault' = IF HoldsSessions THEN "sessions_race" ELSE fault
    /\ UNCHANGED <<pending, inbox, pendingNames, disconnectedNames, log, owed, lastIn>>
    /\ UNCHANGED <<dbVars, sessionVars, uiVars>>

\* onClientDisconnected, second half: std::erase without m_SessionsMutex.
EraseSession ==
    /\ fault = "none"
    /\ erasing # None
    /\ sessions' = sessions \ {erasing}
    /\ erasing' = None
    /\ fault' = IF HoldsSessions THEN "sessions_race" ELSE fault
    /\ UNCHANGED <<pending, inbox, pendingNames, disconnectedNames, log, owed, lastIn>>
    /\ UNCHANGED <<dbVars, sessionVars, uiVars>>

\* The handlers that concern their session only.
SessionAlone ==
    /\ NetworkIdle
    /\ UNCHANGED <<dbVars, serverVars, uiVars, fault>>

Accepted(s) == SessionAlone /\ Connect(s)
ReadFailed(s) == SessionAlone /\ ReadError(s)
Written(s) == SessionAlone /\ Write(s)
WriteFailed(s) == SessionAlone /\ WriteError(s)
Disconnected(s) == SessionAlone /\ Disconnect(s)

NetworkThread ==
    \/ EraseSession
    \/ \E s \in Sessions :
         \/ Accepted(s)
         \/ ReadJoin(s)
         \/ ReadPicture(s)
         \/ ReadChat(s)
         \/ ReadEof(s)
         \/ ReadFailed(s)
         \/ Written(s)
         \/ WriteFailed(s)
         \/ Disconnected(s)

-----------------------------------------------------------------------------
(* The interface thread: Server::update, first loop (answers).             *)

UiAt(pc) == fault = "none" /\ uiPc = pc

UiGoto(pc) == uiPc' = pc

PopResponse ==
    /\ UiAt("responses")
    /\ IF responses = <<>>
       THEN UiGoto("inbox") /\ UNCHANGED <<responses, uiAnswer>>
       ELSE /\ uiAnswer' = Head(responses)
            /\ responses' = Tail(responses)
            /\ UiGoto(IF Head(responses).type = "picture" THEN "picture" ELSE "pending")
    /\ UNCHANGED <<dbThread, requests, users, messages, pictures>>
    /\ UNCHANGED <<sessionVars, serverVars, uiSession, uiChat, panel, userToKick, fault>>

\* Variant of Members: only those who have been told ACCEPT already.
MembersInChat(u) == {s \in sessions : name[s] = u /\ s \in inChat}

Members(u) == {s \in sessions : name[s] = u}

\* The result of a find_if that stops at the first session of that name.
FirstOf(group) == IF group = {} THEN {{}} ELSE {{s} : s \in group}

HandleProfilePictureDataRequest ==
    /\ UiAt("picture")
    /\ \E found \in FirstOf(Members(uiAnswer.recipient)) :
         Send(found, <<PictureLine(uiAnswer.name)>>)
    /\ uiAnswer' = None
    /\ UiGoto("responses")
    /\ UNCHANGED <<conn, peer, reading, lines, inChat, name, stuck, written>>
    /\ UNCHANGED <<dbVars, serverVars, uiSession, uiChat, panel, userToKick, fault>>

\* Variant of OnClientReject: in the wrong order.
OnClientRejectSwapped(s) ==
    /\ Send({s}, <<Bye, Reject(uiAnswer.by)>>)
    /\ disconnectedNames' = Append(disconnectedNames, "rejected")

\* onClientReject.  The line and the order to close are posted one after the
\* other; the entry in the list is the text "Rejected: ...".
OnClientReject(s) ==
    /\ Send({s}, <<Reject(uiAnswer.by), Bye>>)
    /\ disconnectedNames' = Append(disconnectedNames, "rejected")

\* Variant of Waiting: some session that waits.
WaitingAnybody ==
    LET waiting == {pending[u] : u \in Users} \ {None}
    IN  IF waiting = {} THEN None ELSE CHOOSE s \in waiting : TRUE

\* m_PendingSessions.find(): the session that waits under the answer's name.
Waiting == pending[uiAnswer.name]

\* handlePendingSessions: the session waiting under the name of the answer is
\* taken out of the map, and every branch that follows dereferences it.
HandlePendingSessions ==
    /\ UiAt("pending")
    /\ \/ /\ Waiting = None
          /\ fault' = "null_session"
          /\ UNCHANGED <<pending, outbox, disconnectedNames, uiPc, uiAnswer, uiSession>>
       \/ /\ Waiting # None
          /\ pending' = [pending EXCEPT ![uiAnswer.name] = None]
          /\ UNCHANGED fault
          /\ IF uiAnswer.type \in {"login_success", "register_success"}
             THEN /\ uiSession' = Waiting
                  /\ UiGoto("decide")
                  /\ UNCHANGED <<outbox, disconnectedNames, uiAnswer>>
             ELSE /\ OnClientReject(Waiting)
                  /\ uiAnswer' = None
                  /\ UiGoto("responses")
                  /\ UNCHANGED uiSession
    /\ UNCHANGED <<conn, peer, reading, lines, inChat, name, stuck, written>>
    /\ UNCHANGED <<sessions, inbox, pendingNames, erasing, log, owed, lastIn>>
    /\ UNCHANGED <<dbVars, uiChat, panel, userToKick>>

\* isUserConnected, in a critical section of its own.
IsUserConnected ==
    /\ UiAt("decide")
    /\ IF Members(name[uiSession]) = {}
       THEN /\ UiGoto("accept")
            /\ UNCHANGED <<outbox, disconnectedNames, uiAnswer, uiSession>>
       ELSE /\ OnClientReject(uiSession)
            /\ uiAnswer' = None
            /\ uiSession' = None
            /\ UiGoto("responses")
    /\ UNCHANGED <<conn, peer, reading, lines, inChat, name, stuck, written>>
    /\ UNCHANGED <<sessions, pending, inbox, pendingNames, erasing, log, owed, lastIn>>
    /\ UNCHANGED <<dbVars, uiChat, panel, userToKick, fault>>

\* Variant of PictureRequests: only that of s is asked for.
PictureRequestsOneWay(members, s) ==
    [i \in 1 .. Len(members) |-> UserProfilePictureRequest(name[s], name[members[i]])]

\* The pictures that are asked for when s joins the members in that order:
\* each member's for s, and that of s for each member.
PictureRequests(members, s) ==
    [i \in 1 .. 2 * Len(members) |->
        LET member == members[(i + 1) \div 2]
        IN  IF i % 2 = 1
            THEN UserProfilePictureRequest(name[member], name[s])
            ELSE UserProfilePictureRequest(name[s], name[member])]

OnClientAccept ==
    /\ UiAt("accept")
    /\ \E members \in SetToSeqs(sessions) :
         Submit(PictureRequests(members, uiSession))
    /\ owed' = OwedNow({<<uiSession, name[m]>> : m \in sessions}
                         \cup (sessions \X {name[uiSession]}))
    /\ sessions' = sessions \cup {uiSession}
    /\ lastIn' = [lastIn EXCEPT ![name[uiSession]] = uiSession]
    /\ pendingNames' = Append(pendingNames, name[uiSession])
    /\ Send({uiSession}, <<Accept(uiAnswer.by)>>)
    /\ uiAnswer' = None
    /\ uiSession' = None
    /\ UiGoto("responses")
    /\ UNCHANGED <<dbThread, responses, users, messages, pictures>>
    /\ UNCHANGED <<conn, peer, reading, lines, inChat, name, stuck, written>>
    /\ UNCHANGED <<pending, inbox, disconnectedNames, erasing, log>>
    /\ UNCHANGED <<uiChat, panel, userToKick, fault>>

-----------------------------------------------------------------------------
(* Server::update, second loop (chats).                                    *)

PopInbox ==
    /\ UiAt("inbox")
    /\ IF inbox = <<>>
       THEN UiGoto("clients") /\ UNCHANGED <<inbox, uiChat>>
       ELSE /\ uiChat' = Head(inbox)
            /\ inbox' = Tail(inbox)
            /\ UiGoto("broadcast")
    /\ UNCHANGED <<sessions, pending, pendingNames, disconnectedNames, erasing, log, owed, lastIn>>
    /\ UNCHANGED <<dbVars, sessionVars, uiAnswer, uiSession, panel, userToKick, fault>>

\* broadcast, to every member, the sender included if it is still one; then
\* the chat is handed to the database.
Broadcast ==
    /\ UiAt("broadcast")
    /\ Send(sessions, <<ChatLine(uiChat)>>)
    /\ log' = Append(log, uiChat)
    /\ Submit(<<MessageSaveRequest(uiChat)>>)
    /\ uiChat' = None
    /\ UiGoto("inbox")
    /\ UNCHANGED <<dbThread, responses, users, messages, pictures>>
    /\ UNCHANGED <<conn, peer, reading, lines, inChat, name, stuck, written>>
    /\ UNCHANGED <<sessions, pending, inbox, pendingNames, disconnectedNames, erasing, owed, lastIn>>
    /\ UNCHANGED <<uiAnswer, uiSession, panel, userToKick, fault>>

-----------------------------------------------------------------------------
(* ServerApplication::onUpdate and onRender: the panel of active users.    *)

\* onUpdateConnectedClients, then onUpdateDisconnectedClients.  Each takes its
\* list to the end; only this thread adds to the first, and what the network
\* thread adds to the second meanwhile is taken as well.  removeUsername erases
\* every entry of the name, those just added included.
OnUpdateClients ==
    /\ UiAt("clients")
    /\ panel' = (panel \cup ToSet(pendingNames)) \ ToSet(disconnectedNames)
    /\ pendingNames' = <<>>
    /\ disconnectedNames' = <<>>
    /\ UiGoto("render")
    /\ UNCHANGED <<sessions, pending, inbox, erasing, log, owed, lastIn>>
    /\ UNCHANGED <<dbVars, sessionVars, uiAnswer, uiSession, uiChat, userToKick, fault>>

\* The administrator does nothing in this frame, chooses "Kick User" for a
\* name of the panel, which opens a modal popup, or closes it with "Cancel"
\* or "Confirm Kick".  The popup keeps the name while the panel changes.
Render ==
    /\ UiAt("render")
    /\ \/ UiGoto("responses") /\ UNCHANGED userToKick
       \/ userToKick = None /\ userToKick' \in panel \cap Kickable /\ UiGoto("responses")
       \/ userToKick # None /\ userToKick' = None /\ UiGoto("responses")
       \/ userToKick # None /\ UNCHANGED userToKick /\ UiGoto("kick")
    /\ UNCHANGED <<dbVars, sessionVars, serverVars>>
    /\ UNCHANGED <<uiAnswer, uiSession, uiChat, panel, fault>>

\* kickUser: *it is used without asking whether the name was found.
KickUser ==
    /\ UiAt("kick")
    /\ IF Members(userToKick) = {}
       THEN /\ fault' = "end_iterator"
            /\ UNCHANGED <<outbox, sessions, disconnectedNames, uiPc, userToKick>>
       ELSE /\ \E s \in Members(userToKick) :
                 /\ Send({s}, <<Kick, Bye>>)
                 /\ sessions' = sessions \ {s}
            /\ disconnectedNames' = Append(disconnectedNames, userToKick)
            /\ userToKick' = None
            /\ UiGoto("responses")
            /\ UNCHANGED fault
    /\ UNCHANGED <<conn, peer, reading, lines, inChat, name, stuck, written>>
    /\ UNCHANGED <<pending, inbox, pendingNames, erasing, log, owed, lastIn>>
    /\ UNCHANGED <<dbVars, uiAnswer, uiSession, uiChat, panel>>

UiThread ==
    \/ PopResponse
    \/ HandleProfilePictureDataRequest
    \/ HandlePendingSessions
    \/ IsUserConnected
    \/ OnClientAccept
    \/ PopInbox
    \/ Broadcast
    \/ OnUpdateClients
    \/ Render
    \/ KickUser

-----------------------------------------------------------------------------

RunDatabase ==
    /\ fault = "none"
    /\ DatabaseThread
    /\ UNCHANGED <<sessionVars, serverVars, uiVars, fault>>

Leave ==
    /\ fault = "none"
    /\ \E s \in Leavers : ClientLeaves(s)
    /\ UNCHANGED <<dbVars, serverVars, uiVars, fault>>

Next ==
    \/ NetworkThread
    \/ UiThread
    \/ RunDatabase
    \/ Leave

Spec == Init /\ [][Next]_vars

-----------------------------------------------------------------------------
(* Properties.  Undefined behaviour stops the model, so each of them says  *)
(* what holds as long as there was none, unless it is about "fault".       *)

\* A user is connected at most once: isUserConnected and the push_back of
\* onClientAccept are two critical sections, and accounts have one row.
OneSessionPerUser ==
    \A s, t \in sessions : name[s] = name[t] => s = t

Lines(s, types) == {i \in DOMAIN Posted(s) : Posted(s)[i].type \in types}

\* What a client is sent has one of two shapes: REJECT and the end of the
\* connection; or ACCEPT, then chats and pictures, then possibly a kick and
\* the end.  No chat or picture comes before the answer, none after goodbye,
\* and there is one answer, though answers, chats, pictures and kicks come
\* from separate queues and critical sections.
Conversation ==
    \A s \in Sessions :
        LET said == Posted(s)
            n == Len(said)
        IN  \/ said = <<>>
            \/ n = 2 /\ said[1].type = "reject" /\ said[2] = Bye
            \/ /\ said[1].type = "accept"
               /\ \A i \in 2 .. n :
                    \/ said[i].type \in {"chat", "picture"}
                    \/ n > 2 /\ i = n - 1 /\ said[n - 1] = Kick /\ said[n] = Bye
                    \/ n > 2 /\ i = n /\ said[n - 1] = Kick /\ said[n] = Bye

\* Every member was told ACCEPT and has not been told goodbye; who was told
\* ACCEPT and not goodbye is a member until its read loop ends.
MembersAreAccepted ==
    \A s \in Sessions :
        LET in == Lines(s, {"accept"}) # {} /\ Lines(s, {"kick"}) = {}
        IN  /\ s \in sessions => in
            /\ in /\ (reading[s] \/ erasing = s) => s \in sessions

\* Another session has asked to join under the name of s.
NameShared(s) ==
    \E t \in Sessions \ {s} : name[t] = name[s]

\* The answers of the database carry a user name and no session, so that an
\* answer finds its asker only through m_PendingSessions (Server.cpp:84-96 and
\* 197-240).  It does, as long as no two connections ask under one name; then
\* the later one replaces the earlier in the map, is given the answer to the
\* earlier, and the second answer finds nobody (the null session).
AnswersFindAskers ==
    /\ \A s \in Sessions : \A i \in Lines(s, {"accept", "reject"}) :
         Posted(s)[i].for = s \/ NameShared(s)
    /\ fault = "null_session" => \E s \in Sessions : lines[s] > 0 /\ NameShared(s)

\* A kick meets end() only where the last connection that was let in under the
\* name ended by itself, after it was let in: the panel, or the popup that was
\* opened from it, still shows the name.  It never does because that connection
\* was kicked before, or for one that was refused under the name, or for a
\* member whose connection lives (UIActiveClients.cpp:36-96, Server.cpp:239-261).
KickMissesOnlyDeparted ==
    fault = "end_iterator" =>
        LET s == lastIn[userToKick]
        IN  s # None /\ ~reading[s] /\ Lines(s, {"kick"}) = {}

\* The chats on their way to the table messages.
SavesQueued == OfType(requests, {"save_message"})

\* The chats said are stored completely and in the order in which the members
\* hear them, under the sender's name, whatever else the database is asked.
SavedAsSaid ==
    LET stored == [i \in DOMAIN messages |->
                      [sender |-> users[messages[i].id].name, text |-> messages[i].text]]
        queued == [i \in DOMAIN SavesQueued |-> SavesQueued[i].chat]
    IN  stored \o queued = log

\* A picture that is stored, or queued to be, when two users become members
\* together, or when a member without a picture asks for its own, has been sent
\* to the member once the queues are empty: it is not lost between the two
\* queues, nor found before its recipient is a member.  (One uploaded later is
\* lost: ReadPicture may come after OnClientAccept.)
PicturesArrive ==
    (requests = <<>> /\ responses = <<>> /\ uiPc # "picture") =>
        \A pair \in owed :
            pair[1] \in sessions =>
                \E i \in Lines(pair[1], {"picture"}) : Posted(pair[1])[i].name = pair[2]

\* The server implements a chat room.
ChatsTo(s) ==
    LET chats == OfType(Posted(s), {"chat"})
    IN  [i \in DOMAIN chats |-> chats[i].chat]

Room == INSTANCE ChatRoom WITH
    room <- sessions,
    entered <- {s \in Sessions : Lines(s, {"accept"}) # {}},
    heard <- [s \in Sessions |-> ChatsTo(s)]

ChatRoomSpec == Room!Spec

-----------------------------------------------------------------------------
(* Liveness.                                                               *)

\* Every thread goes on while it has something to do: the interface thread
\* spins, the database thread is woken by a push, and the network thread runs
\* the handlers that are ready in turn.  Nothing is assumed of the clients or
\* of the administrator, who act in ReadJoin, Leave and Render.
WriterStep(s) == Written(s) \/ WriteFailed(s) \/ Disconnected(s)

FairSpec ==
    /\ Spec
    /\ WF_vars(UiThread)
    /\ WF_vars(RunDatabase)
    /\ WF_vars(EraseSession)
    /\ \A s \in Sessions : WF_vars(WriterStep(s))

Answered(s) == \E i \in DOMAIN written[s] : written[s][i].type \in {"accept", "reject"}

\* Whoever asks to join is answered, unless the client leaves or the server
\* meets undefined behaviour first.
EveryAskAnswered ==
    \A s \in Sessions :
        lines[s] > 0 ~> (Answered(s) \/ peer[s] = "closed" \/ fault # "none")

\* A connection that was told goodbye is closed, unless a write fails: then
\* the order to close is never obeyed.
GoodbyeCloses ==
    \A s \in Sessions :
        Bye \in ToSet(outbox[s]) ~> (conn[s] = "closed" \/ stuck[s] \/ fault # "none")

-----------------------------------------------------------------------------
(* What README.md:26 promises, "monitoring active users in real time", when *)
(* the panel is up to date: a frame is rendered and nothing is in transit.  *)

Quiet ==
    /\ uiPc = "render" /\ fault = "none"
    /\ requests = <<>> /\ responses = <<>> /\ inbox = <<>>
    /\ pendingNames = <<>> /\ disconnectedNames = <<>> /\ erasing = None
    /\ \A s \in Sessions :
         /\ reading[s] => peer[s] = "open"
         /\ outbox[s] = <<>> \/ stuck[s]

\* Who is shown as active has a live connection, and who has been accepted and
\* is connected is shown.
PanelShowsActive ==
    Quiet =>
        /\ \A u \in panel : \E s \in sessions : name[s] = u /\ peer[s] = "open"
        /\ \A s \in sessions : peer[s] = "open" => name[s] \in panel

=============================================================================
