------------------------------ MODULE Database ------------------------------
(***************************************************************************)
(* The database thread of the server (server/src/database/Database.cpp):   *)
(* one thread that starts SQLite, then takes requests off a blocking FIFO  *)
(* queue, runs them one at a time against three tables and pushes answers  *)
(* on a second queue, until a ShutdownRequest arrives.                     *)
(*                                                                         *)
(* A request is taken and served in one step: the tables belong to this    *)
(* thread alone, and the other threads see it only through the queues, to  *)
(* which they append at the far end.  The informational outbox (text for   *)
(* the log panel) is left out.                                             *)
(***************************************************************************)
EXTENDS Naturals, Sequences, Protocol

CONSTANTS
    Passwords,      \* passwords; hashing is injective on them
    Pixels,         \* contents of a profile picture
    NoPixels,       \* the empty content a client without a picture sends
    LookupMayFail,  \* may a SELECT fail (SQLITE_NOMEM, SQLITE_IOERR, ...)?
    WriteMayFail,   \* may an INSERT fail?
    StoredUsers     \* the rows the file already holds when the program starts

ASSUME DatabaseAssumption ==
    /\ NoPixels \notin Pixels
    /\ LookupMayFail \in BOOLEAN
    /\ WriteMayFail \in BOOLEAN
    /\ StoredUsers \in Seq([name : Users, password : Passwords])
    /\ \A i, j \in DOMAIN StoredUsers :
         StoredUsers[i].name = StoredUsers[j].name => i = j

VARIABLES
    dbThread,   \* "off" before run(), "running", "failed" (start() failed), "stopped"
    requests,   \* m_Requests
    responses,  \* m_Responses
    users,      \* the rows of the table users, in the order of their ids
    messages,   \* the rows of the table messages
    pictures    \* the rows of profile_pictures: user ids to contents

dbVars == <<dbThread, requests, responses, users, messages, pictures>>

-----------------------------------------------------------------------------

Join == {"login", "register"}
Verdict == {"login_success", "login_fail", "register_success", "register_fail"}

\* The alternatives of the variant DbRequest.  "by" is a ghost:
\* the session a join request came from, which the code does not carry along.
JoinRequest == [type : Join, name : Users, password : Passwords, by : Sessions]
SaveMessageRequest == [type : {"save_message"}, chat : Chat]
SavePictureRequest == [type : {"save_picture"}, name : Users, content : Pixels \cup {NoPixels}]
GetPictureRequest == [type : {"get_picture"}, name : Users, recipient : Users]
ShutdownRequest == [type : {"shutdown"}]

Request == JoinRequest \cup SaveMessageRequest \cup SavePictureRequest
             \cup GetPictureRequest \cup ShutdownRequest

Answer == [type : Verdict, name : Users, by : Sessions]
PictureAnswer == [type : {"picture"}, name : Users, content : Pixels, recipient : Users]

Response == Answer \cup PictureAnswer

UserRow == [name : Users, password : Passwords]

\* A message row refers to its sender by the row id of the table users.
MessageRow == [id : Nat, text : Texts]

DatabaseTypeOK ==
    /\ dbThread \in {"off", "running", "failed", "stopped"}
    /\ requests \in Seq(Request)
    /\ responses \in Seq(Response)
    /\ users \in Seq(UserRow)
    /\ messages \in Seq(MessageRow)
    /\ DOMAIN pictures \subseteq DOMAIN users
    /\ pictures \in [DOMAIN pictures -> Pixels]

DatabaseInit ==
    /\ dbThread = "off"
    /\ requests = <<>>
    /\ responses = <<>>
    /\ users = StoredUsers
    /\ messages = <<>>
    /\ pictures = <<>>

-----------------------------------------------------------------------------
(* What other threads call: the request...() functions push on m_Requests. *)

Submit(reqs) == requests' = requests \o reqs

LoginRequest(u, p, s) ==
    [type |-> "login", name |-> u, password |-> p, by |-> s]

RegisterRequest(u, p, s) ==
    [type |-> "register", name |-> u, password |-> p, by |-> s]

MessageSaveRequest(c) == [type |-> "save_message", chat |-> c]

ProfilePictureSaveRequest(u, content) ==
    [type |-> "save_picture", name |-> u, content |-> content]

UserProfilePictureRequest(target, requester) ==
    [type |-> "get_picture", name |-> target, recipient |-> requester]

\* Variant of Close: the thread is told to stop at once.
CloseNow == requests' = <<[type |-> "shutdown"]>> \o requests

\* close(): shutting down is one more request, behind those already there.
Close == Submit(<<[type |-> "shutdown"]>>)

-----------------------------------------------------------------------------
(* Lookups in the tables.                                                  *)

\* The ids of the rows of a name.
RowsOf(u) == {i \in DOMAIN users : users[i].name = u}

\* Variants of IsFirstRow: the newest row is read, or the name is not bound.
IsLastRow(i, u) == i \in RowsOf(u) /\ \A j \in RowsOf(u) : j <= i
IsFirstRowOfTable(i, u) == i = 1

\* The row SELECT id FROM users WHERE username = ? steps on first: the
\* smallest rowid, as there is no index on username.
IsFirstRow(i, u) == i \in RowsOf(u) /\ \A j \in RowsOf(u) : i <= j

\* Variant of UserId: whatever is wrong with the SELECT counts as "not found".
UserIdOrFailure(u) == {0} \cup RowsOf(u)

\* What getUserId may return: ids start at 1, and 0 stands for nullopt.
UserId(u) ==
    {i \in DOMAIN users : IsFirstRow(i, u)}
        \cup (IF RowsOf(u) = {} \/ LookupMayFail THEN {0} ELSE {})

\* The outcomes of sqlite3_step on an INSERT.
WriteSucceeds == IF WriteMayFail THEN BOOLEAN ELSE {TRUE}

\* Variants of Reply: a stack, and a queue that drops what it has no room for.
ReplyFirst(response) == responses' = <<response>> \o responses
ReplyIfRead(response) ==
    responses' = IF responses = <<>> THEN <<response>> ELSE responses

Reply(response) == responses' = Append(responses, response)

-----------------------------------------------------------------------------
(* Handlers: what the visitor in run() does with each kind of request.     *)

\* handleLoginRequest: find the row of the name, compare the passwords.
HandleLogin(r) ==
    /\ r.type = "login"
    /\ \E id \in UserId(r.name) :
         Reply([type |-> IF id # 0 /\ users[id].password = r.password
                         THEN "login_success" ELSE "login_fail",
                name |-> r.name, by |-> r.by])
    /\ requests' = Tail(requests)
    /\ UNCHANGED <<dbThread, users, messages, pictures>>

\* handleRegisterRequest: check that the name is free, then insert; nothing in
\* the schema makes user names unique.
HandleRegister(r) ==
    /\ r.type = "register"
    /\ \E id \in UserId(r.name), done \in WriteSucceeds :
         IF id = 0 /\ done
         THEN /\ users' = Append(users, [name |-> r.name, password |-> r.password])
              /\ Reply([type |-> "register_success", name |-> r.name, by |-> r.by])
         ELSE /\ UNCHANGED users
              /\ Reply([type |-> "register_fail", name |-> r.name, by |-> r.by])
    /\ requests' = Tail(requests)
    /\ UNCHANGED <<dbThread, messages, pictures>>

\* handleMessageSaveRequest -> addMessage: nothing is stored for an unknown
\* sender or when the insertion fails, and nobody is told.
HandleSaveMessage(r) ==
    /\ r.type = "save_message"
    /\ \E id \in UserId(r.chat.sender), done \in WriteSucceeds :
         messages' = IF id # 0 /\ done
                     THEN Append(messages, [id |-> id, text |-> r.chat.text])
                     ELSE messages
    /\ requests' = Tail(requests)
    /\ UNCHANGED <<dbThread, responses, users, pictures>>

\* ProfilePictureSaveRequest: an empty content asks for the stored picture
\* instead, by a request that goes to the back of the same queue; a content
\* replaces the picture of the user (INSERT OR REPLACE, user_id UNIQUE).
HandleSavePicture(r) ==
    /\ r.type = "save_picture"
    /\ IF r.content = NoPixels
       THEN /\ requests' = Append(Tail(requests),
                               UserProfilePictureRequest(r.name, r.name))
            /\ UNCHANGED pictures
       ELSE /\ requests' = Tail(requests)
            /\ \E id \in UserId(r.name), done \in WriteSucceeds :
                 pictures' = IF id # 0 /\ done
                             THEN [i \in DOMAIN pictures \cup {id} |->
                                      IF i = id THEN r.content ELSE pictures[i]]
                             ELSE pictures
    /\ UNCHANGED <<dbThread, responses, users, messages>>

\* handleUserProfilePictureRequest: no answer at all when there is no picture.
HandleGetPicture(r) ==
    /\ r.type = "get_picture"
    /\ \E id \in UserId(r.name) :
         IF id \in DOMAIN pictures
         THEN Reply([type |-> "picture", name |-> r.name,
                     content |-> pictures[id], recipient |-> r.recipient])
         ELSE UNCHANGED responses
    /\ requests' = Tail(requests)
    /\ UNCHANGED <<dbThread, users, messages, pictures>>

HandleShutdown(r) ==
    /\ r.type = "shutdown"
    /\ dbThread' = "stopped"
    /\ requests' = Tail(requests)
    /\ UNCHANGED <<responses, users, messages, pictures>>

\* start(): open the file and create the tables that do not exist.  When it
\* fails the thread returns, and no request is ever served.
Start ==
    /\ dbThread = "off"
    /\ \E result \in {"running"} \cup (IF WriteMayFail THEN {"failed"} ELSE {}) :
         dbThread' = result
    /\ UNCHANGED <<requests, responses, users, messages, pictures>>

\* One turn of the loop in run(): waitAndPop and visit.
Serve ==
    /\ dbThread = "running"
    /\ requests # <<>>
    /\ LET r == Head(requests)
       IN  \/ HandleLogin(r)
           \/ HandleRegister(r)
           \/ HandleSaveMessage(r)
           \/ HandleSavePicture(r)
           \/ HandleGetPicture(r)
           \/ HandleShutdown(r)

DatabaseThread == Start \/ Serve

-----------------------------------------------------------------------------

\* The user names of the table users are distinct: the code relies on it (it
\* reads one row for a name) but only the check in handleRegisterRequest and
\* the single thread that runs it keep it so.
UniqueUsernames ==
    \A i, j \in DOMAIN users : users[i].name = users[j].name => i = j

\* What the table users promises, seen from outside: an account book in which
\* a name is opened once and its password never changes, even when a failed
\* lookup lets a second row of the name in.
Accounts == INSTANCE Accounts WITH
    account <- [u \in Users |->
                  IF RowsOf(u) = {} THEN {}
                  ELSE {users[i].password : i \in {j \in RowsOf(u) : IsFirstRow(j, u)}}]

AccountsSpec == Accounts!Spec

=============================================================================
