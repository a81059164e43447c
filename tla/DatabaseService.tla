-------------------------- MODULE DatabaseService --------------------------
(***************************************************************************)
(* The database thread with the threads that call it: they submit requests *)
(* in any order, take the answers, call close(), and the process may die   *)
(* and be started again on the same file.                                  *)
(***************************************************************************)
EXTENDS Database

CONSTANT MaxCalls    \* bound: the number of requests submitted

ASSUME CallsAssumption ==
    /\ MaxCalls \in Nat
    /\ Sessions = 1 .. MaxCalls

VARIABLES
    calls,      \* ghost: requests submitted so far; the sessions are numbered by it
    taken,      \* ghost: the sessions whose answers were taken, in order
    closed,     \* ghost: has close() been called?
    late        \* ghost: the requests submitted since, in order

serviceVars == <<dbVars, calls, taken, closed, late>>

TypeOK ==
    /\ DatabaseTypeOK
    /\ calls \in 0 .. MaxCalls
    /\ taken \in Seq(Sessions)
    /\ closed \in BOOLEAN
    /\ late \in Seq(Request)

Init ==
    /\ DatabaseInit
    /\ calls = 0
    /\ taken = <<>>
    /\ closed = FALSE
    /\ late = <<>>

Call(request) ==
    /\ calls < MaxCalls
    /\ calls' = calls + 1
    /\ Submit(<<request>>)
    /\ late' = IF closed THEN Append(late, request) ELSE late
    /\ UNCHANGED <<dbThread, responses, users, messages, pictures, taken, closed>>

RequestUserLogin ==
    \E u \in Users, p \in Passwords : Call(LoginRequest(u, p, calls + 1))

RequestUserRegister ==
    \E u \in Users, p \in Passwords : Call(RegisterRequest(u, p, calls + 1))

RequestMessageSave ==
    \E c \in Chat : Call(MessageSaveRequest(c))

RequestProfilePictureSave ==
    \E u \in Users, content \in Pixels \cup {NoPixels} :
        Call(ProfilePictureSaveRequest(u, content))

RequestUserProfilePicture ==
    \E u, requester \in Users : Call(UserProfilePictureRequest(u, requester))

\* getUserResponses().tryPop() in the server.
TakeResponse ==
    /\ responses # <<>>
    /\ responses' = Tail(responses)
    /\ taken' = IF Head(responses).type \in Verdict
                THEN Append(taken, Head(responses).by) ELSE taken
    /\ UNCHANGED <<dbThread, requests, users, messages, pictures, calls, closed, late>>

\* The application is torn down.  Other threads may still push after it.
CallClose ==
    /\ ~closed
    /\ Close
    /\ closed' = TRUE
    /\ UNCHANGED <<dbThread, responses, users, messages, pictures, calls, taken, late>>

\* The process dies, or ends after close(); what is in the tables stays, as
\* every INSERT is a transaction of its own, and the queues are gone.
Restart ==
    /\ dbThread' = "off"
    /\ requests' = <<>>
    /\ responses' = <<>>
    /\ closed' = FALSE
    /\ late' = <<>>
    /\ UNCHANGED <<users, messages, pictures, calls, taken>>

RunDatabase == DatabaseThread /\ UNCHANGED <<calls, taken, closed, late>>

Next ==
    \/ RunDatabase
    \/ RequestUserLogin
    \/ RequestUserRegister
    \/ RequestMessageSave
    \/ RequestProfilePictureSave
    \/ RequestUserProfilePicture
    \/ TakeResponse
    \/ CallClose
    \/ Restart

Spec == Init /\ [][Next]_serviceVars

\* The thread serves as long as it runs: waitAndPop is woken by every push.
FairSpec == Spec /\ WF_serviceVars(RunDatabase)

-----------------------------------------------------------------------------
(* Properties.                                                             *)

\* The sessions answered so far: the taken answers, then the queued ones.
Answered ==
    LET queued == OfType(responses, Verdict)
    IN  taken \o [i \in DOMAIN queued |-> queued[i].by]

\* Join requests are answered in the order they were made and at most once
\* (Server::handlePendingSessions pairs an answer with a session by name only,
\* so it depends on this order), whatever else is queued and across restarts.
AnsweredInOrder ==
    \A i, j \in DOMAIN Answered : i < j => Answered[i] < Answered[j]

\* The requests that lose something when they are never served: a user waits
\* for the answer, or a row is not written.
Owing == Join \cup {"save_message", "save_picture"}

\* An orderly stop loses no login, registration, chat or picture that was handed
\* over before close(): of these, a stopped thread leaves exactly those in the
\* queue that were handed over after it.  Requests for a stored picture are the
\* exception: an empty ProfilePictureSaveRequest becomes one, which is queued
\* behind the ShutdownRequest and is never served (Database.cpp:50-57).
StopDrainsQueue ==
    dbThread = "stopped" => OfType(requests, Owing) = OfType(late, Owing)

\* Every join request is answered eventually, unless the thread failed to
\* start, was stopped, or the process restarted.
EveryJoinAnswered ==
    \A s \in Sessions :
        (\E i \in DOMAIN requests : requests[i].type \in Join /\ requests[i].by = s)
            ~> (\/ \E i \in DOMAIN Answered : Answered[i] = s
                \/ dbThread \in {"off", "failed", "stopped"})

=============================================================================
