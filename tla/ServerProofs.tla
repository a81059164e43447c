---------------------------- MODULE ServerProofs ----------------------------
(* Proofs about Server, for any users, connections, join lines and chats.  *)
EXTENDS Server, DatabaseLemmas, FiniteSetTheorems

\* Whoever sent a join line has a name.
Named == \A s \in Sessions : lines[s] > 0 => name[s] \in Users

\* Who is a member, waits for an answer or is being decided on sent a join
\* line; a session's name is set by its join line only, so that it is theirs
\* for good.
Joined ==
    /\ \A s \in sessions : lines[s] > 0
    /\ \A u \in Users : pending[u] # None => lines[pending[u]] > 0
    /\ uiSession # None => lines[uiSession] > 0

\* What the interface thread holds where it is.
UiPlaces ==
    /\ uiPc = "picture" => uiAnswer \in PictureAnswer
    /\ uiPc \in {"pending", "decide", "accept"} => uiAnswer \in Answer
    /\ uiPc \in {"decide", "accept"} => uiSession \in Sessions
    /\ uiPc = "broadcast" => uiChat \in Chat
    /\ uiPc = "kick" => userToKick \in Users

\* What isUserConnected found still holds when onClientAccept runs: between the
\* two critical sections sessions may leave, but none can enter.
Checked == uiPc = "accept" => \A s \in sessions : name[s] # name[uiSession]

Inv ==
    /\ TypeOK
    /\ Named
    /\ Joined
    /\ UiPlaces
    /\ Checked
    /\ OneSessionPerUser

-----------------------------------------------------------------------------
(* The operations the steps are made of.                                   *)

LEMMA SendTyped ==
  ASSUME SessionTypeOK, NEW group, NEW out \in Seq(Out), Send(group, out)
  PROVE  outbox' \in [Sessions -> Seq(Out)]
<1>1. \A s \in Sessions : outbox[s] \in Seq(Out) /\ outbox[s] \o out \in Seq(Out)
  BY ConcatProperties DEF SessionTypeOK
<1> QED
  BY <1>1 DEF Send

LEMMA SubmitTyped ==
  ASSUME DatabaseTypeOK, NEW reqs \in Seq(Request), Submit(reqs)
  PROVE  requests' \in Seq(Request)
  BY ConcatProperties DEF DatabaseTypeOK, Submit

LEMMA SubmitOneTyped ==
  ASSUME DatabaseTypeOK, NEW request \in Request, Submit(<<request>>)
  PROVE  requests' \in Seq(Request)
<1>1. <<request>> \in Seq(Request)
  OBVIOUS
<1> QED
  BY <1>1, SubmitTyped

LEMMA ReadLineTyped ==
  ASSUME SessionTypeOK, NEW s \in Sessions, ReadLine(s)
  PROVE  /\ reading' \in [Sessions -> BOOLEAN]
         /\ UNCHANGED <<conn, peer, outbox, stuck, inChat, written>>
  BY DEF SessionTypeOK, ReadLine

LEMMA PictureRequestsTyped ==
  ASSUME Inv, NEW members \in SetToSeqs(sessions), NEW s \in Sessions, lines[s] > 0
  PROVE  PictureRequests(members, s) \in Seq(Request)
<1>1. members \in [1 .. Cardinality(sessions) -> sessions]
  BY DEF SetToSeqs
<1>2. Cardinality(sessions) \in Nat
  BY ServerAssumption, FS_Subset, FS_CardinalityType DEF Inv, TypeOK
<1>3. Len(members) = Cardinality(sessions)
  BY <1>1, <1>2
<1>4. \A i \in 1 .. 2 * Len(members) : (i + 1) \div 2 \in 1 .. Len(members)
  BY <1>2, <1>3
<1>5. \A t \in sessions \cup {s} : t \in Sessions /\ name[t] \in Users
  BY DEF Inv, TypeOK, Named, Joined
<1>6. \A i \in 1 .. 2 * Len(members) :
        /\ UserProfilePictureRequest(name[members[(i + 1) \div 2]], name[s]) \in Request
        /\ UserProfilePictureRequest(name[s], name[members[(i + 1) \div 2]]) \in Request
  <2> SUFFICES ASSUME NEW u \in Users, NEW v \in Users
               PROVE  UserProfilePictureRequest(u, v) \in Request
    BY <1>1, <1>3, <1>4, <1>5
  <2> QED
    BY DEF UserProfilePictureRequest, Request, GetPictureRequest
<1>7. PictureRequests(members, s) \in [1 .. 2 * Len(members) -> Request]
  BY <1>6 DEF PictureRequests
<1>8. 2 * Len(members) \in Nat
  BY <1>2, <1>3
<1> QED
  BY <1>7, <1>8

-----------------------------------------------------------------------------
(* The initial states.                                                     *)

LEMMA InvInit == Init => Inv
<1> SUFFICES ASSUME Init PROVE Inv
  OBVIOUS
<1>1. DatabaseTypeOK
  BY EmptySeq, DatabaseAssumption DEF Init, DatabaseInit, DatabaseTypeOK, UserRow
<1>2. SessionTypeOK
  BY EmptySeq DEF Init, SessionInit, SessionTypeOK
<1>3. TypeOK
  BY <1>1, <1>2, EmptySeq DEF Init, TypeOK, UiPc
<1>4. Named /\ Joined /\ UiPlaces /\ Checked /\ OneSessionPerUser
  BY DEF Init, SessionInit, Named, Joined, UiPlaces, Checked, OneSessionPerUser
<1> QED
  BY <1>3, <1>4 DEF Inv

-----------------------------------------------------------------------------
(* The steps of the network thread.                                        *)

LEMMA ReadJoinStep ==
  ASSUME Inv, NEW s \in Sessions, ReadJoin(s) PROVE Inv'
<1> USE DEF Inv
<1>1. PICK join \in Joins :
        /\ join.by = s
        /\ name' = [name EXCEPT ![s] = join.name]
        /\ pending' = [pending EXCEPT ![join.name] = s]
        /\ Submit(<<join>>)
  BY DEF ReadJoin
<1>2. join \in Request /\ join.name \in Users
  BY ServerAssumption DEF Request, JoinRequest
<1>3. requests' \in Seq(Request)
  BY <1>1, <1>2, SubmitOneTyped DEF TypeOK
<1>4. DatabaseTypeOK'
  BY <1>3 DEF ReadJoin, TypeOK, DatabaseTypeOK
<1>5. SessionTypeOK'
  BY <1>1, <1>2, ReadLineTyped DEF ReadJoin, TypeOK, SessionTypeOK
<1>6. TypeOK'
  BY <1>1, <1>2, <1>4, <1>5 DEF ReadJoin, TypeOK, uiVars
<1>7. /\ lines[s] = 0 /\ lines' = [lines EXCEPT ![s] = 1]
      /\ UNCHANGED <<sessions, uiPc, uiAnswer, uiSession, uiChat, userToKick>>
      /\ lines \in [Sessions -> 0 .. 2] /\ name \in [Sessions -> Users \cup {None}]
  BY DEF ReadJoin, uiVars, TypeOK, SessionTypeOK
<1>8. Named'
  BY <1>1, <1>2, <1>7 DEF Named
<1>9. Joined'
  BY <1>1, <1>2, <1>7, ProtocolAssumption DEF Joined, TypeOK
<1>10. UiPlaces'
  BY <1>7 DEF UiPlaces
<1>11. s \notin sessions /\ s # uiSession
  BY <1>7, ProtocolAssumption DEF Joined
<1>12. Checked' /\ OneSessionPerUser'
  BY <1>1, <1>7, <1>11 DEF Checked, OneSessionPerUser, TypeOK, UiPlaces
<1> QED
  BY <1>6, <1>8, <1>9, <1>10, <1>12

LEMMA ReadPictureStep ==
  ASSUME Inv, NEW s \in Sessions, ReadPicture(s) PROVE Inv'
<1> USE DEF Inv
<1>1. PICK content \in Pixels \cup {NoPixels} :
        /\ Submit(<<ProfilePictureSaveRequest(name[s], content)>>)
        /\ owed' = IF content = NoPixels THEN OwedNow({<<s, name[s]>>}) ELSE owed
  BY DEF ReadPicture
<1>2. name[s] \in Users
  BY DEF ReadPicture, Named
<1>3. ProfilePictureSaveRequest(name[s], content) \in Request
  BY <1>2 DEF ProfilePictureSaveRequest, Request, SavePictureRequest
<1>4. requests' \in Seq(Request)
  BY <1>1, <1>3, SubmitOneTyped DEF TypeOK
<1>5. owed' \subseteq Sessions \X Users
  BY <1>1, <1>2 DEF OwedNow, TypeOK
<1>6. DatabaseTypeOK'
  BY <1>4 DEF ReadPicture, TypeOK, DatabaseTypeOK
<1>7. SessionTypeOK'
  BY ReadLineTyped DEF ReadPicture, TypeOK, SessionTypeOK
<1>8. TypeOK'
  BY <1>5, <1>6, <1>7 DEF ReadPicture, TypeOK, uiVars
<1>9. /\ lines[s] = 1 /\ lines' = [lines EXCEPT ![s] = 2]
      /\ lines \in [Sessions -> 0 .. 2]
      /\ UNCHANGED <<name, sessions, pending>>
      /\ UNCHANGED <<uiPc, uiAnswer, uiSession, uiChat, userToKick>>
  BY DEF ReadPicture, uiVars, TypeOK, SessionTypeOK
<1>10. Named' /\ Joined'
  BY <1>9 DEF Named, Joined, TypeOK
<1>11. UiPlaces' /\ Checked' /\ OneSessionPerUser'
  BY <1>9 DEF UiPlaces, Checked, OneSessionPerUser
<1> QED
  BY <1>8, <1>10, <1>11

\* The other steps of the network thread and of the clients change neither who
\* is named what nor what the interface thread holds, and let nobody in.
LEMMA Elsewhere ==
  ASSUME Inv, TypeOK', sessions' \subseteq sessions,
         UNCHANGED <<lines, name, pending, uiPc, uiAnswer, uiSession, uiChat, userToKick>>
  PROVE  Inv'
  BY DEF Inv, Named, Joined, UiPlaces, Checked, OneSessionPerUser

LEMMA ReadChatStep ==
  ASSUME Inv, NEW s \in Sessions, ReadChat(s) PROVE Inv'
<1> USE DEF Inv
<1>1. name[s] \in Users
  BY DEF ReadChat, Named
<1>2. inbox' \in Seq(Chat)
  BY <1>1, AppendProperties DEF ReadChat, TypeOK, Chat
<1>3. SessionTypeOK'
  BY ReadLineTyped DEF ReadChat, TypeOK, SessionTypeOK
<1>4. TypeOK'
  BY <1>2, <1>3 DEF ReadChat, TypeOK, DatabaseTypeOK, dbVars, uiVars
<1> QED
  BY <1>4, Elsewhere DEF ReadChat, uiVars

LEMMA ReadEofStep ==
  ASSUME Inv, NEW s \in Sessions, ReadEof(s) PROVE Inv'
<1> USE DEF Inv
<1>1. name[s] \in ListedName
  BY DEF TypeOK, SessionTypeOK, ListedName
<1>2. disconnectedNames' \in Seq(ListedName)
  BY <1>1, AppendProperties DEF ReadEof, TypeOK
<1>3. SessionTypeOK'
  BY DEF ReadEof, ReadEnd, TypeOK, SessionTypeOK
<1>4. TypeOK'
  BY <1>2, <1>3 DEF ReadEof, TypeOK, DatabaseTypeOK, dbVars, uiVars
<1> QED
  BY <1>4, Elsewhere DEF ReadEof, ReadEnd, uiVars

LEMMA EraseSessionStep ==
  ASSUME Inv, EraseSession PROVE Inv'
<1> USE DEF Inv
<1>1. TypeOK'
  BY DEF EraseSession, TypeOK, DatabaseTypeOK, SessionTypeOK, dbVars, sessionVars, uiVars
<1>2. sessions' \subseteq sessions
  BY DEF EraseSession
<1> QED
  BY <1>1, <1>2, Elsewhere DEF EraseSession, sessionVars, uiVars

\* The steps of one session alone.
LEMMA OwnStep ==
  ASSUME Inv, SessionTypeOK', UNCHANGED <<lines, name>>,
         UNCHANGED <<dbVars, serverVars, uiVars, fault>>
  PROVE  Inv'
<1>1. TypeOK'
  BY DEF Inv, TypeOK, DatabaseTypeOK, dbVars, serverVars, uiVars
<1> QED
  BY <1>1, Elsewhere DEF serverVars, uiVars

LEMMA SessionAloneStep ==
  ASSUME Inv, NEW s \in Sessions,
         \/ Accepted(s) \/ ReadFailed(s) \/ Written(s) \/ WriteFailed(s) \/ Disconnected(s)
  PROVE  Inv'
<1>1. SessionTypeOK
  BY DEF Inv, TypeOK
<1>2. outbox[s] # <<>> => /\ Head(outbox[s]) \in Out
                          /\ Tail(outbox[s]) \in Seq(Out)
                          /\ Append(written[s], Head(outbox[s])) \in Seq(Out)
                          /\ Append(written[s], Bye) \in Seq(Out)
  <2>1. outbox[s] \in Seq(Out) /\ written[s] \in Seq(Out)
    BY <1>1 DEF SessionTypeOK
  <2>2. Bye \in Out
    BY DEF Bye, Out
  <2> QED
    BY <2>1, <2>2, HeadTailProperties, AppendProperties
<1>3. CASE Accepted(s)
  <2>1. SessionTypeOK'
    BY <1>1, <1>3 DEF Accepted, Connect, SessionTypeOK
  <2> QED
    BY <1>3, <2>1, OwnStep DEF Accepted, SessionAlone, Connect
<1>4. CASE ReadFailed(s)
  <2>1. SessionTypeOK'
    BY <1>1, <1>4 DEF ReadFailed, ReadError, SessionTypeOK
  <2> QED
    BY <1>4, <2>1, OwnStep DEF ReadFailed, SessionAlone, ReadError
<1>5. CASE Written(s)
  <2>1. SessionTypeOK'
    BY <1>1, <1>2, <1>5 DEF Written, Write, SessionTypeOK
  <2> QED
    BY <1>5, <2>1, OwnStep DEF Written, SessionAlone, Write
<1>6. CASE WriteFailed(s)
  <2>1. SessionTypeOK'
    BY <1>1, <1>6 DEF WriteFailed, WriteError, SessionTypeOK
  <2> QED
    BY <1>6, <2>1, OwnStep DEF WriteFailed, SessionAlone, WriteError
<1>7. CASE Disconnected(s)
  <2>1. SessionTypeOK'
    BY <1>1, <1>2, <1>7 DEF Disconnected, Disconnect, SessionTypeOK
  <2> QED
    BY <1>7, <2>1, OwnStep DEF Disconnected, SessionAlone, Disconnect
<1> QED
  BY <1>3, <1>4, <1>5, <1>6, <1>7

-----------------------------------------------------------------------------
(* The steps of the interface thread.                                      *)

LEMMA PopResponseStep ==
  ASSUME Inv, PopResponse PROVE Inv'
<1> USE DEF Inv
<1>1. /\ UNCHANGED <<dbThread, requests, users, messages, pictures>>
      /\ UNCHANGED <<sessionVars, serverVars, uiSession, uiChat, panel, userToKick, fault>>
  BY DEF PopResponse
<1>2. CASE responses = <<>>
  <2>1. UNCHANGED <<responses, uiAnswer>> /\ uiPc' = "inbox"
    BY <1>2 DEF PopResponse, UiGoto
  <2>2. TypeOK'
    BY <1>1, <2>1 DEF TypeOK, DatabaseTypeOK, SessionTypeOK, sessionVars, serverVars, UiPc
  <2> QED
    BY <1>1, <2>1, <2>2 DEF Named, Joined, UiPlaces, Checked, OneSessionPerUser,
       sessionVars, serverVars
<1>3. CASE responses # <<>>
  <2>1. /\ responses' = Tail(responses) /\ uiAnswer' = Head(responses)
        /\ uiPc' = IF Head(responses).type = "picture" THEN "picture" ELSE "pending"
    BY <1>3 DEF PopResponse, UiGoto
  <2>2. Head(responses) \in Response /\ Tail(responses) \in Seq(Response)
    BY <1>3, HeadTailProperties DEF TypeOK, DatabaseTypeOK
  <2>3. IF Head(responses).type = "picture" THEN Head(responses) \in PictureAnswer
                                            ELSE Head(responses) \in Answer
    BY <2>2 DEF Response, Answer, PictureAnswer, Verdict
  <2>4. TypeOK'
    BY <1>1, <2>1, <2>2 DEF TypeOK, DatabaseTypeOK, SessionTypeOK, sessionVars,
       serverVars, UiPc
  <2> QED
    BY <1>1, <2>1, <2>3, <2>4 DEF Named, Joined, UiPlaces, Checked, OneSessionPerUser,
       sessionVars, serverVars
<1> QED
  BY <1>2, <1>3

\* The steps that go back to the loop of the answers, or to places where the
\* interface thread holds no answer.
LEMMA Released ==
  ASSUME Inv, TypeOK', sessions' \subseteq sessions, UNCHANGED <<lines, name>>,
         pending' = pending \/ \E u \in Users : pending' = [pending EXCEPT ![u] = None],
         uiSession' \in {uiSession, None},
         uiPc' \in {"responses", "inbox", "clients", "render"}
  PROVE  Inv'
<1> USE DEF Inv
<1>1. Named' /\ UiPlaces' /\ Checked' /\ OneSessionPerUser'
  BY DEF Named, UiPlaces, Checked, OneSessionPerUser
<1>2. Joined'
  BY DEF Joined, TypeOK
<1> QED
  BY <1>1, <1>2

LEMMA PictureStep ==
  ASSUME Inv, HandleProfilePictureDataRequest PROVE Inv'
<1> USE DEF Inv
<1>1. uiAnswer.name \in Users
  BY DEF HandleProfilePictureDataRequest, UiAt, UiPlaces, PictureAnswer
<1>2. <<PictureLine(uiAnswer.name)>> \in Seq(Out)
  BY <1>1 DEF PictureLine, Out
<1>3. outbox' \in [Sessions -> Seq(Out)]
  BY <1>2, SendTyped DEF HandleProfilePictureDataRequest, TypeOK
<1>4. TypeOK'
  BY <1>3 DEF HandleProfilePictureDataRequest, UiGoto, TypeOK, DatabaseTypeOK,
     SessionTypeOK, dbVars, serverVars, UiPc
<1> QED
  BY <1>4, Released DEF HandleProfilePictureDataRequest, UiGoto, serverVars

LEMMA RejectTyped ==
  ASSUME TypeOK, uiAnswer \in Answer, NEW s, OnClientReject(s)
  PROVE  /\ outbox' \in [Sessions -> Seq(Out)]
         /\ disconnectedNames' \in Seq(ListedName)
<1>1. uiAnswer.by \in Sessions
  BY DEF Answer
<1>2. <<Reject(uiAnswer.by), Bye>> \in Seq(Out)
  BY <1>1 DEF Reject, Bye, Out
<1>3. "rejected" \in ListedName
  BY DEF ListedName
<1> QED
  BY <1>2, <1>3, SendTyped, AppendProperties DEF OnClientReject, TypeOK

LEMMA HandlePendingStep ==
  ASSUME Inv, HandlePendingSessions PROVE Inv'
<1> USE DEF Inv
<1>1. uiAnswer \in Answer /\ uiAnswer.name \in Users
  BY DEF HandlePendingSessions, UiAt, UiPlaces, Answer
<1>2. Waiting \in Sessions \cup {None}
  BY <1>1 DEF Waiting, TypeOK
<1>3. /\ UNCHANGED <<conn, peer, reading, lines, inChat, name, stuck, written>>
      /\ UNCHANGED <<sessions, inbox, pendingNames, erasing, log, owed, lastIn>>
      /\ UNCHANGED <<dbVars, uiChat, panel, userToKick>>
      /\ uiPc = "pending"
  BY DEF HandlePendingSessions, UiAt
<1>4. CASE Waiting = None
  <2>1. /\ fault' = "null_session"
        /\ UNCHANGED <<pending, outbox, disconnectedNames, uiPc, uiAnswer, uiSession>>
    BY <1>4 DEF HandlePendingSessions, Waiting
  <2>2. TypeOK'
    BY <1>3, <2>1 DEF TypeOK, DatabaseTypeOK, SessionTypeOK, dbVars
  <2> QED
    BY <1>3, <2>1, <2>2, Elsewhere
<1>5. CASE Waiting # None /\ uiAnswer.type \in {"login_success", "register_success"}
  <2>1. /\ pending' = [pending EXCEPT ![uiAnswer.name] = None]
        /\ uiSession' = Waiting /\ uiPc' = "decide"
        /\ UNCHANGED <<fault, outbox, disconnectedNames, uiAnswer>>
    BY <1>5 DEF HandlePendingSessions, UiGoto, Waiting
  <2>2. TypeOK'
    BY <1>2, <1>3, <1>5, <2>1 DEF TypeOK, DatabaseTypeOK, SessionTypeOK, dbVars, UiPc
  <2>3. lines[Waiting] > 0
    BY <1>1, <1>5 DEF Joined, Waiting
  <2>4. Joined'
    BY <1>1, <1>3, <2>1, <2>3 DEF Joined, TypeOK
  <2>5. Named' /\ UiPlaces' /\ Checked' /\ OneSessionPerUser'
    BY <1>1, <1>2, <1>3, <1>5, <2>1 DEF Named, UiPlaces, Checked, OneSessionPerUser
  <2> QED
    BY <2>2, <2>4, <2>5
<1>6. CASE Waiting # None /\ uiAnswer.type \notin {"login_success", "register_success"}
  <2>1. /\ pending' = [pending EXCEPT ![uiAnswer.name] = None]
        /\ OnClientReject(Waiting)
        /\ uiAnswer' = None /\ uiPc' = "responses"
        /\ UNCHANGED <<fault, uiSession>>
    BY <1>6 DEF HandlePendingSessions, UiGoto, Waiting
  <2>2. outbox' \in [Sessions -> Seq(Out)] /\ disconnectedNames' \in Seq(ListedName)
    BY <1>1, <2>1, RejectTyped
  <2>3. TypeOK'
    BY <1>1, <1>3, <2>1, <2>2 DEF TypeOK, DatabaseTypeOK, SessionTypeOK, dbVars, UiPc
  <2> QED
    BY <1>1, <1>3, <2>1, <2>3, Released
<1> QED
  BY <1>4, <1>5, <1>6

LEMMA IsUserConnectedStep ==
  ASSUME Inv, IsUserConnected PROVE Inv'
<1> USE DEF Inv
<1>1. uiAnswer \in Answer /\ uiSession \in Sessions
  BY DEF IsUserConnected, UiAt, UiPlaces
<1>2. /\ UNCHANGED <<conn, peer, reading, lines, inChat, name, stuck, written>>
      /\ UNCHANGED <<sessions, pending, inbox, pendingNames, erasing, log, owed, lastIn>>
      /\ UNCHANGED <<dbVars, uiChat, panel, userToKick, fault>>
  BY DEF IsUserConnected
<1>3. CASE Members(name[uiSession]) = {}
  <2>1. uiPc' = "accept" /\ UNCHANGED <<outbox, disconnectedNames, uiAnswer, uiSession>>
    BY <1>3 DEF IsUserConnected, UiGoto
  <2>2. TypeOK'
    BY <1>2, <2>1 DEF TypeOK, DatabaseTypeOK, SessionTypeOK, dbVars, UiPc
  <2>3. Checked'
    BY <1>2, <1>3, <2>1 DEF Checked, Members
  <2>4. Named' /\ Joined' /\ UiPlaces' /\ OneSessionPerUser'
    BY <1>1, <1>2, <2>1 DEF Named, Joined, UiPlaces, OneSessionPerUser
  <2> QED
    BY <2>2, <2>3, <2>4
<1>4. CASE Members(name[uiSession]) # {}
  <2>1. OnClientReject(uiSession) /\ uiAnswer' = None /\ uiSession' = None
          /\ uiPc' = "responses"
    BY <1>4 DEF IsUserConnected, UiGoto
  <2>2. outbox' \in [Sessions -> Seq(Out)] /\ disconnectedNames' \in Seq(ListedName)
    BY <1>1, <2>1, RejectTyped
  <2>3. TypeOK'
    BY <1>2, <2>1, <2>2 DEF TypeOK, DatabaseTypeOK, SessionTypeOK, dbVars, UiPc
  <2> QED
    BY <1>2, <2>1, <2>3, Released
<1> QED
  BY <1>3, <1>4

LEMMA OnClientAcceptStep ==
  ASSUME Inv, OnClientAccept PROVE Inv'
<1> USE DEF Inv
<1>1. /\ uiPc = "accept" /\ uiAnswer \in Answer /\ uiSession \in Sessions
      /\ lines[uiSession] > 0 /\ name[uiSession] \in Users
  BY ProtocolAssumption DEF OnClientAccept, UiAt, UiPlaces, Joined, Named
<1>2. /\ UNCHANGED <<dbThread, responses, users, messages, pictures>>
      /\ UNCHANGED <<conn, peer, reading, lines, inChat, name, stuck, written>>
      /\ UNCHANGED <<pending, inbox, disconnectedNames, erasing, log>>
      /\ UNCHANGED <<uiChat, panel, userToKick, fault>>
      /\ sessions' = sessions \cup {uiSession}
      /\ uiAnswer' = None /\ uiSession' = None /\ uiPc' = "responses"
  BY DEF OnClientAccept, UiGoto
<1>3. requests' \in Seq(Request)
  BY <1>1, PictureRequestsTyped, SubmitTyped DEF OnClientAccept, TypeOK
<1>4. owed' \subseteq Sessions \X Users
  <2>1. \A m \in sessions : m \in Sessions /\ name[m] \in Users
    BY DEF Named, Joined, TypeOK
  <2> QED
    BY <1>1, <2>1 DEF OnClientAccept, OwedNow, TypeOK
<1>5. pendingNames' \in Seq(Users)
  BY <1>1, AppendProperties DEF OnClientAccept, TypeOK
<1>6. outbox' \in [Sessions -> Seq(Out)]
  <2>1. <<Accept(uiAnswer.by)>> \in Seq(Out)
    BY <1>1 DEF Accept, Answer, Out
  <2> QED
    BY <2>1, SendTyped DEF OnClientAccept, TypeOK
<1>7. TypeOK'
  <2>1. lastIn' \in [Users -> Sessions \cup {None}]
    BY <1>1 DEF OnClientAccept, TypeOK
  <2> QED
    BY <1>1, <1>2, <1>3, <1>4, <1>5, <1>6, <2>1 DEF TypeOK, DatabaseTypeOK, SessionTypeOK, UiPc
<1>8. Named' /\ Joined' /\ UiPlaces' /\ Checked'
  BY <1>1, <1>2 DEF Named, Joined, UiPlaces, Checked
<1>9. OneSessionPerUser'
  BY <1>1, <1>2 DEF Checked, OneSessionPerUser
<1> QED
  BY <1>7, <1>8, <1>9

LEMMA PopInboxStep ==
  ASSUME Inv, PopInbox PROVE Inv'
<1> USE DEF Inv
<1>1. /\ UNCHANGED <<sessions, pending, pendingNames, disconnectedNames, erasing, log, owed, lastIn>>
      /\ UNCHANGED <<dbVars, sessionVars, uiAnswer, uiSession, panel, userToKick, fault>>
  BY DEF PopInbox
<1>2. CASE inbox = <<>>
  <2>1. uiPc' = "clients" /\ UNCHANGED <<inbox, uiChat>>
    BY <1>2 DEF PopInbox, UiGoto
  <2>2. TypeOK'
    BY <1>1, <2>1 DEF TypeOK, DatabaseTypeOK, SessionTypeOK, dbVars, sessionVars, UiPc
  <2> QED
    BY <1>1, <2>1, <2>2, Released DEF sessionVars
<1>3. CASE inbox # <<>>
  <2>1. uiPc' = "broadcast" /\ uiChat' = Head(inbox) /\ inbox' = Tail(inbox)
    BY <1>3 DEF PopInbox, UiGoto
  <2>2. Head(inbox) \in Chat /\ Tail(inbox) \in Seq(Chat)
    BY <1>3, HeadTailProperties DEF TypeOK
  <2>3. TypeOK'
    BY <1>1, <2>1, <2>2 DEF TypeOK, DatabaseTypeOK, SessionTypeOK, dbVars, sessionVars, UiPc
  <2> QED
    BY <1>1, <2>1, <2>2, <2>3 DEF Named, Joined, UiPlaces, Checked, OneSessionPerUser,
       sessionVars
<1> QED
  BY <1>2, <1>3

LEMMA BroadcastStep ==
  ASSUME Inv, Broadcast PROVE Inv'
<1> USE DEF Inv
<1>1. uiChat \in Chat
  BY DEF Broadcast, UiAt, UiPlaces
<1>2. outbox' \in [Sessions -> Seq(Out)]
  <2>1. <<ChatLine(uiChat)>> \in Seq(Out)
    BY <1>1 DEF ChatLine, Out
  <2> QED
    BY <2>1, SendTyped DEF Broadcast, TypeOK
<1>3. requests' \in Seq(Request)
  <2>1. MessageSaveRequest(uiChat) \in Request
    BY <1>1 DEF MessageSaveRequest, Request, SaveMessageRequest
  <2> QED
    BY <2>1, SubmitOneTyped DEF Broadcast, TypeOK
<1>4. log' \in Seq(Chat)
  BY <1>1, AppendProperties DEF Broadcast, TypeOK
<1>5. TypeOK'
  BY <1>2, <1>3, <1>4 DEF Broadcast, UiGoto, TypeOK, DatabaseTypeOK, SessionTypeOK, UiPc
<1> QED
  BY <1>5, Released DEF Broadcast, UiGoto

LEMMA OnUpdateClientsStep ==
  ASSUME Inv, OnUpdateClients PROVE Inv'
<1> USE DEF Inv
<1>1. panel' \subseteq Users
  <2>1. ToSet(pendingNames) \subseteq Users
    BY LenProperties, ElementOfSeq DEF ToSet, TypeOK
  <2> QED
    BY <2>1 DEF OnUpdateClients, TypeOK
<1>2. TypeOK'
  BY <1>1, EmptySeq DEF OnUpdateClients, UiGoto, TypeOK, DatabaseTypeOK, SessionTypeOK,
     dbVars, sessionVars, UiPc
<1> QED
  BY <1>2, Released DEF OnUpdateClients, UiGoto, sessionVars

LEMMA RenderStep ==
  ASSUME Inv, Render PROVE Inv'
<1> USE DEF Inv
<1>1. /\ UNCHANGED <<dbVars, sessionVars, serverVars>>
      /\ UNCHANGED <<uiAnswer, uiSession, uiChat, panel, fault>>
      /\ userToKick' \in Users \cup {None}
      /\ \/ uiPc' = "responses"
         \/ uiPc' = "kick" /\ userToKick' \in Users
  BY DEF Render, UiGoto, TypeOK
<1>2. TypeOK'
  BY <1>1 DEF TypeOK, DatabaseTypeOK, SessionTypeOK, dbVars, sessionVars, serverVars, UiPc
<1> QED
  BY <1>1, <1>2 DEF Named, Joined, UiPlaces, Checked, OneSessionPerUser,
     sessionVars, serverVars

LEMMA KickUserStep ==
  ASSUME Inv, KickUser PROVE Inv'
<1> USE DEF Inv
<1>1. userToKick \in Users
  BY DEF KickUser, UiAt, UiPlaces
<1>2. /\ UNCHANGED <<conn, peer, reading, lines, inChat, name, stuck, written>>
      /\ UNCHANGED <<pending, inbox, pendingNames, erasing, log, owed, lastIn>>
      /\ UNCHANGED <<dbVars, uiAnswer, uiSession, uiChat, panel>>
  BY DEF KickUser
<1>3. CASE Members(userToKick) = {}
  <2>1. fault' = "end_iterator"
          /\ UNCHANGED <<outbox, sessions, disconnectedNames, uiPc, userToKick>>
    BY <1>3 DEF KickUser
  <2>2. TypeOK'
    BY <1>2, <2>1 DEF TypeOK, DatabaseTypeOK, SessionTypeOK, dbVars
  <2> QED
    BY <1>2, <2>1, <2>2, Elsewhere
<1>4. CASE Members(userToKick) # {}
  <2>1. PICK s \in Members(userToKick) :
          Send({s}, <<Kick, Bye>>) /\ sessions' = sessions \ {s}
    BY <1>4 DEF KickUser
  <2>2. disconnectedNames' = Append(disconnectedNames, userToKick)
          /\ userToKick' = None /\ uiPc' = "responses" /\ UNCHANGED fault
    BY <1>4 DEF KickUser, UiGoto
  <2>3. outbox' \in [Sessions -> Seq(Out)]
    <3>1. <<Kick, Bye>> \in Seq(Out)
      BY DEF Kick, Bye, Out
    <3> QED
      BY <2>1, <3>1, SendTyped DEF TypeOK
  <2>4. disconnectedNames' \in Seq(ListedName)
    BY <1>1, <2>2, AppendProperties DEF TypeOK, ListedName
  <2>5. TypeOK'
    BY <1>2, <2>1, <2>2, <2>3, <2>4 DEF TypeOK, DatabaseTypeOK, SessionTypeOK, dbVars, UiPc
  <2> QED
    BY <1>2, <2>1, <2>2, <2>5, Released
<1> QED
  BY <1>3, <1>4

-----------------------------------------------------------------------------

LEMMA InvStep == Inv /\ [Next]_vars => Inv'
<1> SUFFICES ASSUME Inv, [Next]_vars PROVE Inv'
  OBVIOUS
<1>1. CASE NetworkThread
  BY <1>1, EraseSessionStep, ReadJoinStep, ReadPictureStep, ReadChatStep, ReadEofStep,
     SessionAloneStep DEF NetworkThread
<1>2. CASE UiThread
  BY <1>2, PopResponseStep, PictureStep, HandlePendingStep, IsUserConnectedStep,
     OnClientAcceptStep, PopInboxStep, BroadcastStep, OnUpdateClientsStep, RenderStep,
     KickUserStep DEF UiThread
<1>3. CASE RunDatabase
  <2>1. DatabaseTypeOK'
    BY <1>3, DatabaseThreadTyped DEF RunDatabase, Inv, TypeOK
  <2>2. TypeOK'
    BY <1>3, <2>1 DEF RunDatabase, Inv, TypeOK, SessionTypeOK, sessionVars, serverVars, uiVars
  <2> QED
    BY <1>3, <2>2, Elsewhere DEF RunDatabase, sessionVars, serverVars, uiVars
<1>4. CASE Leave
  <2>1. PICK s \in Leavers : ClientLeaves(s)
    BY <1>4 DEF Leave
  <2>2. SessionTypeOK'
    BY <2>1 DEF ClientLeaves, Inv, TypeOK, SessionTypeOK
  <2> QED
    BY <1>4, <2>1, <2>2, OwnStep DEF Leave, ClientLeaves
<1>5. CASE UNCHANGED vars
  <2>1. SessionTypeOK'
    BY <1>5 DEF vars, sessionVars, Inv, TypeOK, SessionTypeOK
  <2> QED
    BY <1>5, <2>1, OwnStep DEF vars, sessionVars
<1> QED
  BY <1>1, <1>2, <1>3, <1>4, <1>5 DEF Next

THEOREM ServerInvariant == Spec => []Inv
  BY InvInit, InvStep, PTL DEF Spec

\* Every queue, table and list of the server holds what its type says, and the
\* interface thread never acts on an answer of the wrong kind.
THEOREM TypeCorrect == Spec => []TypeOK
  BY ServerInvariant, PTL DEF Inv

\* A user is connected at most once, however the answers of the database, the
\* ends of connections and the kicks fall between the check of
\* handlePendingSessions and the push_back of onClientAccept.
THEOREM NobodyTwice == Spec => []OneSessionPerUser
  BY ServerInvariant, PTL DEF Inv

-----------------------------------------------------------------------------
(* What the clients are told.  "Posted" is all that was ever given to the  *)
(* writer of a session; a client has heard nothing, has been refused, is   *)
(* talked to, or has been sent off.                                        *)

NotAnswered(s) == Posted(s) = <<>>

Refused(s) ==
    Len(Posted(s)) = 2 /\ Posted(s)[1].type = "reject" /\ Posted(s)[2] = Bye

TalkedTo(s) ==
    LET said == Posted(s)
    IN  /\ Len(said) > 0 /\ said[1].type = "accept"
        /\ \A i \in 2 .. Len(said) : said[i].type \in {"chat", "picture"}

SentOff(s) ==
    LET said == Posted(s)
        n == Len(said)
    IN  /\ n > 2 /\ said[1].type = "accept"
        /\ \A i \in 2 .. n - 2 : said[i].type \in {"chat", "picture"}
        /\ said[n - 1] = Kick /\ said[n] = Bye

OneOfFour ==
    \A s \in Sessions : NotAnswered(s) \/ Refused(s) \/ TalkedTo(s) \/ SentOff(s)

\* The members are those talked to, but for those whose connection ended.
MembersTalkedTo ==
    /\ \A s \in sessions : TalkedTo(s)
    /\ \A s \in Sessions : TalkedTo(s) /\ (reading[s] \/ erasing = s) => s \in sessions

\* Who waits in m_PendingSessions waits under its own name, and has not been
\* answered; nor has the session the interface thread decides on, which is no
\* longer in the map.
WaitersNotAnswered ==
    /\ \A u \in Users : pending[u] # None =>
         NotAnswered(pending[u]) /\ name[pending[u]] = u
    /\ uiSession # None =>
         /\ NotAnswered(uiSession)
         /\ uiPc \in {"decide", "accept"}
         /\ \A u \in Users : pending[u] # uiSession

\* Who has not asked is not answered, and a connection not yet made does not ask.
SilentBefore ==
    /\ \A s \in Sessions : lines[s] = 0 => NotAnswered(s) /\ name[s] = None
    /\ \A s \in Sessions : conn[s] = "new" => lines[s] = 0 /\ ~reading[s]

\* The session about to be erased reads no more.
ErasedIsRead == erasing # None => ~reading[erasing]

Talk == OneOfFour /\ MembersTalkedTo /\ WaitersNotAnswered /\ SilentBefore /\ ErasedIsRead

\* The conversations are sequences of what a writer can be given.
LEMMA PostedTyped ==
  ASSUME SessionTypeOK, NEW s \in Sessions
  PROVE  Posted(s) \in Seq(Out) /\ Len(Posted(s)) \in Nat
<1>1. written[s] \in Seq(Out) /\ outbox[s] \in Seq(Out)
  BY DEF SessionTypeOK
<1>2. Posted(s) \in Seq(Out)
  BY <1>1, ConcatProperties DEF Posted
<1> QED
  BY <1>2, LenProperties

\* Giving the writers something to say.
LEMMA PostedSend ==
  ASSUME SessionTypeOK, NEW group, NEW out \in Seq(Out), Send(group, out),
         UNCHANGED written, NEW s \in Sessions
  PROVE  Posted(s)' = IF s \in group THEN Posted(s) \o out ELSE Posted(s)
<1>1. written[s] \in Seq(Out) /\ outbox[s] \in Seq(Out)
  BY DEF SessionTypeOK
<1>2. outbox'[s] = IF s \in group THEN outbox[s] \o out ELSE outbox[s]
  BY DEF Send
<1>3. \A a, b, c \in Seq(Out) : (a \o b) \o c = a \o (b \o c)
  BY ConcatAssociative
<1>4. (written[s] \o outbox[s]) \o out = written[s] \o (outbox[s] \o out)
  BY <1>1, <1>3
<1> QED
  BY <1>2, <1>4 DEF Posted

\* Saying it changes nothing.
LEMMA PostedSaid ==
  ASSUME SessionTypeOK, NEW s \in Sessions, outbox[s] # <<>>,
         written' = [written EXCEPT ![s] = Append(@, Head(outbox[s]))],
         outbox' = [outbox EXCEPT ![s] = Tail(@)]
  PROVE  \A t \in Sessions : Posted(t)' = Posted(t)
<1>1. /\ written \in [Sessions -> Seq(Out)] /\ outbox \in [Sessions -> Seq(Out)]
      /\ written[s] \in Seq(Out) /\ outbox[s] \in Seq(Out)
  BY DEF SessionTypeOK
<1>2. Append(written[s], Head(outbox[s])) \o Tail(outbox[s]) = written[s] \o outbox[s]
  BY <1>1, HeadMoved
<1> QED
  BY <1>1, <1>2 DEF Posted

\* How the four stages follow each other.
LEMMA StageSteps ==
  ASSUME SessionTypeOK, NEW s \in Sessions
  PROVE  /\ \A for \in Sessions :
              NotAnswered(s) /\ Posted(s)' = Posted(s) \o <<Reject(for), Bye>>
                => Refused(s)'
         /\ \A for \in Sessions :
              NotAnswered(s) /\ Posted(s)' = Posted(s) \o <<Accept(for)>> => TalkedTo(s)'
         /\ \A out \in Out :
              TalkedTo(s) /\ out.type \in {"chat", "picture"}
                 /\ Posted(s)' = Posted(s) \o <<out>>
                => TalkedTo(s)'
         /\ TalkedTo(s) /\ Posted(s)' = Posted(s) \o <<Kick, Bye>> => SentOff(s)'
<1> DEFINE said == Posted(s)
           n == Len(said)
<1>1. said \in Seq(Out) /\ n \in Nat
  BY PostedTyped
<1>2. <<>> \in Seq(Out) /\ Len(<<>>) = 0
  BY EmptySeq
<1>3. ASSUME NEW for \in Sessions, NotAnswered(s),
             Posted(s)' = Posted(s) \o <<Reject(for), Bye>>
      PROVE  Refused(s)'
  <2> DEFINE out == <<Reject(for), Bye>>
  <2>1. out \in Seq(Out) /\ Len(out) = 2 /\ out[1].type = "reject" /\ out[2] = Bye
    BY DEF Reject, Bye, Out
  <2>2. Posted(s)' = out
    BY <1>3, <2>1, ConcatEmptySeq DEF NotAnswered
  <2> QED
    BY <2>1, <2>2 DEF Refused, Bye
<1>4. ASSUME NEW for \in Sessions, NotAnswered(s),
             Posted(s)' = Posted(s) \o <<Accept(for)>>
      PROVE  TalkedTo(s)'
  <2> DEFINE out == <<Accept(for)>>
  <2>1. out \in Seq(Out) /\ Len(out) = 1 /\ out[1].type = "accept"
    BY DEF Accept, Out
  <2>2. Posted(s)' = out
    BY <1>4, <2>1, ConcatEmptySeq DEF NotAnswered
  <2> QED
    BY <2>1, <2>2 DEF TalkedTo
<1>5. ASSUME NEW out \in Out, TalkedTo(s), out.type \in {"chat", "picture"},
             Posted(s)' = Posted(s) \o <<out>>
      PROVE  TalkedTo(s)'
  <2>1. <<out>> \in Seq(Out) /\ Len(<<out>>) = 1 /\ <<out>>[1] = out
    OBVIOUS
  <2>2. /\ Len(Posted(s)') = n + 1
        /\ \A i \in 1 .. n : Posted(s)'[i] = said[i]
        /\ Posted(s)'[n + 1] = out
    BY <1>1, <1>5, <2>1, ConcatProperties
  <2>3. n > 0 /\ said[1].type = "accept"
          /\ \A i \in 2 .. n : said[i].type \in {"chat", "picture"}
    BY <1>5 DEF TalkedTo
  <2> HIDE DEF said, n
  <2> QED
    BY <1>1, <1>5, <2>2, <2>3 DEF TalkedTo
<1>6. ASSUME TalkedTo(s), Posted(s)' = Posted(s) \o <<Kick, Bye>>
      PROVE  SentOff(s)'
  <2> DEFINE out == <<Kick, Bye>>
  <2>1. out \in Seq(Out) /\ Len(out) = 2 /\ out[1] = Kick /\ out[2] = Bye
    BY DEF Kick, Bye, Out
  <2> HIDE DEF out
  <2>2. /\ Len(Posted(s)') = n + 2
        /\ \A i \in 1 .. n + 2 :
             Posted(s)'[i] = IF i <= n THEN said[i] ELSE out[i - n]
    BY <1>1, <1>6, <2>1, ConcatProperties DEF out
  <2>3. n > 0 /\ said[1].type = "accept"
          /\ \A i \in 2 .. n : said[i].type \in {"chat", "picture"}
    BY <1>6 DEF TalkedTo
  <2> HIDE DEF said, n
  <2>4. /\ \A i \in 1 .. n : Posted(s)'[i] = said[i]
        /\ Posted(s)'[n + 1] = Kick /\ Posted(s)'[n + 2] = Bye
    BY <1>1, <2>1, <2>2
  <2>5. /\ n + 2 > 2 /\ (n + 2) - 2 = n /\ (n + 2) - 1 = n + 1 /\ 1 \in 1 .. n
    BY <1>1, <2>3
  <2>6. \A i \in 2 .. (n + 2) - 2 : Posted(s)'[i].type \in {"chat", "picture"}
    <3>1. 2 .. (n + 2) - 2 = 2 .. n /\ 2 .. n \subseteq 1 .. n
      BY <1>1
    <3> QED
      BY <2>3, <2>4, <3>1
  <2> QED
    BY <2>2, <2>3, <2>4, <2>5, <2>6 DEF SentOff, Kick, Bye
<1> QED
  BY <1>3, <1>4, <1>5, <1>6

\* The stages of a session depend on what was posted only.
LEMMA StageKept ==
  ASSUME NEW s \in Sessions, Posted(s)' = Posted(s)
  PROVE  /\ NotAnswered(s)' = NotAnswered(s) /\ Refused(s)' = Refused(s)
         /\ TalkedTo(s)' = TalkedTo(s) /\ SentOff(s)' = SentOff(s)
  BY DEF NotAnswered, Refused, TalkedTo, SentOff, Bye, Kick

\* No two stages at once.
LEMMA StagesApart ==
  ASSUME SessionTypeOK, NEW s \in Sessions
  PROVE  /\ NotAnswered(s) => ~TalkedTo(s)
         /\ SentOff(s) => ~TalkedTo(s)
<1>1. Len(Posted(s)) \in Nat
  BY PostedTyped
<1>2. NotAnswered(s) => Len(Posted(s)) = 0
  BY EmptySeq DEF NotAnswered
<1> QED
  BY <1>1, <1>2 DEF TalkedTo, SentOff, Bye

LEMMA TalkInit == Init => Talk
<1> SUFFICES ASSUME Init PROVE Talk
  OBVIOUS
<1>1. \A s \in Sessions : Posted(s) = <<>>
  BY EmptySeq, ConcatEmptySeq DEF Init, SessionInit, Posted
<1>2. \A s \in Sessions : NotAnswered(s) /\ ~TalkedTo(s)
  BY <1>1, EmptySeq DEF NotAnswered, TalkedTo
<1> QED
  BY <1>2 DEF Init, SessionInit, Talk, OneOfFour, MembersTalkedTo, WaitersNotAnswered,
     SilentBefore, ErasedIsRead

\* Steps that say nothing.
LEMMA NothingSaid ==
  ASSUME Inv, Talk, \A s \in Sessions : Posted(s)' = Posted(s),
         UNCHANGED <<name, pending, uiSession>>,
         \A s \in Sessions : lines'[s] = 0 => lines[s] = 0,
         \A s \in Sessions : conn'[s] = "new" => conn[s] = "new" /\ lines'[s] = 0 /\ ~reading'[s],
         sessions' \subseteq sessions,
         \A s \in Sessions :
            TalkedTo(s) /\ (reading'[s] \/ erasing' = s) => s \in sessions',
         uiSession # None => uiPc' \in {"decide", "accept"},
         ErasedIsRead'
  PROVE  Talk'
<1> USE DEF Talk
<1>1. \A s \in Sessions :
        /\ NotAnswered(s)' = NotAnswered(s) /\ Refused(s)' = Refused(s)
        /\ TalkedTo(s)' = TalkedTo(s) /\ SentOff(s)' = SentOff(s)
  BY StageKept
<1>2. OneOfFour' /\ SilentBefore'
  BY <1>1 DEF OneOfFour, SilentBefore
<1>3. sessions \subseteq Sessions /\ uiSession \in Sessions \cup {None}
        /\ \A u \in Users : pending[u] \in Sessions \cup {None}
  BY DEF Inv, TypeOK
<1>4. MembersTalkedTo'
  BY <1>1, <1>3 DEF MembersTalkedTo
<1>5. WaitersNotAnswered'
  BY <1>1, <1>3 DEF WaitersNotAnswered
<1> QED
  BY <1>2, <1>4, <1>5

LEMMA SameWords ==
  ASSUME UNCHANGED <<written, outbox>>
  PROVE  \A s \in Sessions : Posted(s)' = Posted(s)
  BY DEF Posted

LEMMA TalkNetwork ==
  ASSUME Inv, Talk, EraseSession
           \/ \E s \in Sessions :
                \/ ReadPicture(s) \/ ReadChat(s) \/ ReadEof(s)
                \/ Accepted(s) \/ ReadFailed(s) \/ Written(s) \/ WriteFailed(s)
                \/ Disconnected(s)
  PROVE  Talk'
<1> USE DEF Talk
<1>1. /\ conn \in [Sessions -> {"new", "open", "closed"}]
      /\ reading \in [Sessions -> BOOLEAN] /\ lines \in [Sessions -> 0 .. 2]
      /\ sessions \subseteq Sessions /\ uiSession \in Sessions \cup {None}
      /\ SessionTypeOK
  BY DEF Inv, TypeOK, SessionTypeOK
<1>2. /\ \A s \in Sessions : conn[s] = "new" => lines[s] = 0 /\ ~reading[s]
      /\ \A s \in Sessions : TalkedTo(s) /\ (reading[s] \/ erasing = s) => s \in sessions
      /\ uiSession # None => uiPc \in {"decide", "accept"}
      /\ erasing # None => ~reading[erasing]
  BY DEF SilentBefore, MembersTalkedTo, WaitersNotAnswered, ErasedIsRead
<1>3. None \notin Sessions
  BY ProtocolAssumption
<1>4. CASE EraseSession
  <2>1. /\ erasing # None /\ erasing' = None /\ sessions' = sessions \ {erasing}
        /\ UNCHANGED <<conn, reading, lines, name, outbox, written, pending, uiSession, uiPc>>
    BY <1>4 DEF EraseSession, sessionVars, uiVars
  <2> QED
    BY <1>1, <1>2, <1>3, <2>1, SameWords, NothingSaid DEF ErasedIsRead
<1>5. ASSUME NEW s \in Sessions, ReadPicture(s) PROVE Talk'
  <2>1. /\ reading[s] /\ reading' = [reading EXCEPT ![s] = conn[s] = "open"]
        /\ lines[s] = 1 /\ lines' = [lines EXCEPT ![s] = 2]
        /\ erasing = None
        /\ UNCHANGED <<conn, name, outbox, written, pending, sessions, erasing, uiSession, uiPc>>
    BY <1>5 DEF ReadPicture, ReadLine, NetworkIdle, uiVars
  <2> QED
    BY <1>1, <1>2, <1>3, <2>1, SameWords, NothingSaid DEF ErasedIsRead
<1>6. ASSUME NEW s \in Sessions, ReadChat(s) PROVE Talk'
  <2>1. /\ reading[s] /\ reading' = [reading EXCEPT ![s] = conn[s] = "open"]
        /\ erasing = None
        /\ UNCHANGED <<lines, conn, name, outbox, written, pending, sessions, erasing>>
        /\ UNCHANGED <<uiSession, uiPc>>
    BY <1>6 DEF ReadChat, ReadLine, NetworkIdle, uiVars
  <2> QED
    BY <1>1, <1>2, <1>3, <2>1, SameWords, NothingSaid DEF ErasedIsRead
<1>7. ASSUME NEW s \in Sessions, ReadEof(s) PROVE Talk'
  <2>1. /\ reading[s] /\ reading' = [reading EXCEPT ![s] = FALSE]
        /\ erasing = None /\ erasing' = s
        /\ UNCHANGED <<lines, conn, name, outbox, written, pending, sessions>>
        /\ UNCHANGED <<uiSession, uiPc>>
    BY <1>7 DEF ReadEof, ReadEnd, NetworkIdle, uiVars
  <2> QED
    BY <1>1, <1>2, <1>3, <2>1, SameWords, NothingSaid DEF ErasedIsRead
<1>8. ASSUME NEW s \in Sessions, Accepted(s) PROVE Talk'
  <2>1. /\ conn[s] = "new" /\ conn' = [conn EXCEPT ![s] = "open"]
        /\ reading' = [reading EXCEPT ![s] = TRUE]
        /\ erasing = None
        /\ UNCHANGED <<lines, name, outbox, written, pending, sessions, erasing>>
        /\ UNCHANGED <<uiSession, uiPc>>
    BY <1>8 DEF Accepted, SessionAlone, Connect, NetworkIdle, serverVars, uiVars
  <2>2. ~TalkedTo(s)
    BY <1>1, <1>2, <2>1, StagesApart DEF SilentBefore
  <2> QED
    BY <1>1, <1>2, <1>3, <2>1, <2>2, SameWords, NothingSaid DEF ErasedIsRead
<1>9. ASSUME NEW s \in Sessions, ReadFailed(s) PROVE Talk'
  <2>1. /\ reading' = [reading EXCEPT ![s] = FALSE]
        /\ erasing = None
        /\ UNCHANGED <<lines, conn, name, outbox, written, pending, sessions, erasing>>
        /\ UNCHANGED <<uiSession, uiPc>>
    BY <1>9 DEF ReadFailed, SessionAlone, ReadError, NetworkIdle, serverVars, uiVars
  <2> QED
    BY <1>1, <1>2, <1>3, <2>1, SameWords, NothingSaid DEF ErasedIsRead
<1>10. ASSUME NEW s \in Sessions, Written(s) PROVE Talk'
  <2>1. /\ outbox[s] # <<>>
        /\ written' = [written EXCEPT ![s] = Append(@, Head(outbox[s]))]
        /\ outbox' = [outbox EXCEPT ![s] = Tail(@)]
        /\ erasing = None
        /\ UNCHANGED <<lines, conn, reading, name, pending, sessions, erasing>>
        /\ UNCHANGED <<uiSession, uiPc>>
    BY <1>10 DEF Written, SessionAlone, Write, NetworkIdle, serverVars, uiVars
  <2>2. \A t \in Sessions : Posted(t)' = Posted(t)
    BY <1>1, <2>1, PostedSaid
  <2> QED
    BY <1>1, <1>2, <1>3, <2>1, <2>2, NothingSaid DEF ErasedIsRead
<1>11. ASSUME NEW s \in Sessions, WriteFailed(s) PROVE Talk'
  <2>1. /\ erasing = None
        /\ UNCHANGED <<lines, conn, reading, name, outbox, written, pending, sessions>>
        /\ UNCHANGED <<erasing, uiSession, uiPc>>
    BY <1>11 DEF WriteFailed, SessionAlone, WriteError, NetworkIdle, serverVars, uiVars
  <2> QED
    BY <1>1, <1>2, <1>3, <2>1, SameWords, NothingSaid DEF ErasedIsRead
<1>12. ASSUME NEW s \in Sessions, Disconnected(s) PROVE Talk'
  <2>1. /\ outbox[s] # <<>> /\ Head(outbox[s]) = Bye
        /\ written' = [written EXCEPT ![s] = Append(@, Bye)]
        /\ outbox' = [outbox EXCEPT ![s] = Tail(@)]
        /\ conn' = [conn EXCEPT ![s] = "closed"]
        /\ erasing = None
        /\ UNCHANGED <<lines, reading, name, pending, sessions, erasing>>
        /\ UNCHANGED <<uiSession, uiPc>>
    BY <1>12 DEF Disconnected, SessionAlone, Disconnect, NetworkIdle, serverVars, uiVars
  <2>2. \A t \in Sessions : Posted(t)' = Posted(t)
    BY <1>1, <2>1, PostedSaid
  <2> QED
    BY <1>1, <1>2, <1>3, <2>1, <2>2, NothingSaid DEF ErasedIsRead
<1> QED
  BY <1>4, <1>5, <1>6, <1>7, <1>8, <1>9, <1>10, <1>11, <1>12

LEMMA TalkReadJoin ==
  ASSUME Inv, Talk, NEW s \in Sessions, ReadJoin(s) PROVE Talk'
<1> USE DEF Talk
<1>1. PICK u \in Users :
        /\ name' = [name EXCEPT ![s] = u]
        /\ pending' = [pending EXCEPT ![u] = s]
  <2>1. PICK join \in Joins :
          /\ name' = [name EXCEPT ![s] = join.name]
          /\ pending' = [pending EXCEPT ![join.name] = s]
    BY DEF ReadJoin
  <2> QED
    BY <2>1, ServerAssumption DEF JoinRequest
<1>2. /\ reading[s] /\ reading' = [reading EXCEPT ![s] = conn[s] = "open"]
      /\ lines[s] = 0 /\ lines' = [lines EXCEPT ![s] = 1]
      /\ erasing = None
      /\ UNCHANGED <<conn, outbox, written, sessions, erasing, uiSession, uiPc>>
  BY DEF ReadJoin, ReadLine, NetworkIdle, uiVars
<1>3. /\ reading \in [Sessions -> BOOLEAN] /\ lines \in [Sessions -> 0 .. 2]
      /\ name \in [Sessions -> Users \cup {None}]
      /\ pending \in [Users -> Sessions \cup {None}]
      /\ sessions \subseteq Sessions /\ uiSession \in Sessions \cup {None}
      /\ None \notin Sessions
  BY ProtocolAssumption DEF Inv, TypeOK, SessionTypeOK
<1>4. \A t \in Sessions :
        /\ NotAnswered(t)' = NotAnswered(t) /\ Refused(t)' = Refused(t)
        /\ TalkedTo(t)' = TalkedTo(t) /\ SentOff(t)' = SentOff(t)
  BY <1>2, SameWords, StageKept
<1>5. /\ NotAnswered(s)
      /\ s # uiSession
      /\ \A v \in Users : pending[v] # s
  BY <1>2, <1>3 DEF SilentBefore, Inv, Joined
<1>6. OneOfFour' /\ ErasedIsRead'
  BY <1>2, <1>3, <1>4 DEF OneOfFour, ErasedIsRead
<1>7. MembersTalkedTo'
  BY <1>2, <1>3, <1>4 DEF MembersTalkedTo
<1>8. SilentBefore'
  BY <1>1, <1>2, <1>3, <1>4 DEF SilentBefore
<1>9. WaitersNotAnswered'
  <2>1. ASSUME NEW v \in Users, NEW t \in Sessions, pending'[v] = t
        PROVE  NotAnswered(t)' /\ name'[t] = v
    <3>1. CASE v = u
      <4>1. t = s
        BY <1>1, <1>3, <2>1, <3>1
      <4> QED
        BY <1>1, <1>3, <1>4, <1>5, <3>1, <4>1
    <3>2. CASE v # u
      <4>1. pending[v] = t /\ t # s /\ t # None
        BY <1>1, <1>3, <1>5, <2>1, <3>2
      <4>2. NotAnswered(t) /\ name[t] = v
        BY <4>1 DEF WaitersNotAnswered
      <4> QED
        BY <1>1, <1>3, <1>4, <4>1, <4>2
    <3> QED
      BY <3>1, <3>2
  <2>2. \A v \in Users : pending'[v] \in Sessions \cup {None}
    BY <1>1, <1>3
  <2>3. uiSession # None => /\ NotAnswered(uiSession)' /\ uiPc \in {"decide", "accept"}
                            /\ \A v \in Users : pending'[v] # uiSession
    <3>1. ASSUME uiSession # None PROVE NotAnswered(uiSession)'
      <4>1. PICK t \in Sessions : t = uiSession /\ NotAnswered(t)
        BY <1>3, <3>1 DEF WaitersNotAnswered
      <4>2. NotAnswered(t)'
        BY <1>4, <4>1
      <4> QED
        BY <1>2, <4>1, <4>2
    <3> QED
      BY <1>1, <1>3, <1>5, <3>1 DEF WaitersNotAnswered
  <2> QED
    BY <1>2, <2>1, <2>2, <2>3 DEF WaitersNotAnswered
<1> QED
  BY <1>6, <1>7, <1>8, <1>9

\* One session is given something: the others hear nothing.
LEMMA SaidTo ==
  ASSUME Inv, NEW s \in Sessions, NEW out \in Seq(Out), Send({s}, out), UNCHANGED written
  PROVE  /\ Posted(s)' = Posted(s) \o out
         /\ \A t \in Sessions \ {s} :
              /\ NotAnswered(t)' = NotAnswered(t) /\ Refused(t)' = Refused(t)
              /\ TalkedTo(t)' = TalkedTo(t) /\ SentOff(t)' = SentOff(t)
<1>1. \A t \in Sessions : Posted(t)' = IF t \in {s} THEN Posted(t) \o out ELSE Posted(t)
  BY PostedSend DEF Inv, TypeOK
<1> QED
  BY <1>1, StageKept

\* A session that waited is refused.
LEMMA TalkReject ==
  ASSUME Inv, Talk, NEW s \in Sessions, NEW for \in Sessions,
         NotAnswered(s), Send({s}, <<Reject(for), Bye>>),
         UNCHANGED <<written, lines, name, conn, reading, erasing, sessions>>,
         \A u \in Users : pending'[u] \in {pending[u], None} \ {s},
         uiSession' = None, lines[s] > 0
  PROVE  Talk'
<1> USE DEF Talk
<1>1. <<Reject(for), Bye>> \in Seq(Out)
  BY DEF Reject, Bye, Out
<1>2. /\ Posted(s)' = Posted(s) \o <<Reject(for), Bye>>
      /\ \A t \in Sessions \ {s} :
           /\ NotAnswered(t)' = NotAnswered(t) /\ Refused(t)' = Refused(t)
           /\ TalkedTo(t)' = TalkedTo(t) /\ SentOff(t)' = SentOff(t)
  BY <1>1, SaidTo
<1>3. SessionTypeOK /\ sessions \subseteq Sessions /\ lines \in [Sessions -> 0 .. 2]
        /\ \A u \in Users : pending[u] \in Sessions \cup {None}
  BY DEF Inv, TypeOK, SessionTypeOK
<1>4. Refused(s)'
  BY <1>2, <1>3, StageSteps
<1>5. ~TalkedTo(s)' /\ s \notin sessions
  BY <1>3, <1>4, StagesApart DEF Refused, TalkedTo, MembersTalkedTo
<1>6. OneOfFour' /\ SilentBefore' /\ ErasedIsRead'
  BY <1>2, <1>3, <1>4 DEF OneOfFour, SilentBefore, ErasedIsRead
<1>7. MembersTalkedTo'
  BY <1>2, <1>3, <1>5 DEF MembersTalkedTo
<1>8. WaitersNotAnswered'
  BY <1>2, <1>3 DEF WaitersNotAnswered
<1> QED
  BY <1>6, <1>7, <1>8

LEMMA TalkPending ==
  ASSUME Inv, Talk, HandlePendingSessions PROVE Talk'
<1>1. /\ uiPc = "pending" /\ uiAnswer \in Answer
      /\ uiAnswer.name \in Users /\ uiAnswer.by \in Sessions
      /\ pending \in [Users -> Sessions \cup {None}]
      /\ uiSession \in Sessions \cup {None}
      /\ None \notin Sessions
  BY ProtocolAssumption DEF HandlePendingSessions, UiAt, UiPlaces, Answer, Inv, TypeOK
<1>2. uiSession = None
  BY <1>1 DEF Talk, WaitersNotAnswered
<1>3. UNCHANGED <<written, lines, name, conn, reading, erasing, sessions>>
  BY DEF HandlePendingSessions
<1>4. CASE Waiting = None
  <2>1. UNCHANGED <<pending, outbox, uiPc, uiSession>>
    BY <1>4 DEF HandlePendingSessions, Waiting
  <2> QED
    BY <1>2, <1>3, <2>1, SameWords, NothingSaid
    DEF Talk, MembersTalkedTo, SilentBefore, ErasedIsRead
<1>5. ASSUME NEW s \in Sessions, Waiting = s PROVE Talk'
  <2>1. /\ NotAnswered(s) /\ lines[s] > 0 /\ s # None /\ name[s] = uiAnswer.name
    BY <1>1, <1>5 DEF Waiting, Talk, WaitersNotAnswered, Inv, Joined
  <2>2. pending' = [pending EXCEPT ![uiAnswer.name] = None]
    BY <1>5, <2>1 DEF HandlePendingSessions, Waiting
  <2>3. \A u \in Users : pending'[u] \in {pending[u], None} \ {s}
    BY <1>1, <2>1, <2>2 DEF Talk, WaitersNotAnswered
  <2>4. CASE uiAnswer.type \in {"login_success", "register_success"}
    <3>1. uiSession' = s /\ uiPc' = "decide" /\ UNCHANGED outbox
      BY <1>5, <2>1, <2>4 DEF HandlePendingSessions, Waiting, UiGoto
    <3>2. \A t \in Sessions :
            /\ NotAnswered(t)' = NotAnswered(t) /\ Refused(t)' = Refused(t)
            /\ TalkedTo(t)' = TalkedTo(t) /\ SentOff(t)' = SentOff(t)
      BY <1>3, <3>1, SameWords, StageKept
    <3>3. OneOfFour' /\ SilentBefore' /\ ErasedIsRead'
      BY <1>3, <3>2 DEF Talk, OneOfFour, SilentBefore, ErasedIsRead
    <3>4. MembersTalkedTo'
      BY <1>3, <3>2 DEF Talk, MembersTalkedTo, Inv, TypeOK
    <3>5. WaitersNotAnswered'
      <4>2. \A u \in Users : pending'[u] # None =>
              pending[u] = pending'[u] /\ pending[u] \in Sessions /\ pending[u] # None
        BY <1>1, <2>3
      <4>3. \A u \in Users : \A t \in Sessions :
              pending'[u] = t => NotAnswered(t)' /\ name'[t] = u
        BY <1>1, <1>3, <3>2, <4>2 DEF Talk, WaitersNotAnswered
      <4>4. NotAnswered(s)'
        BY <2>1, <3>2
      <4>5. \A u \in Users : pending'[u] # uiSession'
        BY <2>3, <3>1
      <4> QED
        BY <1>1, <2>3, <3>1, <4>2, <4>3, <4>4, <4>5 DEF WaitersNotAnswered
    <3> QED
      BY <3>3, <3>4, <3>5 DEF Talk
  <2>5. CASE uiAnswer.type \notin {"login_success", "register_success"}
    <3>1. OnClientReject(s) /\ UNCHANGED uiSession
      BY <1>5, <2>1, <2>5 DEF HandlePendingSessions, Waiting
    <3> QED
      BY <1>1, <1>2, <1>3, <2>1, <2>3, <3>1, TalkReject DEF OnClientReject
  <2> QED
    BY <2>4, <2>5
<1> QED
  BY <1>1, <1>4, <1>5 DEF Waiting

LEMMA TalkDecide ==
  ASSUME Inv, Talk, IsUserConnected PROVE Talk'
<1>1. /\ uiPc = "decide" /\ uiAnswer \in Answer /\ uiAnswer.by \in Sessions
      /\ uiSession \in Sessions /\ uiSession # None
      /\ lines[uiSession] > 0
      /\ pending \in [Users -> Sessions \cup {None}]
  BY ProtocolAssumption
  DEF IsUserConnected, UiAt, UiPlaces, Answer, Inv, TypeOK, Joined
<1>2. /\ NotAnswered(uiSession)
      /\ \A u \in Users : pending[u] # uiSession
  BY <1>1 DEF Talk, WaitersNotAnswered
<1>3. UNCHANGED <<written, lines, name, conn, reading, erasing, sessions, pending>>
  BY DEF IsUserConnected
<1>4. CASE Members(name[uiSession]) = {}
  <2>1. uiPc' = "accept" /\ UNCHANGED <<outbox, uiSession>>
    BY <1>4 DEF IsUserConnected, UiGoto
  <2> QED
    BY <1>3, <2>1, SameWords, NothingSaid
    DEF Talk, MembersTalkedTo, SilentBefore, ErasedIsRead
<1>5. CASE Members(name[uiSession]) # {}
  <2>1. OnClientReject(uiSession) /\ uiSession' = None
    BY <1>5 DEF IsUserConnected
  <2> QED
    BY <1>1, <1>2, <1>3, <2>1, TalkReject DEF OnClientReject
<1> QED
  BY <1>4, <1>5

LEMMA TalkAccept ==
  ASSUME Inv, Talk, OnClientAccept PROVE Talk'
<1>1. /\ uiAnswer \in Answer /\ uiAnswer.by \in Sessions
      /\ uiSession \in Sessions /\ uiSession # None /\ lines[uiSession] > 0
      /\ pending \in [Users -> Sessions \cup {None}]
      /\ sessions \subseteq Sessions /\ SessionTypeOK
  BY ProtocolAssumption
  DEF OnClientAccept, UiAt, UiPlaces, Answer, Inv, TypeOK, Joined
<1>2. /\ NotAnswered(uiSession)
      /\ \A u \in Users : pending[u] # uiSession
  BY <1>1 DEF Talk, WaitersNotAnswered
<1>3. /\ UNCHANGED <<written, lines, name, conn, reading, erasing, pending>>
      /\ sessions' = sessions \cup {uiSession} /\ uiSession' = None
      /\ Send({uiSession}, <<Accept(uiAnswer.by)>>)
  BY DEF OnClientAccept
<1>4. <<Accept(uiAnswer.by)>> \in Seq(Out)
  BY <1>1 DEF Accept, Out
<1>5. PICK s \in Sessions : s = uiSession
  BY <1>1
<1>6. /\ Posted(s)' = Posted(s) \o <<Accept(uiAnswer.by)>>
      /\ \A t \in Sessions \ {s} :
           /\ NotAnswered(t)' = NotAnswered(t) /\ Refused(t)' = Refused(t)
           /\ TalkedTo(t)' = TalkedTo(t) /\ SentOff(t)' = SentOff(t)
  BY <1>3, <1>4, <1>5, SaidTo
<1>7. TalkedTo(s)'
  <2>1. NotAnswered(s)
    BY <1>2, <1>5
  <2> QED
    BY <1>1, <1>6, <2>1, StageSteps
<1>8. OneOfFour' /\ SilentBefore' /\ ErasedIsRead'
  BY <1>1, <1>3, <1>5, <1>6, <1>7 DEF Talk, OneOfFour, SilentBefore, ErasedIsRead
<1>9. MembersTalkedTo'
  BY <1>1, <1>3, <1>5, <1>6, <1>7 DEF Talk, MembersTalkedTo
<1>10. WaitersNotAnswered'
  BY <1>1, <1>2, <1>3, <1>5, <1>6 DEF Talk, WaitersNotAnswered
<1> QED
  BY <1>8, <1>9, <1>10 DEF Talk

\* The members of a group are told a chat or a picture.
LEMMA TalkMembers ==
  ASSUME Inv, Talk, NEW group \in SUBSET sessions, NEW out \in Out,
         out.type \in {"chat", "picture"}, Send(group, <<out>>),
         UNCHANGED <<written, lines, name, conn, reading, erasing, sessions>>,
         UNCHANGED <<pending, uiSession>>, uiSession = None
  PROVE  Talk'
<1>1. /\ sessions \subseteq Sessions /\ SessionTypeOK
      /\ pending \in [Users -> Sessions \cup {None}]
      /\ <<out>> \in Seq(Out)
  BY DEF Inv, TypeOK
<1>2. \A s \in Sessions :
        Posted(s)' = IF s \in group THEN Posted(s) \o <<out>> ELSE Posted(s)
  BY <1>1, PostedSend
<1>3. \A s \in group : TalkedTo(s) /\ TalkedTo(s)' /\ ~NotAnswered(s)
  <2> SUFFICES ASSUME NEW s \in group PROVE TalkedTo(s) /\ TalkedTo(s)' /\ ~NotAnswered(s)
    OBVIOUS
  <2>1. s \in Sessions /\ TalkedTo(s)
    BY <1>1 DEF Talk, MembersTalkedTo
  <2> QED
    BY <1>1, <1>2, <2>1, StageSteps, StagesApart
<1>4. \A s \in Sessions \ group :
        /\ NotAnswered(s)' = NotAnswered(s) /\ Refused(s)' = Refused(s)
        /\ TalkedTo(s)' = TalkedTo(s) /\ SentOff(s)' = SentOff(s)
  BY <1>2, StageKept
<1>5. OneOfFour' /\ SilentBefore' /\ ErasedIsRead'
  BY <1>3, <1>4 DEF Talk, OneOfFour, SilentBefore, ErasedIsRead
<1>6. MembersTalkedTo'
  BY <1>1, <1>3, <1>4 DEF Talk, MembersTalkedTo
<1>7. WaitersNotAnswered'
  <2>1. \A u \in Users : \A t \in Sessions :
          pending[u] = t => NotAnswered(t)' /\ name[t] = u
    BY <1>3, <1>4, ProtocolAssumption DEF Talk, WaitersNotAnswered
  <2> QED
    BY <1>1, <2>1 DEF WaitersNotAnswered
<1> QED
  BY <1>5, <1>6, <1>7 DEF Talk

LEMMA TalkKick ==
  ASSUME Inv, Talk, KickUser PROVE Talk'
<1>1. /\ sessions \subseteq Sessions /\ SessionTypeOK
      /\ pending \in [Users -> Sessions \cup {None}]
      /\ uiPc = "kick"
  BY DEF KickUser, UiAt, Inv, TypeOK
<1>2. /\ UNCHANGED <<written, lines, name, conn, reading, erasing, pending, uiSession>>
      /\ uiSession = None
  BY <1>1 DEF KickUser, Talk, WaitersNotAnswered
<1>3. CASE Members(userToKick) = {}
  <2>1. UNCHANGED <<outbox, sessions, uiPc>>
    BY <1>3 DEF KickUser
  <2> QED
    BY <1>2, <2>1, SameWords, NothingSaid
    DEF Talk, MembersTalkedTo, SilentBefore, ErasedIsRead
<1>4. CASE Members(userToKick) # {}
  <2>1. PICK s \in sessions : Send({s}, <<Kick, Bye>>) /\ sessions' = sessions \ {s}
    BY <1>4 DEF KickUser, Members
  <2>2. s \in Sessions /\ TalkedTo(s)
    BY <1>1 DEF Talk, MembersTalkedTo
  <2>3. <<Kick, Bye>> \in Seq(Out)
    BY DEF Kick, Bye, Out
  <2>4. /\ Posted(s)' = Posted(s) \o <<Kick, Bye>>
        /\ \A t \in Sessions \ {s} :
             /\ NotAnswered(t)' = NotAnswered(t) /\ Refused(t)' = Refused(t)
             /\ TalkedTo(t)' = TalkedTo(t) /\ SentOff(t)' = SentOff(t)
    BY <1>2, <2>1, <2>2, <2>3, SaidTo
  <2>5. SentOff(s)' /\ ~NotAnswered(s)
    BY <1>1, <2>2, <2>4, StageSteps, StagesApart
  <2>6. ~TalkedTo(s)'
    <3>1. SessionTypeOK'
      BY InvStep DEF Next, UiThread, Inv, TypeOK
    <3>2. Len(Posted(s)') \in Nat
      BY <2>2, <3>1, PostedTyped
    <3> QED
      BY <2>5, <3>2 DEF SentOff, TalkedTo, Kick, Bye
  <2>7. OneOfFour' /\ SilentBefore' /\ ErasedIsRead'
    BY <1>2, <2>4, <2>5 DEF Talk, OneOfFour, SilentBefore, ErasedIsRead
  <2>8. MembersTalkedTo'
    BY <1>1, <1>2, <2>1, <2>4, <2>6 DEF Talk, MembersTalkedTo
  <2>9. WaitersNotAnswered'
    <3>1. \A u \in Users : \A t \in Sessions :
            pending[u] = t => NotAnswered(t)' /\ name[t] = u
      BY <2>4, <2>5, ProtocolAssumption DEF Talk, WaitersNotAnswered
    <3> QED
      BY <1>1, <1>2, <3>1 DEF WaitersNotAnswered
  <2> QED
    BY <2>7, <2>8, <2>9 DEF Talk
<1> QED
  BY <1>3, <1>4

LEMMA TalkStep == Inv /\ Talk /\ [Next]_vars => Talk'
<1> SUFFICES ASSUME Inv, Talk, [Next]_vars PROVE Talk'
  OBVIOUS
<1>1. uiSession # None => uiPc \in {"decide", "accept"}
  BY DEF Talk, WaitersNotAnswered
\* What the steps that neither speak nor read have in common.
<1>2. ASSUME UNCHANGED <<written, outbox, lines, name, conn, reading, erasing>>,
             UNCHANGED <<sessions, pending, uiSession>>, uiPc' = uiPc \/ uiSession = None
      PROVE  Talk'
  BY <1>1, <1>2, SameWords, NothingSaid DEF Talk, MembersTalkedTo, SilentBefore, ErasedIsRead
<1>3. CASE NetworkThread
  BY <1>3, TalkNetwork, TalkReadJoin DEF NetworkThread
<1>4. CASE PopResponse
  BY <1>1, <1>2, <1>4 DEF PopResponse, UiAt, sessionVars, serverVars
<1>5. CASE HandleProfilePictureDataRequest
  <2>1. /\ UNCHANGED <<written, lines, name, conn, reading, erasing, sessions>>
        /\ UNCHANGED <<pending, uiSession>> /\ uiSession = None
        /\ uiAnswer \in PictureAnswer
    BY <1>1, <1>5 DEF HandleProfilePictureDataRequest, UiAt, serverVars, Inv, UiPlaces
  <2>2. PICK group \in FirstOf(Members(uiAnswer.recipient)) :
          Send(group, <<PictureLine(uiAnswer.name)>>)
    BY <1>5 DEF HandleProfilePictureDataRequest
  <2>3. group \in SUBSET sessions
    BY DEF FirstOf, Members
  <2>4. PictureLine(uiAnswer.name) \in Out /\ PictureLine(uiAnswer.name).type = "picture"
    BY <2>1 DEF PictureLine, Out, PictureAnswer
  <2> QED
    BY <2>1, <2>2, <2>3, <2>4, TalkMembers
<1>6. CASE PopInbox
  BY <1>1, <1>2, <1>6 DEF PopInbox, UiAt, sessionVars
<1>7. CASE Broadcast
  <2>1. /\ UNCHANGED <<written, lines, name, conn, reading, erasing, sessions>>
        /\ UNCHANGED <<pending, uiSession>> /\ uiSession = None
        /\ uiChat \in Chat /\ Send(sessions, <<ChatLine(uiChat)>>)
    BY <1>1, <1>7 DEF Broadcast, UiAt, Inv, UiPlaces
  <2>2. ChatLine(uiChat) \in Out /\ ChatLine(uiChat).type = "chat"
    BY <2>1 DEF ChatLine, Out
  <2> QED
    BY <2>1, <2>2, TalkMembers
<1>8. CASE OnUpdateClients
  BY <1>1, <1>2, <1>8 DEF OnUpdateClients, UiAt, sessionVars
<1>9. CASE Render
  BY <1>1, <1>2, <1>9 DEF Render, UiAt, sessionVars, serverVars
<1>10. CASE RunDatabase
  BY <1>2, <1>10 DEF RunDatabase, sessionVars, serverVars, uiVars
<1>11. CASE Leave
  BY <1>2, <1>11 DEF Leave, ClientLeaves, serverVars, uiVars
<1>12. CASE UNCHANGED vars
  BY <1>2, <1>12 DEF vars, sessionVars, serverVars, uiVars
<1> QED
  BY <1>3, <1>4, <1>5, <1>6, <1>7, <1>8, <1>9, <1>10, <1>11, <1>12, TalkPending,
     TalkDecide, TalkAccept, TalkKick DEF Next, UiThread

THEOREM TalkInvariant == Spec => []Talk
<1>1. Init => Talk
  BY TalkInit
<1>2. Inv /\ Talk /\ [Next]_vars => Talk'
  BY TalkStep
<1> QED
  BY <1>1, <1>2, ServerInvariant, PTL DEF Spec

LEMMA TalkShape ==
  ASSUME SessionTypeOK, Talk PROVE Conversation /\ MembersAreAccepted
<1>1. ASSUME NEW s \in Sessions
      PROVE  \/ Posted(s) = <<>>
             \/ Refused(s)
             \/ Len(Posted(s)) > 0 /\ TalkedTo(s)
             \/ SentOff(s)
  BY DEF Talk, OneOfFour, NotAnswered, TalkedTo
<1>2. Conversation
  <2> SUFFICES ASSUME NEW s \in Sessions
               PROVE  LET said == Posted(s)
                          n == Len(said)
                      IN  \/ said = <<>>
                          \/ n = 2 /\ said[1].type = "reject" /\ said[2] = Bye
                          \/ /\ said[1].type = "accept"
                             /\ \A i \in 2 .. n :
                                  \/ said[i].type \in {"chat", "picture"}
                                  \/ n > 2 /\ i = n - 1 /\ said[n - 1] = Kick /\ said[n] = Bye
                                  \/ n > 2 /\ i = n /\ said[n - 1] = Kick /\ said[n] = Bye
    BY DEF Conversation
  <2>1. Len(Posted(s)) \in Nat
    BY PostedTyped
  <2>2. CASE SentOff(s)
    <3> DEFINE n == Len(Posted(s))
    <3>1. \A i \in 2 .. n : i \in 2 .. n - 2 \/ i = n - 1 \/ i = n
      BY <2>1
    <3> HIDE DEF n
    <3> QED
      BY <2>1, <2>2, <3>1 DEF SentOff, n
  <2>3. CASE ~SentOff(s)
    BY <1>1, <2>3 DEF Refused, TalkedTo
  <2> QED
    BY <2>2, <2>3
<1>3. MembersAreAccepted
  <2> SUFFICES ASSUME NEW s \in Sessions
               PROVE  (Lines(s, {"accept"}) # {} /\ Lines(s, {"kick"}) = {}) <=> TalkedTo(s)
    BY DEF MembersAreAccepted, Talk, MembersTalkedTo
  <2>1. Len(Posted(s)) \in Nat /\ DOMAIN Posted(s) = 1 .. Len(Posted(s))
    BY PostedTyped, LenProperties
  <2>2. CASE Posted(s) = <<>>
    <3>1. ~TalkedTo(s)
      BY <2>2, EmptySeq DEF TalkedTo
    <3>2. Lines(s, {"accept"}) = {}
      BY <2>1, <2>2, EmptySeq DEF Lines
    <3> QED
      BY <3>1, <3>2
  <2>3. CASE Refused(s)
    <3>1. ~TalkedTo(s)
      BY <2>3 DEF Refused, TalkedTo
    <3>2. Lines(s, {"accept"}) = {}
      BY <2>1, <2>3 DEF Refused, Lines, Bye
    <3> QED
      BY <3>1, <3>2
  <2>4. CASE TalkedTo(s)
    <3>1. 1 \in Lines(s, {"accept"})
      BY <2>1, <2>4 DEF TalkedTo, Lines
    <3>2. Lines(s, {"kick"}) = {}
      <4> SUFFICES ASSUME NEW i \in 1 .. Len(Posted(s)) PROVE Posted(s)[i].type # "kick"
        BY <2>1 DEF Lines
      <4>1. i = 1 \/ i \in 2 .. Len(Posted(s))
        BY <2>1
      <4> QED
        BY <2>4, <4>1 DEF TalkedTo
    <3> QED
      BY <2>4, <3>1, <3>2
  <2>5. CASE SentOff(s)
    <3>1. ~TalkedTo(s)
      BY <2>5, StagesApart
    <3>2. Len(Posted(s)) - 1 \in Lines(s, {"kick"})
      BY <2>1, <2>5 DEF SentOff, Lines, Kick
    <3> QED
      BY <3>1, <3>2
  <2> QED
    BY <1>1, <2>2, <2>3, <2>4, <2>5
<1> QED
  BY <1>2, <1>3

\* Every client hears one answer, nothing before it, nothing but chats and
\* pictures behind an acceptance, and nothing after goodbye, though answers,
\* chats, pictures and kicks are sent from separate critical sections.
THEOREM WellSpoken == Spec => []Conversation
<1>1. TypeOK => SessionTypeOK
  BY DEF TypeOK
<1> QED
  BY <1>1, TypeCorrect, TalkInvariant, TalkShape, PTL

\* onClientAccept, kickUser and the disconnect handler keep m_Sessions and what
\* the clients were told in step: whoever was accepted and not sent off is a
\* member until its read loop ends, and nobody else is.
THEOREM MembersHeardAccept == Spec => []MembersAreAccepted
<1>1. TypeOK => SessionTypeOK
  BY DEF TypeOK
<1> QED
  BY <1>1, TypeCorrect, TalkInvariant, TalkShape, PTL

-----------------------------------------------------------------------------
(* The panel of active users.                                              *)

\* The last connection that was let in under u was accepted and not sent off:
\* it is a member, or ended by itself.
Accounted(u) ==
    LET s == lastIn[u] IN s \in Sessions /\ name[s] = u /\ TalkedTo(s)

\* Who is shown, or will be, is accounted for, or its name is on its way off the
\* panel; at the time the administrator chooses, the last is not possible.
Shown ==
    /\ \A u \in panel \cup ToSet(pendingNames) :
         Accounted(u) \/ u \in ToSet(disconnectedNames)
    /\ uiPc = "render" => \A u \in panel : Accounted(u)
    /\ userToKick # None => Accounted(userToKick)
    /\ KickMissesOnlyDeparted

LEMMA ToSetAppend ==
  ASSUME NEW S, NEW seq \in Seq(S), NEW x \in S
  PROVE  ToSet(Append(seq, x)) = ToSet(seq) \cup {x}
<1>1. /\ DOMAIN seq = 1 .. Len(seq) /\ Len(seq) \in Nat
      /\ DOMAIN Append(seq, x) = 1 .. Len(seq) + 1
      /\ \A i \in 1 .. Len(seq) : Append(seq, x)[i] = seq[i]
      /\ Append(seq, x)[Len(seq) + 1] = x
  BY AppendProperties, LenProperties
<1> DEFINE more == Append(seq, x)
<1> HIDE DEF more
<1>2. ToSet(more) = ToSet(seq) \cup {x}
  BY <1>1 DEF ToSet, more
<1> QED
  BY <1>2 DEF more

\* A name, once given, is kept; a read loop, once ended, is not begun again.
NamesKept == \A s \in Sessions : lines[s] > 0 => name'[s] = name[s]
ReadsEnded == \A s \in Sessions : lines[s] > 0 /\ ~reading[s] => ~reading'[s]

LEMMA Steady ==
  ASSUME Inv, Talk, [Next]_vars PROVE NamesKept /\ ReadsEnded
<1> USE DEF NamesKept, ReadsEnded
<1>1. /\ reading \in [Sessions -> BOOLEAN] /\ lines \in [Sessions -> 0 .. 2]
      /\ name \in [Sessions -> Users \cup {None}]
      /\ \A s \in Sessions : conn[s] = "new" => lines[s] = 0
  BY DEF Inv, TypeOK, SessionTypeOK, Talk, SilentBefore
<1>2. CASE UNCHANGED <<name, reading>>
  BY <1>2
<1>3. ASSUME NEW s \in Sessions, ReadJoin(s) PROVE NamesKept /\ ReadsEnded
  <2>1. PICK u : name' = [name EXCEPT ![s] = u]
    BY <1>3 DEF ReadJoin
  <2>2. lines[s] = 0 /\ reading[s] /\ reading' = [reading EXCEPT ![s] = conn[s] = "open"]
    BY <1>3 DEF ReadJoin, ReadLine
  <2> QED
    BY <1>1, <2>1, <2>2
<1>4. ASSUME NEW s \in Sessions, ReadPicture(s) \/ ReadChat(s)
      PROVE  NamesKept /\ ReadsEnded
  <2>1. /\ UNCHANGED name
        /\ reading[s] /\ reading' = [reading EXCEPT ![s] = conn[s] = "open"]
    BY <1>4 DEF ReadPicture, ReadChat, ReadLine
  <2> QED
    BY <1>1, <2>1
<1>5. ASSUME NEW s \in Sessions, ReadEof(s) \/ ReadFailed(s)
      PROVE  NamesKept /\ ReadsEnded
  <2>1. UNCHANGED name /\ reading' = [reading EXCEPT ![s] = FALSE]
    BY <1>5 DEF ReadEof, ReadEnd, ReadFailed, ReadError
  <2> QED
    BY <1>1, <2>1
<1>6. ASSUME NEW s \in Sessions, Accepted(s) PROVE NamesKept /\ ReadsEnded
  <2>1. UNCHANGED name /\ conn[s] = "new" /\ reading' = [reading EXCEPT ![s] = TRUE]
    BY <1>6 DEF Accepted, Connect
  <2> QED
    BY <1>1, <2>1
<1>7. ASSUME NEW s \in Sessions, Written(s) \/ WriteFailed(s) \/ Disconnected(s)
      PROVE  UNCHANGED <<name, reading>>
  BY <1>7 DEF Written, WriteFailed, Disconnected, Write, WriteError, Disconnect
<1>8. EraseSession => UNCHANGED <<name, reading>>
  BY DEF EraseSession, sessionVars
<1>9. UiThread => UNCHANGED <<name, reading>>
  BY DEF UiThread, PopResponse, HandleProfilePictureDataRequest, HandlePendingSessions,
     IsUserConnected, OnClientAccept, PopInbox, Broadcast, OnUpdateClients, Render,
     KickUser, sessionVars
<1>10. RunDatabase \/ Leave \/ UNCHANGED vars => UNCHANGED <<name, reading>>
  BY DEF RunDatabase, Leave, ClientLeaves, vars, sessionVars
<1> QED
  BY <1>2, <1>3, <1>4, <1>5, <1>6, <1>7, <1>8, <1>9, <1>10 DEF Next, NetworkThread

\* Only a kick ends a conversation.
LEMMA TalkedKept ==
  ASSUME Inv, Talk, [Next]_vars, ~KickUser \/ UNCHANGED sessions,
         NEW s \in Sessions, TalkedTo(s)
  PROVE  TalkedTo(s)'
<1>1. SessionTypeOK /\ sessions \subseteq Sessions
  BY DEF Inv, TypeOK
<1>2. ASSUME Posted(s)' = Posted(s) PROVE TalkedTo(s)'
  BY <1>2, StageKept
<1>3. CASE UNCHANGED <<written, outbox>>
  BY <1>2, <1>3, SameWords
<1>4. ASSUME NEW t \in Sessions, NEW out \in Seq(Out), Send({t}, out), UNCHANGED written,
             NotAnswered(t)
      PROVE  TalkedTo(s)'
  <2>1. s # t
    BY <1>1, <1>4, StagesApart
  <2> QED
    BY <1>1, <1>2, <1>4, <2>1, PostedSend
<1>5. ASSUME NEW group, NEW out \in Out, out.type \in {"chat", "picture"},
             Send(group, <<out>>), UNCHANGED written
      PROVE  TalkedTo(s)'
  <2>1. <<out>> \in Seq(Out)
    OBVIOUS
  <2>2. Posted(s)' = Posted(s) \/ Posted(s)' = Posted(s) \o <<out>>
    BY <1>1, <1>5, <2>1, PostedSend
  <2> QED
    BY <1>1, <1>2, <1>5, <2>2, StageSteps
<1>6. ASSUME NEW t \in Sessions, Written(t) \/ Disconnected(t) PROVE TalkedTo(s)'
  <2>1. /\ outbox[t] # <<>>
        /\ written' = [written EXCEPT ![t] = Append(@, Head(outbox[t]))]
        /\ outbox' = [outbox EXCEPT ![t] = Tail(@)]
    BY <1>6 DEF Written, Disconnected, Write, Disconnect
  <2> QED
    BY <1>1, <1>2, <2>1, PostedSaid
<1>7. CASE HandlePendingSessions
  <2>1. /\ uiAnswer \in Answer /\ uiAnswer.name \in Users /\ uiAnswer.by \in Sessions
        /\ UNCHANGED written /\ pending \in [Users -> Sessions \cup {None}]
    BY <1>7 DEF HandlePendingSessions, UiAt, Inv, UiPlaces, Answer, TypeOK
  <2>2. <<Reject(uiAnswer.by), Bye>> \in Seq(Out)
    BY <2>1 DEF Reject, Bye, Out
  <2>3. \/ UNCHANGED outbox
        \/ Waiting # None /\ Send({Waiting}, <<Reject(uiAnswer.by), Bye>>)
    BY <1>7 DEF HandlePendingSessions, OnClientReject
  <2>4. Waiting # None => Waiting \in Sessions /\ NotAnswered(Waiting)
    BY <2>1 DEF Waiting, Talk, WaitersNotAnswered
  <2> QED
    BY <1>3, <1>4, <2>1, <2>2, <2>3, <2>4
<1>8. CASE IsUserConnected \/ OnClientAccept
  <2>1. /\ uiAnswer \in Answer /\ uiAnswer.by \in Sessions
        /\ uiSession \in Sessions /\ UNCHANGED written
    BY <1>8 DEF IsUserConnected, OnClientAccept, UiAt, Inv, UiPlaces, Answer
  <2>2. /\ <<Reject(uiAnswer.by), Bye>> \in Seq(Out) /\ <<Accept(uiAnswer.by)>> \in Seq(Out)
    BY <2>1 DEF Reject, Accept, Bye, Out
  <2>3. \/ UNCHANGED outbox
        \/ Send({uiSession}, <<Reject(uiAnswer.by), Bye>>)
        \/ Send({uiSession}, <<Accept(uiAnswer.by)>>)
    BY <1>8 DEF IsUserConnected, OnClientAccept, OnClientReject
  <2>4. NotAnswered(uiSession)
    BY <2>1, ProtocolAssumption DEF Talk, WaitersNotAnswered
  <2> QED
    BY <1>3, <1>4, <2>1, <2>2, <2>3, <2>4
<1>9. CASE HandleProfilePictureDataRequest
  <2>1. /\ uiAnswer \in PictureAnswer /\ UNCHANGED written
        /\ \E group : Send(group, <<PictureLine(uiAnswer.name)>>)
    BY <1>9 DEF HandleProfilePictureDataRequest, UiAt, Inv, UiPlaces
  <2>2. PictureLine(uiAnswer.name) \in Out /\ PictureLine(uiAnswer.name).type = "picture"
    BY <2>1 DEF PictureLine, Out, PictureAnswer
  <2> QED
    BY <1>5, <2>1, <2>2
<1>10. CASE Broadcast
  <2>1. uiChat \in Chat /\ UNCHANGED written /\ Send(sessions, <<ChatLine(uiChat)>>)
    BY <1>10 DEF Broadcast, UiAt, Inv, UiPlaces
  <2>2. ChatLine(uiChat) \in Out /\ ChatLine(uiChat).type = "chat"
    BY <2>1 DEF ChatLine, Out
  <2> QED
    BY <1>5, <2>1, <2>2
<1>11. CASE KickUser
  <2>1. UNCHANGED <<written, outbox>>
    BY <1>1, <1>11 DEF KickUser, Members
  <2> QED
    BY <1>3, <2>1
<1>12. CASE /\ ~(HandlePendingSessions \/ IsUserConnected \/ OnClientAccept)
            /\ ~(HandleProfilePictureDataRequest \/ Broadcast \/ KickUser)
            /\ \A t \in Sessions : ~(Written(t) \/ Disconnected(t))
  <2>1. UNCHANGED <<written, outbox>>
    BY <1>12 DEF Next, NetworkThread, EraseSession, ReadJoin, ReadPicture, ReadChat, ReadEof,
       Accepted, ReadFailed, WriteFailed, SessionAlone, Connect, ReadLine, ReadEnd, ReadError,
       WriteError, UiThread, PopResponse, PopInbox, OnUpdateClients, Render, RunDatabase,
       Leave, ClientLeaves, vars, sessionVars
  <2> QED
    BY <1>3, <2>1
<1> QED
  BY <1>6, <1>7, <1>8, <1>9, <1>10, <1>11, <1>12

LEMMA TalkedUnkicked ==
  ASSUME SessionTypeOK, NEW s \in Sessions, TalkedTo(s) PROVE Lines(s, {"kick"}) = {}
<1>1. Len(Posted(s)) \in Nat /\ DOMAIN Posted(s) = 1 .. Len(Posted(s))
  BY PostedTyped, LenProperties
<1> SUFFICES ASSUME NEW i \in 1 .. Len(Posted(s)) PROVE Posted(s)[i].type # "kick"
  BY <1>1 DEF Lines
<1>2. i = 1 \/ i \in 2 .. Len(Posted(s))
  BY <1>1
<1> QED
  BY <1>2 DEF TalkedTo

\* Who is let in is accounted for.
LEMMA AccountedAccept ==
  ASSUME Inv, Talk, OnClientAccept, NEW u \in Users, u = name[uiSession]
  PROVE  Accounted(u)'
<1>1. /\ uiAnswer \in Answer /\ uiAnswer.by \in Sessions
      /\ uiSession \in Sessions /\ uiSession # None /\ lines[uiSession] > 0
      /\ name[uiSession] \in Users /\ SessionTypeOK
      /\ lastIn \in [Users -> Sessions \cup {None}]
  BY ProtocolAssumption
  DEF OnClientAccept, UiAt, UiPlaces, Answer, Inv, TypeOK, Joined, Named
<1>2. /\ UNCHANGED <<written, name>> /\ Send({uiSession}, <<Accept(uiAnswer.by)>>)
      /\ lastIn' = [lastIn EXCEPT ![name[uiSession]] = uiSession]
  BY DEF OnClientAccept
<1>3. PICK s \in Sessions : s = uiSession /\ NotAnswered(s)
  BY <1>1 DEF Talk, WaitersNotAnswered
<1>4. <<Accept(uiAnswer.by)>> \in Seq(Out)
  BY <1>1 DEF Accept, Out
<1>5. Posted(s)' = Posted(s) \o <<Accept(uiAnswer.by)>>
  BY <1>1, <1>2, <1>3, <1>4, PostedSend
<1>6. TalkedTo(s)'
  BY <1>1, <1>3, <1>5, StageSteps
<1>7. lastIn'[u] = s /\ name'[s] = u
  BY <1>1, <1>2, <1>3
<1> QED
  BY <1>1, <1>6, <1>7 DEF Accounted

\* Only a kick makes somebody unaccounted for.
LEMMA AccountedKept ==
  ASSUME Inv, Talk, [Next]_vars, ~KickUser \/ UNCHANGED sessions,
         NEW u \in Users, Accounted(u)
  PROVE  Accounted(u)'
<1>1. NamesKept
  BY Steady
<1>2. PICK s \in Sessions : s = lastIn[u] /\ name[s] = u /\ TalkedTo(s)
  BY DEF Accounted
<1>3. TalkedTo(s)'
  BY <1>2, TalkedKept
<1>4. name'[s] = u
  <2>1. lines[s] = 0 => name[s] = None
    BY DEF Talk, SilentBefore
  <2>2. lines \in [Sessions -> 0 .. 2] /\ u # None
    BY ProtocolAssumption DEF Inv, TypeOK, SessionTypeOK
  <2>3. lines[s] > 0
    BY <1>2, <2>1, <2>2
  <2> QED
    BY <1>1, <1>2, <2>3 DEF NamesKept
<1>5. CASE ~OnClientAccept
  <2>1. lastIn' = lastIn
    BY <1>5 DEF Next, NetworkThread, EraseSession, ReadJoin, ReadPicture, ReadChat, ReadEof,
       Accepted, ReadFailed, Written, WriteFailed, Disconnected, SessionAlone, UiThread,
       PopResponse, HandleProfilePictureDataRequest, HandlePendingSessions, IsUserConnected,
       PopInbox, Broadcast, OnUpdateClients, Render, KickUser, RunDatabase, Leave, vars,
       serverVars
  <2> QED
    BY <1>2, <1>3, <1>4, <2>1 DEF Accounted
<1>6. CASE OnClientAccept
  <2>1. lastIn'[u] = lastIn[u] \/ name[uiSession] = u
    BY <1>6 DEF OnClientAccept, Inv, TypeOK
  <2>2. CASE lastIn'[u] = lastIn[u]
    BY <1>2, <1>3, <1>4, <2>2 DEF Accounted
  <2>3. CASE name[uiSession] = u
    BY <1>6, <2>3, AccountedAccept
  <2> QED
    BY <2>1, <2>2, <2>3
<1> QED
  BY <1>5, <1>6

LEMMA ShownInit == Init => Shown
  BY EmptySeq DEF Init, Shown, ToSet, KickMissesOnlyDeparted

\* Steps that take no name off a list.
LEMMA ShownKept ==
  ASSUME Inv, Talk, Shown, [Next]_vars, ~KickUser,
         panel' \cup ToSet(pendingNames') \subseteq
            {u \in Users : u \in panel \cup ToSet(pendingNames) \/ Accounted(u)'},
         ToSet(disconnectedNames) \subseteq ToSet(disconnectedNames'),
         uiPc' = "render" => uiPc = "render" /\ UNCHANGED panel,
         UNCHANGED userToKick
  PROVE  Shown'
<1>1. \A u \in Users : Accounted(u) => Accounted(u)'
  BY AccountedKept
<1>2. panel \subseteq Users /\ userToKick \in Users \cup {None}
  BY DEF Inv, TypeOK
<1>3. \A u \in panel' \cup ToSet(pendingNames') :
        Accounted(u)' \/ u \in ToSet(disconnectedNames')
  BY <1>1, <1>2 DEF Shown
<1>4. uiPc' = "render" => \A u \in panel' : Accounted(u)'
  BY <1>1, <1>2 DEF Shown
<1>5. userToKick' # None => Accounted(userToKick)'
  <2>1. \A u \in Users : u = userToKick => Accounted(u)'
    BY <1>1, ProtocolAssumption DEF Shown
  <2>2. userToKick # None => userToKick \in Users
    BY <1>2
  <2>3. ASSUME NEW u \in Users, u = userToKick PROVE Accounted(userToKick)'
    <3>1. Accounted(u)' /\ userToKick' = u
      BY <2>1, <2>3
    <3> QED
      BY <3>1 DEF Accounted
  <2> QED
    BY <2>2, <2>3
<1>6. KickMissesOnlyDeparted'
  <2>1. CASE UNCHANGED vars
    <3>1. UNCHANGED <<fault, userToKick, lastIn, reading, written, outbox>>
      BY <2>1 DEF vars, uiVars, sessionVars, serverVars
    <3>2. Posted(lastIn[userToKick])' = Posted(lastIn[userToKick])
      BY <3>1 DEF Posted
    <3> QED
      BY <3>1, <3>2 DEF Shown, KickMissesOnlyDeparted, Lines
  <2>2. CASE Next
    <3>1. fault' # "end_iterator"
      BY <2>2 DEF Next, NetworkThread, EraseSession, ReadJoin, ReadPicture, ReadChat,
         ReadEof, Accepted, ReadFailed, Written, WriteFailed, Disconnected, SessionAlone,
         NetworkIdle, UiAt, UiThread, PopResponse, HandleProfilePictureDataRequest,
         HandlePendingSessions, IsUserConnected, OnClientAccept, PopInbox, Broadcast,
         OnUpdateClients, Render, RunDatabase, Leave
    <3> QED
      BY <3>1 DEF KickMissesOnlyDeparted
  <2> QED
    BY <2>1, <2>2
<1> QED
  BY <1>3, <1>4, <1>5, <1>6 DEF Shown

LEMMA NamesShown ==
  ASSUME Inv PROVE panel \subseteq Users /\ ToSet(pendingNames) \subseteq Users
  BY LenProperties, ElementOfSeq DEF ToSet, Inv, TypeOK

LEMMA RejectedListed ==
  ASSUME Inv, disconnectedNames' = Append(disconnectedNames, "rejected")
  PROVE  ToSet(disconnectedNames) \subseteq ToSet(disconnectedNames')
<1>1. disconnectedNames \in Seq(ListedName) /\ "rejected" \in ListedName
  BY DEF Inv, TypeOK, ListedName
<1>2. ToSet(Append(disconnectedNames, "rejected")) = ToSet(disconnectedNames) \cup {"rejected"}
  BY <1>1, ToSetAppend
<1> QED
  BY <1>2

LEMMA ShownAccept ==
  ASSUME Inv, Talk, Shown, OnClientAccept PROVE Shown'
<1>1. /\ uiSession \in Sessions /\ uiSession \in sessions'
      /\ name[uiSession] \in Users /\ name' = name
      /\ pendingNames \in Seq(Users) /\ pendingNames' = Append(pendingNames, name[uiSession])
      /\ UNCHANGED <<panel, disconnectedNames, userToKick>> /\ uiPc' = "responses"
  BY ProtocolAssumption
  DEF OnClientAccept, UiAt, UiGoto, Inv, TypeOK, UiPlaces, Joined, Named
<1>2. ToSet(Append(pendingNames, name[uiSession])) = ToSet(pendingNames) \cup {name[uiSession]}
  BY <1>1, ToSetAppend
<1>3. \A u \in Users : u = name[uiSession] => Accounted(u)'
  BY AccountedAccept
<1>4. panel' \cup ToSet(pendingNames') \subseteq
        {u \in Users : u \in panel \cup ToSet(pendingNames) \/ Accounted(u)'}
  BY <1>1, <1>2, <1>3, NamesShown
<1>5. ~KickUser /\ Next
  BY DEF OnClientAccept, KickUser, UiAt, Next, UiThread
<1> QED
  BY <1>1, <1>4, <1>5, ShownKept

LEMMA ShownUpdate ==
  ASSUME Inv, Talk, Shown, OnUpdateClients PROVE Shown'
<1>1. /\ panel' = (panel \cup ToSet(pendingNames)) \ ToSet(disconnectedNames)
      /\ pendingNames' = <<>> /\ userToKick' = userToKick
      /\ fault = "none" /\ fault' = fault /\ UNCHANGED sessions
  BY DEF OnUpdateClients, UiAt
<1>2. ~KickUser \/ UNCHANGED sessions
  BY <1>1
<1>3. \A u \in Users : Accounted(u) => Accounted(u)'
  BY <1>2, AccountedKept DEF Next, UiThread
<1>4. \A u \in panel' : u \in Users /\ Accounted(u)'
  BY <1>1, <1>3, NamesShown DEF Shown
<1>5. ToSet(pendingNames') = {}
  BY <1>1, EmptySeq DEF ToSet
<1>6. userToKick' # None => Accounted(userToKick)'
  <2>1. ASSUME NEW u \in Users, u = userToKick, userToKick # None
        PROVE  Accounted(userToKick)'
    <3>1. Accounted(u)' /\ userToKick' = u
      BY <1>1, <1>3, <2>1 DEF Shown
    <3> QED
      BY <3>1 DEF Accounted
  <2> QED
    BY <1>1, <2>1 DEF Inv, TypeOK
<1> QED
  BY <1>1, <1>4, <1>5, <1>6 DEF Shown, KickMissesOnlyDeparted

LEMMA ShownRender ==
  ASSUME Inv, Talk, Shown, Render PROVE Shown'
<1>1. /\ UNCHANGED <<panel, pendingNames, disconnectedNames, lastIn, name, outbox, written>>
      /\ uiPc = "render" /\ uiPc' # "render" /\ fault = "none" /\ fault' = fault
      /\ userToKick' \in panel \cup {userToKick, None}
  BY DEF Render, UiAt, UiGoto, serverVars, sessionVars
<1>2. \A u \in Users : Accounted(u) => Accounted(u)'
  <2>1. \A s \in Sessions : Posted(s)' = Posted(s)
    BY <1>1, SameWords
  <2>2. \A s \in Sessions : TalkedTo(s) => TalkedTo(s)'
    BY <2>1, StageKept
  <2> QED
    BY <1>1, <2>2 DEF Accounted
<1>3. panel \subseteq Users /\ ToSet(pendingNames) \subseteq Users
        /\ userToKick \in Users \cup {None}
  BY NamesShown DEF Inv, TypeOK
<1>4. userToKick' # None => Accounted(userToKick)'
  <2>1. ASSUME NEW u \in Users, u = userToKick' PROVE Accounted(userToKick)'
    <3>1. Accounted(u)
      BY <1>1, <1>3, <2>1, ProtocolAssumption DEF Shown
    <3> QED
      BY <1>2, <2>1, <3>1 DEF Accounted
  <2> QED
    BY <1>1, <1>3, <2>1
<1>5. ToSet(pendingNames)' = ToSet(pendingNames) /\ ToSet(disconnectedNames)' = ToSet(disconnectedNames)
  BY <1>1
<1> QED
  BY <1>1, <1>2, <1>3, <1>4, <1>5 DEF Shown, KickMissesOnlyDeparted

LEMMA ShownKick ==
  ASSUME Inv, Talk, Shown, KickUser PROVE Shown'
<1>1. /\ uiPc = "kick" /\ userToKick \in Users /\ userToKick # None
      /\ UNCHANGED <<name, reading, pendingNames, panel, lastIn, written>>
      /\ sessions \subseteq Sessions /\ SessionTypeOK
  BY ProtocolAssumption DEF KickUser, UiAt, Inv, UiPlaces, TypeOK
<1>2. ToSet(pendingNames) \subseteq Users /\ panel \subseteq Users
  BY NamesShown
<1>3. CASE Members(userToKick) = {}
  <2>1. fault' = "end_iterator"
          /\ UNCHANGED <<sessions, outbox, disconnectedNames, uiPc, userToKick>>
    BY <1>3 DEF KickUser
  <2>2. PICK s \in Sessions : s = lastIn[userToKick] /\ name[s] = userToKick /\ TalkedTo(s)
    BY <1>1 DEF Shown, Accounted
  <2>3. s \notin sessions
    BY <1>3, <2>2 DEF Members
  <2>4. ~reading[s]
    BY <2>2, <2>3 DEF Talk, MembersTalkedTo
  <2>5. Lines(s, {"kick"}) = {}
    BY <1>1, <2>2, TalkedUnkicked
  <2>6. \A u \in Users : Accounted(u) => Accounted(u)'
    <3>1. ~KickUser \/ UNCHANGED sessions
      BY <2>1
    <3> QED
      BY <3>1, AccountedKept DEF Next, UiThread
  <2>7. KickMissesOnlyDeparted'
    <3>1. Posted(s)' = Posted(s)
      BY <1>1, <2>1, SameWords
    <3>2. Lines(s, {"kick"})' = Lines(s, {"kick"})
      BY <3>1 DEF Lines
    <3>3. lastIn'[userToKick'] = s /\ s # None /\ ~reading'[s]
      BY <1>1, <2>1, <2>2, <2>4, ProtocolAssumption
    <3> QED
      BY <2>5, <3>2, <3>3 DEF KickMissesOnlyDeparted
  <2>8. Accounted(userToKick)'
    <3>1. \A u \in Users : u = userToKick => Accounted(u)'
      BY <1>1, <2>6 DEF Shown
    <3> QED
      BY <1>1, <2>1, <3>1 DEF Accounted
  <2> QED
    BY <1>1, <1>2, <2>1, <2>6, <2>7, <2>8 DEF Shown
<1>4. CASE Members(userToKick) # {}
  <2>1. PICK s \in Members(userToKick) :
          sessions' = sessions \ {s} /\ Send({s}, <<Kick, Bye>>)
    BY <1>4 DEF KickUser
  <2>2. /\ disconnectedNames' = Append(disconnectedNames, userToKick)
        /\ userToKick' = None /\ uiPc' = "responses" /\ fault' = fault /\ fault = "none"
    BY <1>4 DEF KickUser, UiGoto, UiAt
  <2>3. ToSet(disconnectedNames') = ToSet(disconnectedNames) \cup {userToKick}
    <3>1. disconnectedNames \in Seq(ListedName) /\ userToKick \in ListedName
      BY <1>1 DEF Inv, TypeOK, ListedName
    <3> QED
      BY <2>2, <3>1, ToSetAppend
  <2>4. ASSUME NEW u \in Users, Accounted(u), u # userToKick PROVE Accounted(u)'
    <3>1. PICK t \in Sessions : t = lastIn[u] /\ name[t] = u /\ TalkedTo(t)
      BY <2>4 DEF Accounted
    <3>2. t # s /\ <<Kick, Bye>> \in Seq(Out)
      BY <2>1, <2>4, <3>1 DEF Members, Kick, Bye, Out
    <3>3. Posted(t)' = Posted(t)
      BY <1>1, <2>1, <3>2, PostedSend
    <3>4. TalkedTo(t)'
      BY <3>1, <3>3, StageKept
    <3> QED
      BY <1>1, <3>1, <3>4 DEF Accounted
  <2>5. \A u \in panel' \cup ToSet(pendingNames') :
          Accounted(u)' \/ u \in ToSet(disconnectedNames')
    BY <1>1, <1>2, <2>3, <2>4 DEF Shown
  <2> QED
    BY <2>2, <2>5 DEF Shown, KickMissesOnlyDeparted
<1> QED
  BY <1>3, <1>4

LEMMA ShownStep == Inv /\ Talk /\ Shown /\ [Next]_vars => Shown'
<1> SUFFICES ASSUME Inv, Talk, Shown, [Next]_vars PROVE Shown'
  OBVIOUS
<1>1. ASSUME ~KickUser, UNCHANGED <<panel, pendingNames, userToKick>>,
             ToSet(disconnectedNames) \subseteq ToSet(disconnectedNames'),
             uiPc' = uiPc \/ uiPc' # "render"
      PROVE  Shown'
  BY <1>1, NamesShown, ShownKept
<1>2. CASE OnClientAccept \/ OnUpdateClients \/ Render \/ KickUser
  BY <1>2, ShownAccept, ShownUpdate, ShownRender, ShownKick
<1>3. CASE HandlePendingSessions \/ IsUserConnected
  <2>1. \/ UNCHANGED disconnectedNames
        \/ disconnectedNames' = Append(disconnectedNames, "rejected")
    BY <1>3 DEF HandlePendingSessions, IsUserConnected, OnClientReject
  <2>2. /\ UNCHANGED <<panel, pendingNames, userToKick>> /\ ~KickUser
        /\ uiPc' # "render"
    BY <1>3 DEF HandlePendingSessions, IsUserConnected, UiAt, UiGoto, KickUser
  <2> QED
    BY <1>1, <2>1, <2>2, RejectedListed
<1>4. ASSUME NEW s \in Sessions, ReadEof(s), ~KickUser PROVE Shown'
  <2>1. /\ disconnectedNames' = Append(disconnectedNames, name[s])
        /\ UNCHANGED <<panel, pendingNames, userToKick, uiPc>>
    BY <1>4 DEF ReadEof, uiVars
  <2>2. disconnectedNames \in Seq(ListedName) /\ name[s] \in ListedName
    BY DEF Inv, TypeOK, SessionTypeOK, ListedName
  <2>3. ToSet(disconnectedNames') = ToSet(disconnectedNames) \cup {name[s]}
    BY <2>1, <2>2, ToSetAppend
  <2> QED
    BY <1>1, <1>4, <2>1, <2>3
<1>5. CASE /\ ~(OnClientAccept \/ OnUpdateClients \/ Render \/ KickUser)
           /\ ~(HandlePendingSessions \/ IsUserConnected)
           /\ \A s \in Sessions : ~ReadEof(s)
  <2>1. /\ UNCHANGED <<panel, pendingNames, userToKick, disconnectedNames>>
        /\ uiPc' = uiPc \/ uiPc' # "render"
    BY <1>5 DEF Next, NetworkThread, EraseSession, ReadJoin, ReadPicture, ReadChat,
       Accepted, ReadFailed, Written, WriteFailed, Disconnected, SessionAlone, UiThread,
       PopResponse, HandleProfilePictureDataRequest, PopInbox, Broadcast, RunDatabase,
       Leave, vars, serverVars, uiVars, UiGoto
  <2> QED
    BY <1>1, <1>5, <2>1
<1> QED
  BY <1>2, <1>3, <1>4, <1>5

THEOREM ShownInvariant == Spec => []Shown
<1>1. Init => Shown
  BY ShownInit
<1>2. Inv /\ Talk /\ Shown /\ [Next]_vars => Shown'
  BY ShownStep
<1> QED
  BY <1>1, <1>2, ServerInvariant, TalkInvariant, PTL DEF Spec

\* kickUser dereferences end() only where the last connection that was let in
\* under the name ended by itself: whatever happens between the entry in the
\* panel, the choice of a name, the popup and the search, neither an earlier
\* kick nor a connection that was refused under the name brings it about.
THEOREM KicksFind == Spec => []KickMissesOnlyDeparted
<1>1. Shown => KickMissesOnlyDeparted
  BY DEF Shown
<1> QED
  BY <1>1, ShownInvariant, PTL


-----------------------------------------------------------------------------
(* The way of an answer to its asker.                                      *)

Handling(s) == uiPc = "pending" /\ uiAnswer.by = s

\* A session has one ask, one answer, or one answer being handled.
OneAskEach == \A s \in Sessions : OneAsk(s) /\ (Handling(s) => ~Asking(s))

\* What is on its way carries the name its session was given.
NamesRight ==
    /\ NamedAs(requests, name)
    /\ NamedAs(responses, name)
    /\ uiPc \in {"pending", "decide", "accept"} => uiAnswer.name = name[uiAnswer.by]
    /\ uiPc \in {"decide", "accept"} => uiAnswer.name = name[uiSession]

\* A session that has not been answered waits under its name, or another of
\* that name took its place or its answer.
Expected ==
    \A s \in Sessions :
        Asking(s) \/ Handling(s) =>
            lines[s] > 0 /\ (NameShared(s) \/ pending[name[s]] = s)

Heeded(s) ==
    \A i \in Lines(s, {"accept", "reject"}) : Posted(s)[i].for = s \/ NameShared(s)

NullSessionShared ==
    fault = "null_session" => \E s \in Sessions : lines[s] > 0 /\ NameShared(s)

Asks ==
    /\ OneAskEach
    /\ NamesRight
    /\ Expected
    /\ \A s \in Sessions : Heeded(s)
    /\ NullSessionShared

\* Words that are no answer.
Unanswering(out) == \A i \in DOMAIN out : out[i].type \notin {"accept", "reject"}

\* Words that are no chat.
Chatless(out) == \A i \in DOMAIN out : out[i].type # "chat"

LEMMA SharedKept ==
  ASSUME Inv, Talk, [Next]_vars, NEW s \in Sessions, lines[s] > 0, NameShared(s)
  PROVE  NameShared(s)'
<1>1. NamesKept
  BY Steady
<1>2. PICK t \in Sessions \ {s} : name[t] = name[s]
  BY DEF NameShared
<1>3. lines[t] > 0
  <2>1. name[s] \in Users /\ lines \in [Sessions -> 0 .. 2] /\ None \notin Users
    BY ProtocolAssumption DEF Inv, Named, TypeOK, SessionTypeOK
  <2> QED
    BY <1>2, <2>1 DEF Talk, SilentBefore
<1> QED
  BY <1>1, <1>2, <1>3 DEF NamesKept, NameShared

\* Where nothing was said, nobody asked.
LEMMA SaidByAsker ==
  ASSUME Inv, Talk, NEW s \in Sessions, Posted(s) # <<>>
  PROVE  lines[s] > 0
<1>1. lines \in [Sessions -> 0 .. 2]
  BY DEF Inv, TypeOK, SessionTypeOK
<1> QED
  BY <1>1 DEF Talk, SilentBefore, NotAnswered

LEMMA HeededKept ==
  ASSUME Inv, Talk, [Next]_vars, NEW s \in Sessions, Heeded(s),
         NEW out \in Seq(Out), Posted(s)' = Posted(s) \o out,
         \A i \in DOMAIN out : out[i].type \in {"accept", "reject"} =>
            out[i].for = s \/ NameShared(s)'
  PROVE  Heeded(s)'
<1> DEFINE old == Posted(s)
           more == old \o out
<1>1. old \in Seq(Out)
  BY PostedTyped DEF Inv, TypeOK
<1>2. /\ DOMAIN old = 1 .. Len(old) /\ Len(old) \in Nat
      /\ DOMAIN out = 1 .. Len(out) /\ Len(out) \in Nat
      /\ DOMAIN more = 1 .. Len(old) + Len(out)
      /\ \A i \in 1 .. Len(old) + Len(out) :
           more[i] = IF i <= Len(old) THEN old[i] ELSE out[i - Len(old)]
  BY <1>1, ConcatProperties, LenProperties
<1>3. old # <<>> /\ NameShared(s) => NameShared(s)'
  BY SaidByAsker, SharedKept
<1>4. \A i \in DOMAIN old : old # <<>>
  BY <1>2, EmptySeq
<1>5. \A i \in DOMAIN old : old[i].type \in {"accept", "reject"} =>
         old[i].for = s \/ NameShared(s)
  BY DEF Heeded, Lines
<1> HIDE DEF old, more
<1>6. \A i \in DOMAIN more :
        \/ i \in DOMAIN old /\ more[i] = old[i]
        \/ i - Len(old) \in DOMAIN out /\ more[i] = out[i - Len(old)]
  BY <1>2
<1>7. \A i \in DOMAIN more : more[i].type \in {"accept", "reject"} =>
         more[i].for = s \/ NameShared(s)'
  BY <1>3, <1>4, <1>5, <1>6
<1> QED
  BY <1>7 DEF Heeded, Lines, more, old

\* Only three steps give answers, and of the others only one says a chat.
LEMMA NoAnswer ==
  ASSUME Inv, [Next]_vars, ~HandlePendingSessions, ~IsUserConnected, ~OnClientAccept,
         NEW t \in Sessions
  PROVE  \E out \in Seq(Out) :
            /\ Unanswering(out) /\ (Broadcast \/ Chatless(out))
            /\ Posted(t)' = Posted(t) \o out
<1>1. SessionTypeOK /\ Posted(t) \in Seq(Out)
  BY PostedTyped DEF Inv, TypeOK
<1>2. /\ <<>> \in Seq(Out) /\ Posted(t) \o <<>> = Posted(t)
      /\ Unanswering(<<>>) /\ Chatless(<<>>)
  BY <1>1, EmptySeq, ConcatEmptySeq DEF Unanswering, Chatless
<1>3. CASE Posted(t)' = Posted(t)
  BY <1>2, <1>3
<1>4. ASSUME NEW out \in Seq(Out), Unanswering(out), NEW group, Send(group, out),
             UNCHANGED written
      PROVE  Posted(t)' = Posted(t) \/ Posted(t)' = Posted(t) \o out
  BY <1>1, <1>4, PostedSend
<1>5. CASE UNCHANGED <<written, outbox>>
  BY <1>3, <1>5 DEF Posted
<1>6. ASSUME NEW s \in Sessions, Written(s) \/ Disconnected(s) PROVE Posted(t)' = Posted(t)
  <2>1. /\ outbox[s] # <<>>
        /\ written' = [written EXCEPT ![s] = Append(@, Head(outbox[s]))]
        /\ outbox' = [outbox EXCEPT ![s] = Tail(@)]
    BY <1>6 DEF Written, Disconnected, Write, Disconnect
  <2> QED
    BY <1>1, <2>1, PostedSaid
<1>7. CASE HandleProfilePictureDataRequest
  <2>1. uiAnswer.name \in Users /\ UNCHANGED written
    BY <1>7 DEF HandleProfilePictureDataRequest, UiAt, Inv, UiPlaces, PictureAnswer
  <2>2. PICK group : Send(group, <<PictureLine(uiAnswer.name)>>)
    BY <1>7 DEF HandleProfilePictureDataRequest
  <2>3. /\ <<PictureLine(uiAnswer.name)>> \in Seq(Out)
        /\ Unanswering(<<PictureLine(uiAnswer.name)>>) /\ Chatless(<<PictureLine(uiAnswer.name)>>)
    BY <2>1 DEF PictureLine, Out, Unanswering, Chatless
  <2> QED
    BY <1>3, <1>4, <2>1, <2>2, <2>3
<1>8. CASE Broadcast
  <2>1. uiChat \in Chat /\ UNCHANGED written /\ Send(sessions, <<ChatLine(uiChat)>>)
    BY <1>8 DEF Broadcast, UiAt, Inv, UiPlaces
  <2>2. <<ChatLine(uiChat)>> \in Seq(Out) /\ Unanswering(<<ChatLine(uiChat)>>)
    BY <2>1 DEF ChatLine, Out, Unanswering
  <2> QED
    BY <1>3, <1>4, <1>8, <2>1, <2>2
<1>9. CASE KickUser /\ Members(userToKick) # {}
  <2>1. PICK s : Send({s}, <<Kick, Bye>>) /\ UNCHANGED written
    BY <1>9 DEF KickUser
  <2>2. <<Kick, Bye>> \in Seq(Out) /\ Unanswering(<<Kick, Bye>>) /\ Chatless(<<Kick, Bye>>)
    BY DEF Kick, Bye, Out, Unanswering, Chatless
  <2> QED
    BY <1>3, <1>4, <2>1, <2>2
<1>10. \/ UNCHANGED <<written, outbox>>
       \/ \E s \in Sessions : Written(s) \/ Disconnected(s)
       \/ HandleProfilePictureDataRequest
       \/ Broadcast
       \/ KickUser /\ Members(userToKick) # {}
  BY DEF Next, NetworkThread, EraseSession, ReadJoin, ReadPicture, ReadChat, ReadEof,
     Accepted, ReadFailed, WriteFailed, SessionAlone, ReadLine, ReadEnd, ReadError, Connect,
     WriteError, UiThread, PopResponse, PopInbox, OnUpdateClients, Render, KickUser,
     RunDatabase, Leave, ClientLeaves, vars, sessionVars
<1> QED
  BY <1>3, <1>5, <1>6, <1>7, <1>8, <1>9, <1>10

LEMMA AsksInit == Init => Asks
<1> SUFFICES ASSUME Init PROVE Asks
  OBVIOUS
<1>1. requests = <<>> /\ responses = <<>> /\ uiPc = "responses" /\ fault = "none"
  BY DEF Init, DatabaseInit
<1>2. \A s \in Sessions : Posted(s) = <<>>
  BY EmptySeq, ConcatEmptySeq DEF Init, SessionInit, Posted
<1>3. DOMAIN <<>> = {}
  BY EmptySeq
<1>4. \A s : AsksBy(<<>>, s) = {}
  BY <1>3 DEF AsksBy
<1>5. \A s \in Sessions : Heeded(s)
  BY <1>2, <1>3 DEF Heeded, Lines
<1>6. OneAskEach /\ Expected
  BY <1>1, <1>4 DEF OneAskEach, OneAsk, Asking, Handling, Expected
<1>7. NamesRight /\ NullSessionShared
  BY <1>1, <1>3 DEF NamesRight, NamedAs, NullSessionShared
<1> QED
  BY <1>5, <1>6, <1>7 DEF Asks

\* Steps that give no answer, set no name and find no null session.
LEMMA AsksKept ==
  ASSUME Inv, Talk, Asks, [Next]_vars,
         ~HandlePendingSessions, ~IsUserConnected, ~OnClientAccept,
         UNCHANGED <<name, pending>>,
         \A s \in Sessions : lines[s] > 0 => lines'[s] > 0,
         NamedAs(requests', name), NamedAs(responses', name),
         \A s \in Sessions : OneAsk(s)' /\ (Handling(s)' => ~Asking(s)'),
         \A s \in Sessions : Asking(s)' \/ Handling(s)' => Asking(s) \/ Handling(s),
         uiPc' \in {"pending", "decide", "accept"} => uiAnswer'.name = name[uiAnswer'.by],
         uiPc' \in {"decide", "accept"} => uiAnswer'.name = name[uiSession']
  PROVE  Asks'
<1>1. OneAskEach' /\ NamesRight'
  BY DEF OneAskEach, NamesRight
<1>2. Expected'
  BY SharedKept DEF Asks, Expected
<1>3. \A s \in Sessions : Heeded(s)'
  <2> SUFFICES ASSUME NEW s \in Sessions PROVE Heeded(s)'
    OBVIOUS
  <2>1. PICK out \in Seq(Out) : Unanswering(out) /\ Posted(s)' = Posted(s) \o out
    BY NoAnswer
  <2> QED
    BY <2>1, HeededKept DEF Asks, Unanswering
<1>4. NullSessionShared'
  <2>1. CASE UNCHANGED vars
    BY <2>1 DEF Asks, NullSessionShared, NameShared, vars, sessionVars
  <2>2. CASE Next
    <3>1. fault' # "null_session"
      BY <2>2 DEF Next, NetworkThread, EraseSession, ReadJoin, ReadPicture, ReadChat,
         ReadEof, Accepted, ReadFailed, Written, WriteFailed, Disconnected, SessionAlone,
         NetworkIdle, UiAt, UiThread, PopResponse, HandleProfilePictureDataRequest,
         PopInbox, Broadcast, OnUpdateClients, Render, KickUser, RunDatabase, Leave
    <3> QED
      BY <3>1 DEF NullSessionShared
  <2> QED
    BY <2>1, <2>2
<1> QED
  BY <1>1, <1>2, <1>3, <1>4 DEF Asks

\* The same, for steps that leave the answers alone and ask for nothing but
\* pictures and the storing of chats.
LEMMA AsksApart ==
  ASSUME Inv, Talk, Asks, [Next]_vars,
         ~HandlePendingSessions, ~IsUserConnected, ~OnClientAccept,
         UNCHANGED <<name, pending, responses>>,
         \A s \in Sessions : lines[s] > 0 => lines'[s] > 0,
         requests' = requests \/ \E r \in Request : ~IsAsk(r) /\ requests' = requests \o <<r>>,
         uiPc' \in {"pending", "decide", "accept"} => UNCHANGED <<uiPc, uiAnswer, uiSession>>
  PROVE  Asks'
<1>1. requests \in Seq(Request)
  BY DEF Inv, TypeOK, DatabaseTypeOK
<1>2. \A s \in Sessions : AsksBy(requests', s) = AsksBy(requests, s)
  <2> SUFFICES ASSUME NEW s \in Sessions, NEW r \in Request, ~IsAsk(r), requests' = requests \o <<r>>
               PROVE  AsksBy(requests', s) = AsksBy(requests, s)
    OBVIOUS
  <2>1. <<r>> \in Seq(Request) /\ \A i \in DOMAIN <<r>> : ~IsAsk(<<r>>[i])
    OBVIOUS
  <2>2. AsksBy(requests \o <<r>>, s) = AsksBy(requests, s)
    BY <1>1, <2>1, AsksAppended
  <2> QED
    BY <2>2
<1>3. NamedAs(requests', name)
  <2>1. ASSUME NEW r \in Request, ~IsAsk(r), requests' = requests \o <<r>>
        PROVE  NamedAs(requests', name)
    <3>1. NamedAs(Append(requests, r), name)
      BY <1>1, <2>1, NamedAsAppend DEF Asks, NamesRight
    <3>2. requests \o <<r>> = Append(requests, r)
      BY <1>1, AppendIsConcat
    <3> QED
      BY <2>1, <3>1, <3>2
  <2> QED
    BY <2>1 DEF Asks, NamesRight
<1>4. \A s \in Sessions : /\ OneAsk(s)' = OneAsk(s) /\ Asking(s)' = Asking(s)
                          /\ Handling(s)' => Handling(s)
  BY <1>2 DEF OneAsk, Asking, Handling
<1> QED
  BY <1>3, <1>4, AsksKept DEF Asks, NamesRight, OneAskEach

LEMMA AsksDatabase ==
  ASSUME Inv, Talk, Asks, RunDatabase PROVE Asks'
<1>1. /\ DatabaseThread /\ DatabaseTypeOK
      /\ UNCHANGED <<name, pending, lines, uiPc, uiAnswer, uiSession>>
  BY DEF RunDatabase, sessionVars, serverVars, uiVars, Inv, TypeOK
<1>2. NamedAs(requests', name) /\ NamedAs(responses', name)
  BY <1>1, NamesServed DEF Asks, NamesRight
<1>3. \A s \in Sessions : /\ OneAsk(s)' /\ (Asking(s)' => Asking(s))
                          /\ Handling(s)' = Handling(s)
  BY <1>1, AsksServed DEF Asks, OneAskEach, Handling
<1>4. /\ [Next]_vars /\ ~HandlePendingSessions /\ ~IsUserConnected /\ ~OnClientAccept
  <2>1. UNCHANGED uiVars /\ [Next]_vars
    BY DEF RunDatabase, Next
  <2>2. HandlePendingSessions => fault' # fault \/ uiPc' # uiPc
    BY DEF HandlePendingSessions, UiAt, UiGoto
  <2>3. IsUserConnected \/ OnClientAccept => uiPc' # uiPc
    BY DEF IsUserConnected, OnClientAccept, UiAt, UiGoto
  <2> QED
    BY <2>1, <2>2, <2>3 DEF RunDatabase, uiVars
<1> QED
  BY <1>1, <1>2, <1>3, <1>4, AsksKept DEF Asks, NamesRight, OneAskEach

LEMMA AsksPop ==
  ASSUME Inv, Talk, Asks, PopResponse PROVE Asks'
<1>1. /\ uiPc = "responses" /\ UNCHANGED <<requests, name, lines, pending, uiSession>>
      /\ responses \in Seq(Response)
      /\ [Next]_vars /\ ~HandlePendingSessions /\ ~IsUserConnected /\ ~OnClientAccept
  BY DEF PopResponse, UiAt, sessionVars, serverVars, Inv, TypeOK, DatabaseTypeOK, Next,
     UiThread, HandlePendingSessions, IsUserConnected, OnClientAccept
<1>2. CASE responses = <<>>
  <2>1. UNCHANGED <<responses, uiAnswer>> /\ uiPc' = "inbox"
    BY <1>2 DEF PopResponse, UiGoto
  <2> QED
    BY <1>1, <2>1, AsksApart
<1>3. CASE responses # <<>>
  <2>1. /\ uiAnswer' = Head(responses) /\ responses' = Tail(responses)
        /\ uiPc' = IF Head(responses).type = "picture" THEN "picture" ELSE "pending"
    BY <1>3 DEF PopResponse, UiGoto
  <2>2. Head(responses) \in Response
    BY <1>1, <1>3, HeadTailProperties
  <2>3. uiPc' = "pending" => IsAsk(uiAnswer')
    BY <2>1, <2>2 DEF Response, PictureAnswer, Answer, IsAsk
  <2>4. /\ NamedAs(responses', name)
        /\ IsAsk(uiAnswer') => uiAnswer'.name = name[uiAnswer'.by]
    BY <1>1, <1>3, <2>1, NamedAsTail DEF Asks, NamesRight
  <2>5. ASSUME NEW s \in Sessions
        PROVE  /\ OneAsk(s)' /\ (Handling(s)' => ~Asking(s)')
               /\ Asking(s)' \/ Handling(s)' => Asking(s)
    <3>1. /\ \A i, j \in AsksBy(responses', s) : i = j
          /\ AsksBy(responses', s) # {} => AsksBy(responses, s) # {}
          /\ AsksBy(responses', s) # {} => ~(IsAsk(uiAnswer') /\ uiAnswer'.by = s)
          /\ IsAsk(uiAnswer') /\ uiAnswer'.by = s => AsksBy(responses, s) # {}
      <4>1. \A i, j \in AsksBy(responses, s) : i = j
        BY DEF Asks, OneAskEach, OneAsk
      <4> QED
        BY <1>1, <1>3, <2>1, <4>1, AsksTail
    <3>2. Handling(s)' => IsAsk(uiAnswer') /\ uiAnswer'.by = s
      BY <2>3 DEF Handling
    <3>3. OneAsk(s) /\ AsksBy(requests', s) = AsksBy(requests, s)
      BY <1>1 DEF Asks, OneAskEach
    <3> QED
      BY <3>1, <3>2, <3>3 DEF OneAsk, Asking
  <2>6. NamedAs(requests', name)
    BY <1>1 DEF Asks, NamesRight
  <2>7. uiPc' \notin {"decide", "accept"}
    BY <2>1
  <2> QED
    BY <1>1, <2>3, <2>4, <2>5, <2>6, <2>7, AsksKept
<1> QED
  BY <1>2, <1>3

\* A join line: the session that asks had no name, and so had not asked; the
\* session whose place it takes in the map shares its name.
LEMMA AsksReadJoin ==
  ASSUME Inv, Talk, Asks, NEW s \in Sessions, ReadJoin(s) PROVE Asks'
<1>1. PICK join \in JoinRequest :
        /\ join.by = s
        /\ name' = [name EXCEPT ![s] = join.name]
        /\ pending' = [pending EXCEPT ![join.name] = s]
        /\ Submit(<<join>>)
  BY ServerAssumption DEF ReadJoin
<1>2. /\ lines[s] = 0 /\ lines' = [lines EXCEPT ![s] = 1]
      /\ UNCHANGED <<responses, uiPc, uiAnswer, uiSession, outbox, written>>
      /\ fault = "none" /\ fault' # "null_session"
      /\ uiPc # "pending" => fault' = "none"
  BY DEF ReadJoin, ReadLine, NetworkIdle, uiVars, HoldsPending
<1>3. /\ lines \in [Sessions -> 0 .. 2] /\ name \in [Sessions -> Users \cup {None}]
      /\ pending \in [Users -> Sessions \cup {None}]
      /\ join.name \in Users /\ name[s] = None /\ None \notin Users /\ None \notin Sessions
      /\ requests \in Seq(Request) /\ responses \in Seq(Response)
      /\ join \in Request /\ IsAsk(join)
  BY <1>2, ProtocolAssumption DEF Inv, TypeOK, SessionTypeOK, DatabaseTypeOK, JoinRequest,
     Request, Talk, SilentBefore, IsAsk
<1>4. ~Asking(s) /\ ~Handling(s)
  BY <1>2 DEF Asks, Expected
<1>5. requests' = Append(requests, join)
  BY <1>1, <1>3, AppendIsConcat DEF Submit
<1>6. \A t \in Sessions : AsksBy(requests', t) =
        AsksBy(requests, t) \cup (IF t = s THEN {Len(requests) + 1} ELSE {})
  <2> SUFFICES ASSUME NEW t \in Sessions
               PROVE  AsksBy(requests', t) =
                        AsksBy(requests, t) \cup (IF t = s THEN {Len(requests) + 1} ELSE {})
    OBVIOUS
  <2>1. AsksBy(Append(requests, join), t) =
          AsksBy(requests, t) \cup (IF IsAsk(join) /\ join.by = t THEN {Len(requests) + 1} ELSE {})
    BY <1>3, AsksAppend
  <2> QED
    BY <1>1, <1>3, <1>5, <2>1
<1>7. /\ \A t \in Sessions : OneAsk(t)' /\ Handling(t)' = Handling(t)
      /\ \A t \in Sessions \ {s} : Asking(t)' = Asking(t)
  BY <1>2, <1>4, <1>6 DEF Asks, OneAskEach, OneAsk, Asking, Handling
<1>8. OneAskEach'
  BY <1>4, <1>7 DEF Asks, OneAskEach
<1>9. \A t \in Sessions \ {s} : name'[t] = name[t]
  BY <1>1, <1>3
<1>10. [Next]_vars
  BY DEF Next, NetworkThread
<1>11. NamesRight'
  <2>1. \A i \in DOMAIN requests : IsAsk(requests[i]) => requests[i].by \in Sessions /\ requests[i].by # s
    <3>1. ASSUME NEW i \in DOMAIN requests, IsAsk(requests[i])
          PROVE  requests[i].by \in Sessions /\ requests[i].by # s
      <4>1. requests[i] \in Request
        BY <1>3, ElementOfSeq, LenProperties
      <4>2. requests[i].by \in Sessions
        BY <3>1, <4>1 DEF Request, JoinRequest, SaveMessageRequest, SavePictureRequest,
           GetPictureRequest, ShutdownRequest, IsAsk, Join, Verdict
      <4> QED
        BY <1>4, <3>1, <4>2 DEF Asking, AsksBy
    <3> QED
      BY <3>1
  <2>2. \A i \in DOMAIN responses : IsAsk(responses[i]) => responses[i].by \in Sessions /\ responses[i].by # s
    <3>1. ASSUME NEW i \in DOMAIN responses, IsAsk(responses[i])
          PROVE  responses[i].by \in Sessions /\ responses[i].by # s
      <4>1. responses[i] \in Response
        BY <1>3, ElementOfSeq, LenProperties
      <4>2. responses[i].by \in Sessions
        BY <3>1, <4>1 DEF Response, PictureAnswer, Answer, IsAsk, Join, Verdict
      <4> QED
        BY <1>4, <3>1, <4>2 DEF Asking, AsksBy
    <3> QED
      BY <3>1
  <2>3. NamedAs(requests, name') /\ NamedAs(responses, name')
    BY <1>9, <2>1, <2>2 DEF Asks, NamesRight, NamedAs
  <2>4. NamedAs(requests', name')
    <3>1. join.name = name'[join.by]
      BY <1>1, <1>3
    <3>2. NamedAs(Append(requests, join), name')
      BY <1>3, <2>3, <3>1, NamedAsAppend
    <3> QED
      BY <1>5, <3>2
  <2>5. uiPc \in {"pending", "decide", "accept"} => uiAnswer.name = name'[uiAnswer.by]
    <3>1. ASSUME uiPc \in {"pending", "decide", "accept"} PROVE uiAnswer.by \in Sessions \ {s}
      <4>1. uiAnswer.by \in Sessions /\ uiAnswer.name \in Users
        BY <3>1 DEF Inv, UiPlaces, Answer
      <4>2. uiAnswer.name = name[uiAnswer.by]
        BY <3>1 DEF Asks, NamesRight
      <4> QED
        BY <1>3, <4>1, <4>2
    <3> QED
      BY <1>9, <3>1 DEF Asks, NamesRight
  <2>6. uiPc \in {"decide", "accept"} => uiAnswer.name = name'[uiSession]
    <3>1. ASSUME uiPc \in {"decide", "accept"} PROVE uiSession \in Sessions \ {s}
      <4>1. uiSession \in Sessions /\ lines[uiSession] > 0
        BY <1>3, <3>1 DEF Inv, UiPlaces, Joined
      <4> QED
        BY <1>2, <4>1
    <3> QED
      BY <1>9, <3>1 DEF Asks, NamesRight
  <2> QED
    BY <1>2, <2>3, <2>4, <2>5, <2>6 DEF NamesRight
<1>12. Expected'
  <2>1. lines'[s] > 0 /\ pending'[name'[s]] = s
    BY <1>1, <1>2, <1>3
  <2>2. ASSUME NEW t \in Sessions \ {s}, Asking(t)' \/ Handling(t)'
        PROVE  lines'[t] > 0 /\ (NameShared(t)' \/ pending'[name'[t]] = t)
    <3>1. lines[t] > 0 /\ (NameShared(t) \/ pending[name[t]] = t)
      BY <1>7, <2>2 DEF Asks, Expected
    <3>2. name[t] \in Users /\ name'[t] = name[t] /\ lines'[t] > 0
      BY <1>2, <1>3, <1>9, <3>1 DEF Inv, Named
    <3>3. CASE NameShared(t)
      BY <1>10, <3>1, <3>2, <3>3, SharedKept
    <3>4. CASE pending[name[t]] = t /\ name[t] # join.name
      BY <1>1, <1>3, <3>2, <3>4
    <3>5. CASE name[t] = join.name
      <4>1. name'[s] = name'[t]
        BY <1>1, <1>3, <3>2, <3>5
      <4> QED
        BY <3>2, <4>1 DEF NameShared
    <3> QED
      BY <3>1, <3>3, <3>4, <3>5
  <2> QED
    BY <2>1, <2>2 DEF Expected
<1>13. \A t \in Sessions : Heeded(t)'
  <2> SUFFICES ASSUME NEW t \in Sessions PROVE Heeded(t)'
    OBVIOUS
  <2>1. PICK out \in Seq(Out) : Unanswering(out) /\ Posted(t)' = Posted(t) \o out
    <3>1. ~HandlePendingSessions /\ ~IsUserConnected /\ ~OnClientAccept
      BY <1>2 DEF HandlePendingSessions, IsUserConnected, OnClientAccept, UiAt, UiGoto
    <3> QED
      BY <1>10, <3>1, NoAnswer
  <2> QED
    BY <1>10, <2>1, HeededKept DEF Asks, Unanswering
<1>14. NullSessionShared'
  BY <1>2 DEF NullSessionShared
<1> QED
  BY <1>8, <1>11, <1>12, <1>13, <1>14 DEF Asks

\* An answer to the ask of "by" is given to s, whose name it carries.
LEMMA AnswerHeeded ==
  ASSUME Inv, Talk, Asks, [Next]_vars, NEW s \in Sessions, NEW by \in Sessions,
         name[s] = name[by], lines[s] > 0, UNCHANGED <<name, written>>,
         \/ Send({s}, <<Reject(by), Bye>>)
         \/ Send({s}, <<Accept(by)>>)
  PROVE  \A t \in Sessions : Heeded(t)'
<1>1. SessionTypeOK
  BY DEF Inv, TypeOK
<1>2. by = s \/ NameShared(s)'
  BY DEF NameShared
<1>3. PICK out \in Seq(Out) :
        /\ Send({s}, out)
        /\ \A i \in DOMAIN out : out[i].type \in {"accept", "reject"} => out[i].for = by
  <2>1. /\ <<Reject(by), Bye>> \in Seq(Out) /\ <<Accept(by)>> \in Seq(Out)
    BY DEF Reject, Accept, Bye, Out
  <2>2. /\ \A i \in DOMAIN <<Reject(by), Bye>> :
             <<Reject(by), Bye>>[i].type \in {"accept", "reject"} =>
                <<Reject(by), Bye>>[i].for = by
        /\ \A i \in DOMAIN <<Accept(by)>> : <<Accept(by)>>[i].for = by
    BY DEF Reject, Accept, Bye
  <2> QED
    BY <2>1, <2>2
<1>4. Heeded(s)'
  <2>1. Posted(s)' = Posted(s) \o out
    BY <1>1, <1>3, PostedSend
  <2> QED
    BY <1>2, <1>3, <2>1, HeededKept DEF Asks
<1>5. ASSUME NEW t \in Sessions \ {s} PROVE Heeded(t)'
  <2>1. Posted(t)' = Posted(t)
    BY <1>1, <1>3, PostedSend
  <2>2. Posted(t) \in Seq(Out)
    BY <1>1, PostedTyped
  <2>3. <<>> \in Seq(Out) /\ Posted(t)' = Posted(t) \o <<>> /\ DOMAIN <<>> = {}
    BY <2>1, <2>2, EmptySeq, ConcatEmptySeq
  <2> QED
    BY <2>3, HeededKept DEF Asks
<1> QED
  BY <1>4, <1>5

LEMMA AsksPending ==
  ASSUME Inv, Talk, Asks, HandlePendingSessions PROVE Asks'
<1>1. /\ uiPc = "pending" /\ uiAnswer \in Answer
      /\ uiAnswer.name \in Users /\ uiAnswer.by \in Sessions
      /\ pending \in [Users -> Sessions \cup {None}]
      /\ None \notin Sessions /\ [Next]_vars
      /\ UNCHANGED <<requests, responses, name, lines, written>> /\ fault = "none"
  BY ProtocolAssumption DEF HandlePendingSessions, UiAt, UiPlaces, Answer, Inv, TypeOK, Next,
     UiThread, dbVars
<1> DEFINE by == uiAnswer.by
           u == uiAnswer.name
<1>2. /\ name[by] = u /\ lines[by] > 0 /\ ~Asking(by)
      /\ NameShared(by) \/ pending[u] = by
  BY <1>1 DEF Asks, NamesRight, Expected, Handling, OneAskEach
<1> HIDE DEF by, u
<1>3. \A s \in Sessions : OneAsk(s)' = OneAsk(s) /\ Asking(s)' = Asking(s)
  BY <1>1 DEF OneAsk, Asking
<1>4. NamedAs(requests', name') /\ NamedAs(responses', name')
  BY <1>1 DEF Asks, NamesRight
<1>5. CASE Waiting = None
  <2>1. /\ UNCHANGED <<pending, outbox, uiPc, uiAnswer, uiSession>>
        /\ fault' = "null_session"
    BY <1>5 DEF HandlePendingSessions, Waiting
  <2>2. \A s \in Sessions : NameShared(s)' = NameShared(s) /\ Handling(s)' = Handling(s)
    BY <1>1, <2>1 DEF NameShared, Handling
  <2>3. NameShared(by)
    BY <1>1, <1>2, <1>5 DEF Waiting, by, u
  <2>4. OneAskEach' /\ NamesRight' /\ Expected'
    BY <1>1, <1>3, <1>4, <2>1, <2>2 DEF Asks, OneAskEach, NamesRight, Expected
  <2>5. NullSessionShared'
    BY <1>1, <1>2, <2>2, <2>3 DEF NullSessionShared, by
  <2>6. \A s \in Sessions : Heeded(s)'
    <3>1. \A s \in Sessions : Posted(s)' = Posted(s)
      BY <1>1, <2>1, SameWords
    <3> QED
      BY <2>2, <3>1 DEF Asks, Heeded, Lines
  <2> QED
    BY <2>4, <2>5, <2>6 DEF Asks
<1>6. ASSUME NEW s \in Sessions, Waiting = s PROVE Asks'
  <2>1. /\ lines[s] > 0 /\ s # None /\ name[s] = u
    BY <1>1, <1>6 DEF Waiting, Talk, WaitersNotAnswered, Inv, Joined, u
  <2>2. pending' = [pending EXCEPT ![u] = None] /\ fault' = fault
    BY <1>6, <2>1 DEF HandlePendingSessions, Waiting, u
  <2>3. /\ uiPc' \in {"decide", "responses"}
        /\ uiPc' = "decide" => uiSession' = s /\ uiAnswer' = uiAnswer
        /\ UNCHANGED outbox \/ Send({s}, <<Reject(by), Bye>>)
    BY <1>6, <2>1 DEF HandlePendingSessions, Waiting, OnClientReject, UiGoto, by
  <2>4. OneAskEach'
    BY <1>3, <2>3 DEF Asks, OneAskEach, Handling
  <2>5. NamesRight'
    BY <1>1, <1>2, <1>4, <2>1, <2>3 DEF NamesRight, by, u
  <2>6. Expected'
    <3>1. ASSUME NEW t \in Sessions, Asking(t)
          PROVE  lines[t] > 0 /\ (NameShared(t) \/ pending'[name[t]] = t)
      <4>1. lines[t] > 0 /\ (NameShared(t) \/ pending[name[t]] = t) /\ t # by
        BY <1>2, <3>1 DEF Asks, Expected
      <4>2. name[t] \in Users
        BY <4>1 DEF Inv, Named
      <4>3. CASE name[t] = u
        BY <1>1, <1>2, <4>1, <4>3 DEF NameShared, by
      <4>4. CASE name[t] # u
        BY <1>1, <2>2, <4>1, <4>2, <4>4
      <4> QED
        BY <4>3, <4>4
    <3>2. \A t \in Sessions : NameShared(t)' = NameShared(t) /\ ~Handling(t)'
      BY <1>1, <2>3 DEF NameShared, Handling
    <3> QED
      BY <1>1, <1>3, <3>1, <3>2 DEF Expected
  <2>7. \A t \in Sessions : Heeded(t)'
    <3>1. CASE UNCHANGED outbox
      <4>1. \A t \in Sessions : Posted(t)' = Posted(t) /\ NameShared(t)' = NameShared(t)
        BY <1>1, <3>1, SameWords DEF NameShared
      <4> QED
        BY <4>1 DEF Asks, Heeded, Lines
    <3>2. CASE Send({s}, <<Reject(by), Bye>>)
      <4>1. by \in Sessions
        BY <1>1 DEF by
      <4> QED
        BY <1>1, <1>2, <2>1, <3>2, <4>1, AnswerHeeded
    <3> QED
      BY <2>3, <3>1, <3>2
  <2>8. NullSessionShared'
    BY <1>1, <2>2 DEF NullSessionShared
  <2> QED
    BY <2>4, <2>5, <2>6, <2>7, <2>8 DEF Asks
<1> QED
  BY <1>1, <1>5, <1>6 DEF Waiting

\* An answer taken to the session that waited for it.
LEMMA AsksAnswered ==
  ASSUME Inv, Talk, Asks, IsUserConnected \/ OnClientAccept PROVE Asks'
<1>1. /\ uiPc \in {"decide", "accept"} /\ uiAnswer.by \in Sessions
      /\ uiSession \in Sessions /\ lines[uiSession] > 0
      /\ [Next]_vars
      /\ UNCHANGED <<responses, name, lines, written, pending, fault>> /\ fault = "none"
  BY ProtocolAssumption
  DEF IsUserConnected, OnClientAccept, UiAt, UiPlaces, Answer, Inv, TypeOK, Joined, Next,
      UiThread, dbVars
<1>2. name[uiSession] = name[uiAnswer.by]
  BY <1>1 DEF Asks, NamesRight
<1>3. /\ \/ UNCHANGED <<outbox, uiSession, uiAnswer>> /\ uiPc' = "accept"
         \/ /\ Send({uiSession}, <<Reject(uiAnswer.by), Bye>>)
                 \/ Send({uiSession}, <<Accept(uiAnswer.by)>>)
            /\ uiPc' = "responses"
  BY DEF IsUserConnected, OnClientReject, OnClientAccept, UiGoto
<1>4. /\ \A s \in Sessions : AsksBy(requests', s) = AsksBy(requests, s)
      /\ NamedAs(requests', name)
  <2>1. CASE UNCHANGED requests
    BY <2>1 DEF Asks, NamesRight
  <2>2. CASE OnClientAccept
    <3>1. PICK members \in SetToSeqs(sessions) :
            requests' = requests \o PictureRequests(members, uiSession)
      BY <2>2 DEF OnClientAccept, Submit
    <3> DEFINE more == PictureRequests(members, uiSession)
    <3>2. more \in Seq(Request)
      BY <1>1, PictureRequestsTyped
    <3>3. \A i \in DOMAIN more : ~IsAsk(more[i])
      BY DEF PictureRequests, UserProfilePictureRequest, IsAsk, Join, Verdict
    <3> HIDE DEF more
    <3>4. requests \in Seq(Request) /\ requests' = requests \o more
      BY <3>1 DEF Inv, TypeOK, DatabaseTypeOK, more
    <3>5. \A s \in Sessions : AsksBy(requests \o more, s) = AsksBy(requests, s)
      BY <3>2, <3>3, <3>4, AsksAppended
    <3>6. NamedAs(requests \o more, name)
      <4>1. \A i \in DOMAIN (requests \o more) :
              \/ i \in DOMAIN requests /\ (requests \o more)[i] = requests[i]
              \/ ~IsAsk((requests \o more)[i])
        <5> DEFINE all == requests \o more
                   n == Len(requests)
                   m == Len(more)
        <5>1. /\ DOMAIN requests = 1 .. n /\ DOMAIN more = 1 .. m /\ n \in Nat /\ m \in Nat
              /\ DOMAIN all = 1 .. n + m
              /\ \A i \in 1 .. n + m : all[i] = IF i <= n THEN requests[i] ELSE more[i - n]
          BY <3>2, <3>4, ConcatProperties, LenProperties
        <5> HIDE DEF all, n, m
        <5>2. \A i \in DOMAIN all :
                \/ i \in DOMAIN requests /\ all[i] = requests[i]
                \/ ~IsAsk(all[i])
          BY <3>3, <5>1
        <5> QED
          BY <5>2 DEF all
      <4> QED
        BY <4>1 DEF Asks, NamesRight, NamedAs
    <3> QED
      BY <3>4, <3>5, <3>6
  <2> QED
    BY <2>1, <2>2 DEF IsUserConnected, dbVars
<1>5. \A s \in Sessions : /\ OneAsk(s)' = OneAsk(s) /\ Asking(s)' = Asking(s)
                          /\ ~Handling(s)' /\ NameShared(s)' = NameShared(s)
  BY <1>1, <1>3, <1>4 DEF OneAsk, Asking, Handling, NameShared
<1>6. OneAskEach' /\ Expected' /\ NullSessionShared'
  BY <1>1, <1>5 DEF Asks, OneAskEach, Expected, NullSessionShared
<1>7. NamesRight'
  BY <1>1, <1>3, <1>4 DEF Asks, NamesRight
<1>8. \A s \in Sessions : Heeded(s)'
  <2>1. CASE UNCHANGED outbox
    <3>1. \A t \in Sessions : Posted(t)' = Posted(t)
      BY <1>1, <2>1, SameWords
    <3> QED
      BY <1>5, <3>1 DEF Asks, Heeded, Lines
  <2> QED
    BY <1>1, <1>2, <1>3, <2>1, AnswerHeeded
<1> QED
  BY <1>6, <1>7, <1>8 DEF Asks

LEMMA AsksStep == Inv /\ Talk /\ Asks /\ [Next]_vars => Asks'
<1> SUFFICES ASSUME Inv, Talk, Asks, [Next]_vars PROVE Asks'
  OBVIOUS
<1>1. CASE PopResponse \/ HandlePendingSessions \/ IsUserConnected \/ OnClientAccept
  BY <1>1, AsksPop, AsksPending, AsksAnswered
<1>2. CASE RunDatabase
  BY <1>2, AsksDatabase
<1>3. ASSUME NEW s \in Sessions, ReadJoin(s) PROVE Asks'
  BY <1>3, AsksReadJoin
<1>4. CASE /\ ~(PopResponse \/ HandlePendingSessions \/ IsUserConnected \/ OnClientAccept)
           /\ ~RunDatabase /\ \A s \in Sessions : ~ReadJoin(s)
  <2>1. UNCHANGED <<name, pending, responses>>
    <3>1. CASE NetworkThread
      BY <1>4, <3>1 DEF NetworkThread, EraseSession, ReadPicture, ReadChat, ReadEof,
         Accepted, ReadFailed, Written, WriteFailed, Disconnected, SessionAlone, ReadEnd,
         ReadError, Connect, Write, WriteError, Disconnect, dbVars, sessionVars,
         serverVars, uiVars
    <3>2. CASE UiThread
      BY <1>4, <3>2 DEF UiThread, HandleProfilePictureDataRequest, PopInbox, Broadcast,
         OnUpdateClients, Render, KickUser, dbVars, sessionVars, serverVars
    <3>3. CASE Leave \/ UNCHANGED vars
      BY <3>3 DEF Leave, ClientLeaves, vars, dbVars, sessionVars, serverVars, uiVars
    <3> QED
      BY <1>4, <3>1, <3>2, <3>3 DEF Next
  <2>2. \A s \in Sessions : lines[s] > 0 => lines'[s] > 0
    <3>1. ASSUME NEW s \in Sessions, ReadPicture(s) PROVE \A t \in Sessions : lines[t] > 0 => lines'[t] > 0
      <4>1. lines' = [lines EXCEPT ![s] = 2] /\ lines \in [Sessions -> 0 .. 2]
        BY <3>1 DEF ReadPicture, Inv, TypeOK, SessionTypeOK
      <4> QED
        BY <4>1
    <3>2. CASE \A s \in Sessions : ~ReadPicture(s)
      <4>1. UNCHANGED lines
        BY <1>4, <3>2 DEF Next, NetworkThread, EraseSession, ReadChat, ReadEof,
           Accepted, ReadFailed, Written, WriteFailed, Disconnected, SessionAlone, ReadEnd,
           ReadError, Connect, Write, WriteError, Disconnect, UiThread,
           HandleProfilePictureDataRequest, PopInbox, Broadcast, OnUpdateClients, Render,
           KickUser, Leave, ClientLeaves, vars, sessionVars
      <4> QED
        BY <4>1
    <3> QED
      BY <3>1, <3>2
  <2>3. requests' = requests \/ \E r \in Request : ~IsAsk(r) /\ requests' = requests \o <<r>>
    <3>1. ASSUME NEW s \in Sessions, ReadPicture(s)
          PROVE  \E r \in Request : ~IsAsk(r) /\ requests' = requests \o <<r>>
      <4>1. name[s] \in Users
        BY <3>1 DEF ReadPicture, Inv, Named
      <4>2. PICK content \in Pixels \cup {NoPixels} :
              requests' = requests \o <<ProfilePictureSaveRequest(name[s], content)>>
        BY <3>1 DEF ReadPicture, Submit
      <4>3. ProfilePictureSaveRequest(name[s], content) \in Request
        BY <4>1 DEF ProfilePictureSaveRequest, Request, SavePictureRequest
      <4>4. ~IsAsk(ProfilePictureSaveRequest(name[s], content))
        BY DEF ProfilePictureSaveRequest, IsAsk, Join, Verdict
      <4> QED
        BY <4>2, <4>3, <4>4
    <3>2. CASE Broadcast
      <4>1. uiChat \in Chat
        BY <3>2 DEF Broadcast, UiAt, Inv, UiPlaces
      <4>2. MessageSaveRequest(uiChat) \in Request /\ ~IsAsk(MessageSaveRequest(uiChat))
        BY <4>1 DEF MessageSaveRequest, Request, SaveMessageRequest, IsAsk, Join, Verdict
      <4> QED
        BY <3>2, <4>2 DEF Broadcast, Submit
    <3>3. CASE ~Broadcast /\ \A s \in Sessions : ~ReadPicture(s)
      BY <1>4, <3>3 DEF Next, NetworkThread, EraseSession, ReadChat, ReadEof,
         Accepted, ReadFailed, Written, WriteFailed, Disconnected, SessionAlone, UiThread,
         HandleProfilePictureDataRequest, PopInbox, OnUpdateClients, Render,
         KickUser, Leave, vars, dbVars
    <3> QED
      BY <3>1, <3>2, <3>3
  <2>4. uiPc' \in {"pending", "decide", "accept"} => UNCHANGED <<uiPc, uiAnswer, uiSession>>
    BY <1>4 DEF Next, NetworkThread, EraseSession, ReadPicture, ReadChat, ReadEof,
       Accepted, ReadFailed, Written, WriteFailed, Disconnected, SessionAlone, UiThread,
       HandleProfilePictureDataRequest, PopInbox, Broadcast, OnUpdateClients, Render,
       KickUser, Leave, vars, uiVars, UiGoto
  <2> QED
    BY <1>4, <2>1, <2>2, <2>3, <2>4, AsksApart
<1> QED
  BY <1>1, <1>2, <1>3, <1>4

THEOREM AsksInvariant == Spec => []Asks
<1>1. Init => Asks
  BY AsksInit
<1>2. Inv /\ Talk /\ Asks /\ [Next]_vars => Asks'
  BY AsksStep
<1> QED
  BY <1>1, <1>2, ServerInvariant, TalkInvariant, PTL DEF Spec

\* Although an answer of the database names a user and no session, it is given
\* to the session that asked, and finds one, whenever no two connections ask
\* to join under one name: at most one ask or answer of a session is on its
\* way, and while it is the session waits under its name in m_PendingSessions.
THEOREM AnswersReachAskers == Spec => []AnswersFindAskers
<1>1. Asks => AnswersFindAskers
  BY DEF Asks, AnswersFindAskers, Heeded, NullSessionShared
<1> QED
  BY <1>1, AsksInvariant, PTL

-----------------------------------------------------------------------------
(* The chat room: the steps of the server are steps of ChatRoom, or change *)
(* nothing that it speaks of.                                              *)

\* The chats among the words given to a writer.
ChatsAmong(out) ==
    LET chats == OfType(out, {"chat"}) IN [i \in DOMAIN chats |-> chats[i].chat]

Told(s) == Lines(s, {"accept"}) # {}

LEMMA ChatsMapped ==
  ASSUME NEW out \in Seq(Out)
  PROVE  /\ OfType(out, {"chat"}) \in Seq({w \in Out : w.type = "chat"})
         /\ ChatsAmong(out) = Mapped(OfType(out, {"chat"}), [w \in Out |-> w.chat])
<1> DEFINE chats == OfType(out, {"chat"})
           T == {w \in Out : w.type \in {"chat"}}
<1>1. chats \in Seq(T)
  BY OfTypeTyped
<1>2. T = {w \in Out : w.type = "chat"} /\ T \subseteq Out
  OBVIOUS
<1> HIDE DEF chats, T
<1>3. \A i \in DOMAIN chats : chats[i] \in Out
  BY <1>1, <1>2, LenProperties, ElementOfSeq
<1>4. [i \in DOMAIN chats |-> chats[i].chat] = Mapped(chats, [w \in Out |-> w.chat])
  BY <1>3 DEF Mapped
<1> QED
  BY <1>1, <1>2, <1>4 DEF chats, ChatsAmong

LEMMA ChatsTyped ==
  ASSUME NEW out \in Seq(Out) PROVE ChatsAmong(out) \in Seq(Chat)
<1> DEFINE T == {w \in Out : w.type = "chat"}
           g == [w \in Out |-> w.chat]
           chats == OfType(out, {"chat"})
<1>1. \A w \in T : g[w] \in Chat
  BY DEF Out
<1>2. chats \in Seq(T) /\ ChatsAmong(out) = Mapped(chats, g)
  BY ChatsMapped
<1> HIDE DEF T, g, chats
<1>3. Mapped(chats, g) \in Seq(Chat)
  BY <1>1, <1>2, MappedTyped
<1> QED
  BY <1>2, <1>3

LEMMA ChatsConcat ==
  ASSUME NEW a \in Seq(Out), NEW b \in Seq(Out)
  PROVE  ChatsAmong(a \o b) = ChatsAmong(a) \o ChatsAmong(b)
<1> DEFINE g == [w \in Out |-> w.chat]
           ab == a \o b
           ca == OfType(a, {"chat"})
           cb == OfType(b, {"chat"})
           cab == OfType(ab, {"chat"})
<1>1. ab \in Seq(Out)
  BY ConcatProperties
<1>2. cab = ca \o cb
  BY OfTypeConcat
<1>3. \A out \in Seq(Out) : OfType(out, {"chat"}) \in Seq(Out)
  <2> SUFFICES ASSUME NEW out \in Seq(Out) PROVE OfType(out, {"chat"}) \in Seq(Out)
    OBVIOUS
  <2>1. OfType(out, {"chat"}) \in Seq({w \in Out : w.type = "chat"})
    BY ChatsMapped
  <2> QED
    BY <2>1, SeqMonotonic
<1>4. ca \in Seq(Out) /\ cb \in Seq(Out)
  BY <1>3
<1> HIDE DEF ab
<1>5. /\ ChatsAmong(ab) = Mapped(cab, g)
      /\ ChatsAmong(a) = Mapped(ca, g) /\ ChatsAmong(b) = Mapped(cb, g)
  BY <1>1, ChatsMapped
<1> HIDE DEF g, ca, cb, cab
<1>6. Mapped(ca \o cb, g) = Mapped(ca, g) \o Mapped(cb, g)
  BY <1>4, MappedConcat
<1> QED
  BY <1>2, <1>5, <1>6 DEF ab

LEMMA ChatsNone ==
  ASSUME NEW out \in Seq(Out), Chatless(out) PROVE ChatsAmong(out) = <<>>
<1>1. OfType(out, {"chat"}) = <<>>
  <2>1. \A i \in DOMAIN out : out[i].type \notin {"chat"}
    BY DEF Chatless
  <2> QED
    BY <2>1, OfTypeNone
<1> QED
  BY <1>1, EmptySeq DEF ChatsAmong

LEMMA ChatsOne ==
  ASSUME NEW c \in Chat PROVE ChatsAmong(<<ChatLine(c)>>) = <<c>>
<1> DEFINE w == ChatLine(c)
<1>1. w \in Out /\ w.type \in {"chat"} /\ w.chat = c
  BY DEF ChatLine, Out
<1>2. <<>> \in Seq(Out) /\ Append(<<>>, w) = <<w>> /\ OfType(<<>>, {"chat"}) = <<>>
  BY EmptySeq, OfTypeEmpty
<1> HIDE DEF w
<1>3. OfType(Append(<<>>, w), {"chat"}) = Append(OfType(<<>>, {"chat"}), w)
  BY <1>1, <1>2, OfTypeAppend
<1>4. OfType(<<w>>, {"chat"}) = <<w>>
  BY <1>2, <1>3
<1>5. ChatsAmong(<<w>>) = <<c>>
  BY <1>1, <1>4 DEF ChatsAmong
<1> QED
  BY <1>5 DEF w

\* What was told goes on with what is given to the writer.
LEMMA ChatsGrow ==
  ASSUME Inv, NEW s \in Sessions, NEW out \in Seq(Out), Posted(s)' = Posted(s) \o out
  PROVE  /\ ChatsTo(s) \in Seq(Chat)
         /\ ChatsTo(s)' = ChatsTo(s) \o ChatsAmong(out)
         /\ Told(s)' <=> (Told(s) \/ \E i \in DOMAIN out : out[i].type = "accept")
<1> DEFINE old == Posted(s)
<1>1. old \in Seq(Out)
  BY PostedTyped DEF Inv, TypeOK
<1>2. ChatsTo(s) = ChatsAmong(old) /\ ChatsTo(s)' = ChatsAmong(old \o out)
  BY DEF ChatsTo, ChatsAmong
<1>3. /\ Told(s) <=> \E i \in DOMAIN old : old[i].type = "accept"
      /\ Told(s)' <=> \E i \in DOMAIN (old \o out) : (old \o out)[i].type = "accept"
  BY DEF Told, Lines
<1> HIDE DEF old
<1>4. ChatsAmong(old) \in Seq(Chat) /\ ChatsAmong(old \o out) = ChatsAmong(old) \o ChatsAmong(out)
  BY <1>1, ChatsTyped, ChatsConcat
<1> DEFINE more == old \o out
           n == Len(old)
           m == Len(out)
<1>5. /\ DOMAIN old = 1 .. n /\ DOMAIN out = 1 .. m /\ DOMAIN more = 1 .. n + m
      /\ n \in Nat /\ m \in Nat
      /\ \A i \in 1 .. n + m : more[i] = IF i <= n THEN old[i] ELSE out[i - n]
  BY <1>1, ConcatProperties, LenProperties
<1> HIDE DEF more, n, m
<1>6. ASSUME NEW i \in DOMAIN old PROVE i \in DOMAIN more /\ more[i] = old[i]
  BY <1>5
<1>7. ASSUME NEW i \in DOMAIN out PROVE i + n \in DOMAIN more /\ more[i + n] = out[i]
  <2>1. i \in Nat /\ i + n \in 1 .. n + m /\ ~(i + n <= n) /\ (i + n) - n = i
    BY <1>5
  <2> QED
    BY <1>5, <2>1
<1>8. ASSUME NEW i \in DOMAIN more
      PROVE  \/ i \in DOMAIN old /\ more[i] = old[i]
             \/ i - n \in DOMAIN out /\ more[i] = out[i - n]
  BY <1>5
<1>9. (\E i \in DOMAIN more : more[i].type = "accept")
        <=> \/ \E i \in DOMAIN old : old[i].type = "accept"
            \/ \E i \in DOMAIN out : out[i].type = "accept"
  BY <1>6, <1>7, <1>8
<1> QED
  BY <1>2, <1>3, <1>4, <1>9 DEF more

\* Nothing that the room speaks of is said.
LEMMA RoomQuiet ==
  ASSUME Inv, [Next]_vars, NEW s \in Sessions, NEW out \in Seq(Out),
         Unanswering(out) \/ \A i \in DOMAIN out : out[i].type # "accept",
         Chatless(out), Posted(s)' = Posted(s) \o out
  PROVE  ChatsTo(s)' = ChatsTo(s) /\ (Told(s)' <=> Told(s))
<1>1. /\ ChatsTo(s) \in Seq(Chat)
      /\ ChatsTo(s)' = ChatsTo(s) \o ChatsAmong(out)
      /\ Told(s)' <=> (Told(s) \/ \E i \in DOMAIN out : out[i].type = "accept")
  BY ChatsGrow
<1>2. ChatsAmong(out) = <<>>
  BY ChatsNone
<1>3. ChatsTo(s) \o <<>> = ChatsTo(s)
  BY <1>1, ConcatEmptySeq
<1> QED
  BY <1>1, <1>2, <1>3 DEF Unanswering

\* Every step but two leaves alone what was said, to whom, and who was told.
LEMMA RoomUnmoved ==
  ASSUME Inv, [Next]_vars, ~OnClientAccept, ~Broadcast, NEW s \in Sessions
  PROVE  ChatsTo(s)' = ChatsTo(s) /\ (Told(s)' <=> Told(s))
<1>1. SessionTypeOK /\ Posted(s) \in Seq(Out)
  BY PostedTyped DEF Inv, TypeOK
<1>2. CASE ~HandlePendingSessions /\ ~IsUserConnected
  <2>1. PICK out \in Seq(Out) : /\ Unanswering(out) /\ Chatless(out)
                                /\ Posted(s)' = Posted(s) \o out
    BY <1>2, NoAnswer
  <2> QED
    BY <2>1, RoomQuiet
<1>3. CASE Posted(s)' = Posted(s)
  BY <1>3 DEF ChatsTo, Told, Lines
<1>4. CASE HandlePendingSessions \/ IsUserConnected
  <2>1. uiAnswer \in Answer /\ UNCHANGED written
    BY <1>4 DEF HandlePendingSessions, IsUserConnected, UiAt, Inv, UiPlaces
  <2> DEFINE out == <<Reject(uiAnswer.by), Bye>>
  <2>2. \/ UNCHANGED outbox
        \/ \E t : Send({t}, out)
    BY <1>4 DEF HandlePendingSessions, IsUserConnected, OnClientReject
  <2>3. /\ out \in Seq(Out) /\ Chatless(out)
        /\ \A i \in DOMAIN out : out[i].type # "accept"
    BY <2>1 DEF Answer, Reject, Bye, Out, Chatless
  <2> HIDE DEF out
  <2>4. CASE UNCHANGED outbox
    BY <1>3, <2>1, <2>4 DEF Posted
  <2>5. ASSUME NEW t, Send({t}, out)
        PROVE  Posted(s)' = Posted(s) \/ Posted(s)' = Posted(s) \o out
    BY <1>1, <2>1, <2>3, <2>5, PostedSend
  <2> QED
    BY <1>3, <2>2, <2>3, <2>4, <2>5, RoomQuiet
<1> QED
  BY <1>2, <1>4

\* Who is in the room, where nobody enters it.
LEMMA RoomLeft ==
  ASSUME Inv, [Next]_vars, ~OnClientAccept
  PROVE  sessions' = sessions \/ \E s \in Sessions : s \in sessions /\ sessions' = sessions \ {s}
<1>0. sessions \subseteq Sessions
  BY DEF Inv, TypeOK
<1>1. CASE EraseSession
  <2>1. sessions' = sessions \ {erasing}
    BY <1>1 DEF EraseSession
  <2> QED
    BY <1>0, <2>1
<1>2. CASE KickUser
  <2>1. \/ sessions' = sessions
        \/ \E s \in Members(userToKick) : sessions' = sessions \ {s}
    BY <1>2 DEF KickUser
  <2> QED
    BY <1>0, <2>1 DEF Members
<1>3. CASE \E s \in Sessions :
              \/ Accepted(s) \/ ReadJoin(s) \/ ReadPicture(s) \/ ReadChat(s) \/ ReadEof(s)
              \/ ReadFailed(s) \/ Written(s) \/ WriteFailed(s) \/ Disconnected(s)
  BY <1>3 DEF Accepted, ReadJoin, ReadPicture, ReadChat, ReadEof, ReadFailed, Written,
     WriteFailed, Disconnected, SessionAlone, serverVars
<1>4. CASE \/ PopResponse \/ HandleProfilePictureDataRequest \/ HandlePendingSessions
           \/ IsUserConnected \/ PopInbox \/ Broadcast \/ OnUpdateClients \/ Render
  BY <1>4 DEF PopResponse, HandleProfilePictureDataRequest, HandlePendingSessions,
     IsUserConnected, PopInbox, Broadcast, OnUpdateClients, Render, serverVars
<1>5. CASE RunDatabase \/ Leave \/ UNCHANGED vars
  BY <1>5 DEF RunDatabase, Leave, serverVars, vars
<1> QED
  BY <1>1, <1>2, <1>3, <1>4, <1>5 DEF Next, NetworkThread, UiThread

LEMMA LogKept ==
  ASSUME [Next]_vars, ~Broadcast PROVE log' = log
<1>1. CASE NetworkThread
  BY <1>1 DEF NetworkThread, EraseSession, Accepted, ReadJoin, ReadPicture, ReadChat, ReadEof,
     ReadFailed, Written, WriteFailed, Disconnected, SessionAlone, serverVars
<1>2. CASE UiThread
  BY <1>2 DEF UiThread, PopResponse, HandleProfilePictureDataRequest, HandlePendingSessions,
     IsUserConnected, OnClientAccept, PopInbox, OnUpdateClients, Render, KickUser, serverVars
<1>3. CASE RunDatabase \/ Leave \/ UNCHANGED vars
  BY <1>3 DEF RunDatabase, Leave, serverVars, vars
<1> QED
  BY <1>1, <1>2, <1>3 DEF Next

\* Entering.
LEMMA RoomEntered ==
  ASSUME Inv, Talk, [Next]_vars, OnClientAccept
  PROVE  /\ uiSession \in Sessions /\ ~Told(uiSession)
         /\ sessions' = sessions \cup {uiSession}
         /\ \A s \in Sessions : ChatsTo(s)' = ChatsTo(s)
         /\ \A s \in Sessions : Told(s)' <=> Told(s) \/ s = uiSession
<1> DEFINE out == <<Accept(uiAnswer.by)>>
<1>1. /\ uiSession \in Sessions /\ uiAnswer \in Answer /\ UNCHANGED written
      /\ sessions' = sessions \cup {uiSession} /\ Send({uiSession}, out)
  BY DEF OnClientAccept, UiAt, Inv, UiPlaces
<1>2. Posted(uiSession) = <<>>
  BY <1>1, ProtocolAssumption DEF Talk, WaitersNotAnswered, NotAnswered
<1>3. ~Told(uiSession)
  BY <1>2, EmptySeq DEF Told, Lines
<1>4. /\ out \in Seq(Out) /\ Chatless(out)
      /\ 1 \in DOMAIN out /\ out[1].type = "accept"
  BY <1>1 DEF Accept, Out, Answer, Chatless
<1> HIDE DEF out
<1>5. \A s \in Sessions : Posted(s)' = IF s \in {uiSession} THEN Posted(s) \o out ELSE Posted(s)
  BY <1>1, <1>4, PostedSend DEF Inv, TypeOK
<1>6. ASSUME NEW s \in Sessions, s # uiSession
      PROVE  ChatsTo(s)' = ChatsTo(s) /\ (Told(s)' <=> Told(s))
  <2>1. Posted(s)' = Posted(s)
    BY <1>5, <1>6
  <2> QED
    BY <2>1 DEF ChatsTo, Told, Lines
<1>7. ASSUME NEW s \in Sessions, s = uiSession
      PROVE  ChatsTo(s)' = ChatsTo(s) /\ Told(s)'
  <2>1. Posted(s)' = Posted(s) \o out
    BY <1>5, <1>7
  <2>2. /\ ChatsTo(s) \in Seq(Chat)
        /\ ChatsTo(s)' = ChatsTo(s) \o ChatsAmong(out)
        /\ Told(s)'
    BY <1>4, <2>1, ChatsGrow
  <2>3. ChatsTo(s) \o <<>> = ChatsTo(s) /\ ChatsAmong(out) = <<>>
    BY <1>4, <2>2, ConcatEmptySeq, ChatsNone
  <2> QED
    BY <2>2, <2>3
<1>8. /\ \A s \in Sessions : ChatsTo(s)' = ChatsTo(s)
      /\ \A s \in Sessions : Told(s)' <=> Told(s) \/ s = uiSession
  BY <1>6, <1>7
<1> QED
  BY <1>1, <1>3, <1>8

\* Saying a chat.
LEMMA RoomSaid ==
  ASSUME Inv, [Next]_vars, Broadcast
  PROVE  /\ uiChat \in Chat /\ log' = Append(log, uiChat) /\ sessions' = sessions
         /\ \A s \in Sessions :
              /\ ChatsTo(s)' = IF s \in sessions THEN Append(ChatsTo(s), uiChat) ELSE ChatsTo(s)
              /\ Told(s)' <=> Told(s)
<1> DEFINE out == <<ChatLine(uiChat)>>
<1>1. /\ uiChat \in Chat /\ UNCHANGED <<written, sessions>>
      /\ log' = Append(log, uiChat) /\ Send(sessions, out)
  BY DEF Broadcast, UiAt, Inv, UiPlaces
<1>2. /\ out \in Seq(Out) /\ \A i \in DOMAIN out : out[i].type # "accept"
  BY <1>1 DEF ChatLine, Out
<1>3. ChatsAmong(out) = <<uiChat>>
  BY <1>1, ChatsOne
<1> HIDE DEF out
<1>4. \A s \in Sessions : Posted(s)' = IF s \in sessions THEN Posted(s) \o out ELSE Posted(s)
  BY <1>1, <1>2, PostedSend DEF Inv, TypeOK
<1>5. ASSUME NEW s \in Sessions, s \in sessions
      PROVE  ChatsTo(s)' = Append(ChatsTo(s), uiChat) /\ (Told(s)' <=> Told(s))
  <2>1. Posted(s)' = Posted(s) \o out
    BY <1>4, <1>5
  <2>2. /\ ChatsTo(s) \in Seq(Chat)
        /\ ChatsTo(s)' = ChatsTo(s) \o ChatsAmong(out)
        /\ Told(s)' <=> Told(s)
    BY <1>2, <2>1, ChatsGrow
  <2>3. Append(ChatsTo(s), uiChat) = ChatsTo(s) \o <<uiChat>>
    BY <1>1, <2>2, AppendIsConcat
  <2> QED
    BY <1>3, <2>2, <2>3
<1>6. ASSUME NEW s \in Sessions, s \notin sessions
      PROVE  ChatsTo(s)' = ChatsTo(s) /\ (Told(s)' <=> Told(s))
  <2>1. Posted(s)' = Posted(s)
    BY <1>4, <1>6
  <2> QED
    BY <2>1 DEF ChatsTo, Told, Lines
<1>7. \A s \in Sessions :
        /\ ChatsTo(s)' = IF s \in sessions THEN Append(ChatsTo(s), uiChat) ELSE ChatsTo(s)
        /\ Told(s)' <=> Told(s)
  BY <1>5, <1>6
<1> QED
  BY <1>1, <1>7

LEMMA RoomInit == Init => Room!Init
<1> SUFFICES ASSUME Init PROVE Room!Init
  OBVIOUS
<1>1. ASSUME NEW s \in Sessions PROVE Posted(s) = <<>> /\ ChatsTo(s) = <<>> /\ ~Told(s)
  <2>1. Posted(s) = <<>>
    BY EmptySeq, ConcatEmptySeq DEF Init, SessionInit, Posted
  <2>2. OfType(Posted(s), {"chat"}) = <<>>
    BY <2>1, OfTypeEmpty
  <2> QED
    BY <2>1, <2>2, EmptySeq DEF ChatsTo, Told, Lines
<1>2. {s \in Sessions : Lines(s, {"accept"}) # {}} = {}
  BY <1>1 DEF Told
<1>3. [s \in Sessions |-> ChatsTo(s)] = [s \in Sessions |-> <<>>]
  BY <1>1
<1>4. log = <<>> /\ sessions = {}
  BY DEF Init
<1> QED
  BY <1>2, <1>3, <1>4 DEF Room!Init

LEMMA RoomStep == Inv /\ Talk /\ [Next]_vars => [Room!Next]_(Room!roomVars)
<1> SUFFICES ASSUME Inv, Talk, [Next]_vars PROVE [Room!Next]_(Room!roomVars)
  OBVIOUS
<1> DEFINE entered == {s \in Sessions : Lines(s, {"accept"}) # {}}
           heard == [s \in Sessions |-> ChatsTo(s)]
<1>1. entered = {s \in Sessions : Told(s)} /\ entered' = {s \in Sessions : Told(s)'}
  BY DEF Told
<1>2. heard' = [s \in Sessions |-> ChatsTo(s)']
  OBVIOUS
<1>3. CASE OnClientAccept
  <2>1. /\ uiSession \in Sessions /\ ~Told(uiSession)
        /\ sessions' = sessions \cup {uiSession}
        /\ \A s \in Sessions : ChatsTo(s)' = ChatsTo(s)
        /\ \A s \in Sessions : Told(s)' <=> Told(s) \/ s = uiSession
    BY <1>3, RoomEntered
  <2>2. log' = log
    BY <1>3 DEF OnClientAccept
  <2>3. entered' = entered \cup {uiSession} /\ uiSession \notin entered
    BY <1>1, <2>1
  <2>4. heard' = heard
    BY <1>2, <2>1
  <2>5. Room!Enter(uiSession)
    BY <2>1, <2>2, <2>3, <2>4 DEF Room!Enter
  <2> QED
    BY <2>1, <2>5 DEF Room!Next
<1>4. CASE Broadcast
  <2>1. /\ uiChat \in Chat /\ log' = Append(log, uiChat) /\ sessions' = sessions
        /\ \A s \in Sessions :
             /\ ChatsTo(s)' = IF s \in sessions THEN Append(ChatsTo(s), uiChat) ELSE ChatsTo(s)
             /\ Told(s)' <=> Told(s)
    BY <1>4, RoomSaid
  <2>2. entered' = entered
    BY <1>1, <2>1
  <2>3. heard' = [s \in Sessions |-> IF s \in sessions THEN Append(heard[s], uiChat) ELSE heard[s]]
    BY <1>2, <2>1
  <2>4. Room!Say(uiChat)
    BY <2>1, <2>2, <2>3 DEF Room!Say
  <2> QED
    BY <2>1, <2>4 DEF Room!Next
<1>5. CASE ~OnClientAccept /\ ~Broadcast
  <2>1. \A s \in Sessions : ChatsTo(s)' = ChatsTo(s) /\ (Told(s)' <=> Told(s))
    BY <1>5, RoomUnmoved
  <2>2. log' = log
    BY <1>5, LogKept
  <2>3. entered' = entered /\ heard' = heard
    BY <1>1, <1>2, <2>1
  <2>4. CASE sessions' = sessions
    BY <2>2, <2>3, <2>4 DEF Room!roomVars
  <2>5. ASSUME NEW s \in Sessions, s \in sessions, sessions' = sessions \ {s}
        PROVE  Room!Next
    <3>1. Room!Leave(s)
      BY <2>2, <2>3, <2>5 DEF Room!Leave
    <3> QED
      BY <3>1 DEF Room!Next
  <2> QED
    BY <1>5, <2>4, <2>5, RoomLeft
<1> QED
  BY <1>3, <1>4, <1>5

\* The server is a chat room: who was told ACCEPT has entered, once; whoever is
\* in m_Sessions when a chat is broadcast is given it, at once and in the order
\* of the others, whatever the three threads do.
THEOREM ServerIsChatRoom == Spec => ChatRoomSpec
<1>1. Init => Room!Init
  BY RoomInit
<1>2. Inv /\ Talk /\ [Next]_vars => [Room!Next]_(Room!roomVars)
  BY RoomStep
<1> QED
  BY <1>1, <1>2, ServerInvariant, TalkInvariant, PTL DEF Spec, ChatRoomSpec, Room!Spec

-----------------------------------------------------------------------------
(* What a chat room means for who is in it.                                *)

\* What was heard is the part of all that begins behind its k-th chat.
PartOf(part, all, k) ==
    /\ k + Len(part) <= Len(all)
    /\ \A i \in 1 .. Len(part) : part[i] = all[k + i]

\* The state of a chat room, with its invariant.
Gapless(all, members, heard) ==
    /\ \A s \in Sessions : \E k \in 0 .. Len(all) : PartOf(heard[s], all, k)
    /\ \A s \in members : \E k \in 0 .. Len(all) :
         PartOf(heard[s], all, k) /\ k + Len(heard[s]) = Len(all)

RoomInv(all, members, entered, heard) ==
    /\ all \in Seq(Chat)
    /\ members \subseteq entered /\ entered \subseteq Sessions
    /\ heard \in [Sessions -> Seq(Chat)]
    /\ \A s \in Sessions \ entered : heard[s] = <<>>
    /\ Gapless(all, members, heard)

LEMMA PartBegins ==
  ASSUME NEW all \in Seq(Chat)
  PROVE  Len(all) \in 0 .. Len(all) /\ PartOf(<<>>, all, Len(all)) /\ Len(all) + Len(<<>>) = Len(all)
<1>1. Len(all) \in Nat /\ Len(<<>>) = 0
  BY LenProperties, EmptySeq
<1> QED
  BY <1>1 DEF PartOf

LEMMA PartKept ==
  ASSUME NEW all \in Seq(Chat), NEW c \in Chat, NEW part \in Seq(Chat),
         NEW k \in 0 .. Len(all), PartOf(part, all, k)
  PROVE  k \in 0 .. Len(Append(all, c)) /\ PartOf(part, Append(all, c), k)
<1> DEFINE more == Append(all, c)
           n == Len(all)
           m == Len(part)
<1>1. /\ n \in Nat /\ m \in Nat /\ Len(more) = n + 1
      /\ \A i \in 1 .. n : more[i] = all[i]
  BY AppendProperties, LenProperties
<1>2. k \in 0 .. n /\ k + m <= n /\ \A i \in 1 .. m : part[i] = all[k + i]
  BY DEF PartOf
<1> HIDE DEF more, n, m
<1>3. k \in 0 .. n + 1 /\ k + m <= n + 1
  BY <1>1, <1>2
<1>4. ASSUME NEW i \in 1 .. m PROVE part[i] = more[k + i]
  <2>1. k + i \in 1 .. n
    BY <1>1, <1>2
  <2> QED
    BY <1>1, <1>2, <2>1
<1> QED
  BY <1>1, <1>3, <1>4 DEF PartOf, more, m

LEMMA PartGrows ==
  ASSUME NEW all \in Seq(Chat), NEW c \in Chat, NEW part \in Seq(Chat),
         NEW k \in 0 .. Len(all), PartOf(part, all, k), k + Len(part) = Len(all)
  PROVE  /\ k \in 0 .. Len(Append(all, c))
         /\ PartOf(Append(part, c), Append(all, c), k)
         /\ k + Len(Append(part, c)) = Len(Append(all, c))
<1> DEFINE more == Append(all, c)
           longer == Append(part, c)
           n == Len(all)
           m == Len(part)
<1>1. /\ n \in Nat /\ m \in Nat /\ Len(more) = n + 1 /\ Len(longer) = m + 1
      /\ \A i \in 1 .. n : more[i] = all[i]
      /\ \A i \in 1 .. m : longer[i] = part[i]
      /\ more[n + 1] = c /\ longer[m + 1] = c
  BY AppendProperties, LenProperties
<1>2. k \in 0 .. n /\ k + m = n /\ \A i \in 1 .. m : part[i] = all[k + i]
  BY DEF PartOf
<1> HIDE DEF more, longer, n, m
<1>3. k \in 0 .. n + 1 /\ k + (m + 1) = n + 1
  BY <1>1, <1>2
<1>4. ASSUME NEW i \in 1 .. m PROVE longer[i] = more[k + i]
  <2>1. k + i \in 1 .. n
    BY <1>1, <1>2
  <2> QED
    BY <1>1, <1>2, <2>1
<1>5. longer[m + 1] = more[k + (m + 1)]
  BY <1>1, <1>3
<1>6. \A i \in 1 .. m + 1 : i \in 1 .. m \/ i = m + 1
  BY <1>1
<1>7. PartOf(longer, more, k)
  <2>1. \A i \in 1 .. m + 1 : longer[i] = more[k + i]
    BY <1>4, <1>5, <1>6
  <2> QED
    BY <1>1, <1>3, <2>1 DEF PartOf
<1> QED
  BY <1>1, <1>3, <1>7 DEF more, longer

LEMMA RoomEmpty == RoomInv(<<>>, {}, {}, [s \in Sessions |-> <<>>])
<1>1. <<>> \in Seq(Chat)
  BY EmptySeq
<1>2. \A s \in Sessions : \E k \in 0 .. Len(<<>>) : PartOf(<<>>, <<>>, k)
  BY <1>1, PartBegins
<1> QED
  BY <1>1, <1>2 DEF RoomInv, Gapless

LEMMA EnterKeeps ==
  ASSUME NEW all, NEW members, NEW entered, NEW heard,
         RoomInv(all, members, entered, heard), NEW s \in Sessions \ entered
  PROVE  RoomInv(all, members \cup {s}, entered \cup {s}, heard)
<1>1. all \in Seq(Chat) /\ heard[s] = <<>>
  BY DEF RoomInv
<1>2. \E k \in 0 .. Len(all) : PartOf(heard[s], all, k) /\ k + Len(heard[s]) = Len(all)
  BY <1>1, PartBegins
<1> QED
  BY <1>2 DEF RoomInv, Gapless

LEMMA SayKeeps ==
  ASSUME NEW all, NEW members, NEW entered, NEW heard,
         RoomInv(all, members, entered, heard), NEW c \in Chat
  PROVE  RoomInv(Append(all, c), members, entered,
                 [s \in Sessions |-> IF s \in members THEN Append(heard[s], c) ELSE heard[s]])
<1> DEFINE more == Append(all, c)
           next == [s \in Sessions |-> IF s \in members THEN Append(heard[s], c) ELSE heard[s]]
<1>1. /\ all \in Seq(Chat) /\ members \subseteq entered /\ entered \subseteq Sessions
      /\ \A s \in Sessions : heard[s] \in Seq(Chat)
      /\ \A s \in Sessions \ entered : heard[s] = <<>>
      /\ Gapless(all, members, heard)
  BY DEF RoomInv
<1>2. more \in Seq(Chat)
  BY <1>1, AppendProperties
<1>3. ASSUME NEW s \in Sessions
      PROVE  next[s] \in Seq(Chat) /\ (s \notin members => next[s] = heard[s])
  BY <1>1, AppendProperties
<1>4. ASSUME NEW s \in members
      PROVE  \E k \in 0 .. Len(more) : PartOf(next[s], more, k) /\ k + Len(next[s]) = Len(more)
  <2>1. PICK k \in 0 .. Len(all) : PartOf(heard[s], all, k) /\ k + Len(heard[s]) = Len(all)
    BY <1>1 DEF Gapless
  <2>2. s \in Sessions /\ heard[s] \in Seq(Chat) /\ next[s] = Append(heard[s], c)
    BY <1>1
  <2> QED
    BY <1>1, <2>1, <2>2, PartGrows
<1>5. ASSUME NEW s \in Sessions \ members
      PROVE  \E k \in 0 .. Len(more) : PartOf(next[s], more, k)
  <2>1. PICK k \in 0 .. Len(all) : PartOf(heard[s], all, k)
    BY <1>1 DEF Gapless
  <2>2. heard[s] \in Seq(Chat) /\ next[s] = heard[s]
    BY <1>1
  <2> QED
    BY <1>1, <2>1, <2>2, PartKept
<1>6. next \in [Sessions -> Seq(Chat)]
  BY <1>3
<1> HIDE DEF more, next
<1>7. Gapless(more, members, next)
  BY <1>4, <1>5 DEF Gapless
<1> QED
  BY <1>1, <1>2, <1>3, <1>6, <1>7 DEF RoomInv, more, next

RoomMembers == {s \in Sessions : Told(s)}
RoomHeard == [s \in Sessions |-> ChatsTo(s)]
RoomKept == RoomInv(log, sessions, RoomMembers, RoomHeard)

LEMMA RoomInvInit == Room!Init => RoomInv(log, sessions, RoomMembers, RoomHeard)
<1> SUFFICES ASSUME Room!Init PROVE RoomInv(log, sessions, RoomMembers, RoomHeard)
  OBVIOUS
<1>1. log = <<>> /\ sessions = {} /\ RoomMembers = {} /\ RoomHeard = [s \in Sessions |-> <<>>]
  BY DEF Room!Init, RoomMembers, RoomHeard, Told
<1> QED
  BY <1>1, RoomEmpty

LEMMA RoomInvStep ==
  ASSUME RoomInv(log, sessions, RoomMembers, RoomHeard), [Room!Next]_(Room!roomVars)
  PROVE  RoomInv(log', sessions', RoomMembers', RoomHeard')
<1>1. ASSUME NEW s \in Sessions, Room!Enter(s)
      PROVE  RoomInv(log', sessions', RoomMembers', RoomHeard')
  <2>1. /\ s \notin RoomMembers /\ log' = log /\ sessions' = sessions \cup {s}
        /\ RoomMembers' = RoomMembers \cup {s} /\ RoomHeard' = RoomHeard
    BY <1>1 DEF Room!Enter, RoomMembers, RoomHeard, Told
  <2> QED
    BY <2>1, EnterKeeps
<1>2. ASSUME NEW s \in Sessions, Room!Leave(s)
      PROVE  RoomInv(log', sessions', RoomMembers', RoomHeard')
  <2>1. /\ log' = log /\ sessions' = sessions \ {s}
        /\ RoomMembers' = RoomMembers /\ RoomHeard' = RoomHeard
    BY <1>2 DEF Room!Leave, RoomMembers, RoomHeard, Told
  <2> QED
    BY <2>1 DEF RoomInv, Gapless
<1>3. ASSUME NEW c \in Chat, Room!Say(c)
      PROVE  RoomInv(log', sessions', RoomMembers', RoomHeard')
  <2>1. /\ log' = Append(log, c) /\ sessions' = sessions /\ RoomMembers' = RoomMembers
        /\ RoomHeard' = [s \in Sessions |-> IF s \in sessions THEN Append(RoomHeard[s], c)
                                            ELSE RoomHeard[s]]
    BY <1>3 DEF Room!Say, RoomMembers, RoomHeard, Told
  <2> QED
    BY <2>1, SayKeeps
<1>4. CASE UNCHANGED Room!roomVars
  <2>1. /\ log' = log /\ sessions' = sessions
        /\ RoomMembers' = RoomMembers /\ RoomHeard' = RoomHeard
    BY <1>4 DEF Room!roomVars, RoomMembers, RoomHeard, Told
  <2> QED
    BY <2>1
<1> QED
  BY <1>1, <1>2, <1>3, <1>4 DEF Room!Next

\* In the room nobody hears a chat twice, misses one in between or hears two in
\* another order than the others, and who is in it has heard all that was said
\* since it entered: of every behaviour that the chat room allows.
THEOREM NothingMissed == Room!Spec => []Room!HeardWithoutGaps
<1>1. Room!Init => RoomKept
  BY RoomInvInit DEF RoomKept
<1>2. RoomKept /\ [Room!Next]_(Room!roomVars) => RoomKept'
  BY RoomInvStep DEF RoomKept
<1>3. RoomKept => Room!HeardWithoutGaps
  BY DEF RoomKept, RoomInv, Gapless, PartOf, RoomHeard, Room!HeardWithoutGaps, Room!HeardFrom
<1> QED
  BY <1>1, <1>2, <1>3, PTL DEF Room!Spec

\* What a chat room means, for the server: nobody is given a chat twice, misses
\* one between two others or gets two in another order than the rest, and who
\* is in m_Sessions has been given all that was broadcast since it was accepted.
THEOREM MembersHearEverything == Spec => []Room!HeardWithoutGaps
  BY ServerIsChatRoom, NothingMissed DEF ChatRoomSpec

-----------------------------------------------------------------------------
(* The accounts of the members: whoever is let in, is in the chat layer or *)
(* has a chat on its way is listed in the table users, and stays so.       *)

AnswersKnown ==
    /\ \A i \in DOMAIN responses : responses[i].type \in Success => responses[i].name \in Listed
    /\ uiPc = "pending" /\ uiAnswer.type \in Success => uiAnswer.name \in Listed
    /\ uiSession # None => name[uiSession] \in Listed

\* Who shows the chat layer was told ACCEPT.
MembersKnown ==
    /\ \A s \in Sessions : Told(s) => name[s] \in Listed
    /\ \A s \in inChat : Told(s)

KnownChat == {chat \in Chat : chat.sender \in Listed}

SendersKnown ==
    /\ inbox \in Seq(KnownChat)
    /\ uiPc = "broadcast" => uiChat \in KnownChat
    /\ SavesQueued \in Seq([type : {"save_message"}, chat : KnownChat])
    /\ messages \in Seq([id : DOMAIN users, text : Texts])

Known == AnswersKnown /\ MembersKnown /\ SendersKnown

\* The tables and the answers belong to the database thread.
LEMMA TablesKept ==
  ASSUME [Next]_vars, ~RunDatabase
  PROVE  /\ UNCHANGED <<users, messages, pictures>>
         /\ UNCHANGED responses \/ PopResponse
<1>1. CASE NetworkThread
  BY <1>1 DEF NetworkThread, EraseSession, Accepted, ReadJoin, ReadPicture, ReadChat, ReadEof,
     ReadFailed, Written, WriteFailed, Disconnected, SessionAlone, dbVars
<1>2. CASE UiThread
  BY <1>2 DEF UiThread, PopResponse, HandleProfilePictureDataRequest, HandlePendingSessions,
     IsUserConnected, OnClientAccept, PopInbox, Broadcast, OnUpdateClients, Render, KickUser,
     dbVars
<1>3. CASE Leave \/ UNCHANGED vars
  BY <1>3 DEF Leave, vars, dbVars
<1> QED
  BY <1>1, <1>2, <1>3 DEF Next

LEMMA RowsKept ==
  ASSUME Inv, [Next]_vars
  PROVE  /\ DOMAIN users \subseteq DOMAIN users'
         /\ \A i \in DOMAIN users : users'[i] = users[i]
         /\ Listed \subseteq Listed'
<1>1. /\ DOMAIN users \subseteq DOMAIN users'
      /\ \A i \in DOMAIN users : users'[i] = users[i]
  <2>1. CASE RunDatabase
    BY <2>1, RowsServed DEF RunDatabase, Inv, TypeOK
  <2>2. CASE ~RunDatabase
    BY <2>2, TablesKept
  <2> QED
    BY <2>1, <2>2
<1>2. Listed \subseteq Listed'
  BY <1>1 DEF Listed
<1> QED
  BY <1>1, <1>2

\* Who was told ACCEPT has a name that stays, and remains told.
LEMMA ToldStep ==
  ASSUME Inv, Talk, [Next]_vars, NEW s \in Sessions
  PROVE  /\ Told(s) => Told(s)' /\ name'[s] = name[s]
         /\ Told(s)' => Told(s) \/ (OnClientAccept /\ s = uiSession)
<1>1. Told(s) => Posted(s) # <<>>
  BY EmptySeq DEF Told, Lines
<1>2. Told(s) => name'[s] = name[s]
  BY <1>1, SaidByAsker, Steady DEF NamesKept
<1>3. CASE OnClientAccept
  BY <1>2, <1>3, RoomEntered
<1>4. CASE Broadcast
  BY <1>2, <1>4, RoomSaid
<1>5. CASE ~OnClientAccept /\ ~Broadcast
  BY <1>2, <1>5, RoomUnmoved
<1> QED
  BY <1>3, <1>4, <1>5

LEMMA KnownInit == Init => Known
<1> SUFFICES ASSUME Init PROVE Known
  OBVIOUS
<1>1. /\ requests = <<>> /\ responses = <<>> /\ messages = <<>> /\ inbox = <<>>
      /\ uiPc = "responses" /\ uiSession = None /\ inChat = {}
  BY DEF Init, DatabaseInit, SessionInit
<1>2. \A s \in Sessions : ~Told(s)
  <2> SUFFICES ASSUME NEW s \in Sessions PROVE Posted(s) = <<>>
    BY EmptySeq DEF Told, Lines
  <2> QED
    BY EmptySeq, ConcatEmptySeq DEF Init, SessionInit, Posted
<1>3. SavesQueued = <<>>
  BY <1>1, OfTypeEmpty DEF SavesQueued
<1> QED
  BY <1>1, <1>2, <1>3, EmptySeq DEF Known, AnswersKnown, MembersKnown, SendersKnown

LEMMA AnswersKnownStep ==
  ASSUME Inv, Talk, Known, [Next]_vars PROVE AnswersKnown'
<1> USE DEF Known, AnswersKnown
<1>1. /\ responses \in Seq(Response) /\ DatabaseTypeOK
      /\ Listed \subseteq Listed'
  BY RowsKept DEF Inv, TypeOK, DatabaseTypeOK
<1>2. (\A i \in DOMAIN responses : responses[i].type \in Success => responses[i].name \in Listed)'
  <2>1. CASE RunDatabase
    <3>1. CASE responses' = responses
      BY <1>1, <3>1
    <3>2. ASSUME NEW a \in Response, responses' = Append(responses, a),
                 a.type \in Success => a.name \in Listed'
          PROVE  \A i \in DOMAIN responses' :
                    responses'[i].type \in Success => responses'[i].name \in Listed'
      <4>1. /\ Len(responses) \in Nat /\ DOMAIN responses = 1 .. Len(responses)
            /\ DOMAIN responses' = 1 .. Len(responses) + 1
            /\ \A i \in 1 .. Len(responses) : responses'[i] = responses[i]
            /\ responses'[Len(responses) + 1] = a
        BY <1>1, <3>2, AppendProperties, LenProperties
      <4>2. ASSUME NEW i \in DOMAIN responses'
            PROVE  i \in DOMAIN responses \/ i = Len(responses) + 1
        BY <4>1
      <4>3. ASSUME NEW i \in DOMAIN responses', responses'[i].type \in Success
            PROVE  responses'[i].name \in Listed'
        BY <1>1, <3>2, <4>1, <4>2, <4>3
      <4> QED
        BY <4>3
    <3> QED
      BY <1>1, <2>1, <3>1, <3>2, VerdictsServed DEF RunDatabase
  <2>2. CASE PopResponse /\ responses # <<>>
    <3>1. responses' = Tail(responses)
      BY <2>2 DEF PopResponse
    <3>2. \A i \in DOMAIN responses' : \E j \in DOMAIN responses : responses'[i] = responses[j]
      <4>1. /\ Len(responses) \in Nat /\ DOMAIN responses = 1 .. Len(responses)
            /\ Tail(responses) \in Seq(Response)
            /\ Len(Tail(responses)) = Len(responses) - 1
            /\ \A i \in 1 .. Len(Tail(responses)) : Tail(responses)[i] = responses[i + 1]
        BY <1>1, <2>2, HeadTailProperties, LenProperties
      <4> DEFINE rest == Tail(responses)
      <4>2. DOMAIN rest = 1 .. Len(responses) - 1
            /\ \A i \in 1 .. Len(responses) - 1 : rest[i] = responses[i + 1]
        BY <4>1, LenProperties
      <4> HIDE DEF rest
      <4>3. ASSUME NEW i \in DOMAIN rest
            PROVE  i + 1 \in DOMAIN responses /\ rest[i] = responses[i + 1]
        BY <4>1, <4>2
      <4> QED
        BY <3>1, <4>3 DEF rest
    <3>3. ASSUME NEW i \in DOMAIN responses', responses'[i].type \in Success
          PROVE  responses'[i].name \in Listed'
      BY <1>1, <3>2, <3>3
    <3> QED
      BY <3>3
  <2>3. CASE responses' = responses
    BY <1>1, <2>3
  <2>4. PopResponse /\ responses = <<>> => responses' = responses
    BY DEF PopResponse
  <2> QED
    BY <2>1, <2>2, <2>3, <2>4, TablesKept
<1>3. (uiPc = "pending" /\ uiAnswer.type \in Success => uiAnswer.name \in Listed)'
  <2>1. CASE uiPc' = uiPc /\ uiAnswer' = uiAnswer
    BY <1>1, <2>1
  <2>2. CASE PopResponse /\ uiPc' = "pending"
    <3>1. responses # <<>> /\ uiAnswer' = Head(responses)
      BY <2>2 DEF PopResponse, UiGoto
    <3>2. Head(responses) = responses[1] /\ 1 \in DOMAIN responses
      BY <1>1, <3>1, EmptySeq, LenProperties
    <3> QED
      BY <1>1, <3>1, <3>2
  <2>3. CASE uiPc' # "pending"
    BY <2>3
  <2>4. \/ uiPc' = uiPc /\ uiAnswer' = uiAnswer
        \/ PopResponse
        \/ uiPc' # "pending"
    <3>1. CASE NetworkThread
      BY <3>1 DEF NetworkThread, EraseSession, Accepted, ReadJoin, ReadPicture, ReadChat,
         ReadEof, ReadFailed, Written, WriteFailed, Disconnected, SessionAlone, uiVars
    <3>2. CASE UiThread
      BY <3>2 DEF UiThread, HandleProfilePictureDataRequest, HandlePendingSessions,
         IsUserConnected, OnClientAccept, PopInbox, Broadcast, OnUpdateClients, Render,
         KickUser, UiGoto
    <3>3. CASE RunDatabase \/ Leave \/ UNCHANGED vars
      BY <3>3 DEF RunDatabase, Leave, vars, uiVars
    <3> QED
      BY <3>1, <3>2, <3>3 DEF Next
  <2> QED
    BY <2>1, <2>2, <2>3, <2>4
<1>4. (uiSession # None => name[uiSession] \in Listed)'
  <2>0. /\ uiSession \in Sessions \cup {None} /\ NamesKept
        /\ uiSession # None => lines[uiSession] > 0
    BY Steady DEF Inv, TypeOK, Joined
  <2>1. CASE uiSession' = uiSession
    <3>1. uiSession # None => name'[uiSession] = name[uiSession]
      BY <2>0 DEF NamesKept
    <3> QED
      BY <1>1, <2>1, <3>1
  <2>2. CASE uiSession' = None
    BY <2>2
  <2>3. CASE HandlePendingSessions /\ uiSession' = Waiting /\ Waiting # None
                /\ uiAnswer.type \in Success
    <3>1. uiAnswer \in Answer /\ uiAnswer.name \in Listed /\ UNCHANGED name
      BY <2>3 DEF HandlePendingSessions, UiAt, Inv, UiPlaces
    <3>2. name[Waiting] = uiAnswer.name
      BY <2>3, <3>1 DEF Waiting, Talk, WaitersNotAnswered, Answer
    <3>3. name'[uiSession'] = uiAnswer.name
      BY <2>3, <3>1, <3>2
    <3> QED
      BY <1>1, <3>1, <3>3
  <2>4. \/ uiSession' = uiSession \/ uiSession' = None
        \/ HandlePendingSessions /\ uiSession' = Waiting /\ Waiting # None
             /\ uiAnswer.type \in Success
    <3>1. CASE NetworkThread
      BY <3>1 DEF NetworkThread, EraseSession, Accepted, ReadJoin, ReadPicture, ReadChat,
         ReadEof, ReadFailed, Written, WriteFailed, Disconnected, SessionAlone, uiVars
    <3>2. CASE UiThread
      BY <3>2 DEF UiThread, PopResponse, HandleProfilePictureDataRequest, HandlePendingSessions,
         IsUserConnected, OnClientAccept, PopInbox, Broadcast, OnUpdateClients, Render,
         KickUser, Success
    <3>3. CASE RunDatabase \/ Leave \/ UNCHANGED vars
      BY <3>3 DEF RunDatabase, Leave, vars, uiVars
    <3> QED
      BY <3>1, <3>2, <3>3 DEF Next
  <2> QED
    BY <2>1, <2>2, <2>3, <2>4
<1> QED
  BY <1>2, <1>3, <1>4

LEMMA MembersKnownStep ==
  ASSUME Inv, Talk, Known, [Next]_vars PROVE MembersKnown'
<1> USE DEF Known, MembersKnown
<1>1. /\ Listed \subseteq Listed'
      /\ SessionTypeOK /\ inChat \subseteq Sessions
  BY RowsKept DEF Inv, TypeOK, SessionTypeOK
<1>2. ASSUME NEW s \in Sessions, Told(s)' PROVE name'[s] \in Listed'
  <2>1. CASE Told(s)
    BY <1>1, <2>1, ToldStep
  <2>2. CASE OnClientAccept /\ s = uiSession
    <3>1. UNCHANGED name /\ uiSession # None
      BY <2>2, ProtocolAssumption DEF OnClientAccept
    <3> QED
      BY <1>1, <2>2, <3>1 DEF AnswersKnown
  <2> QED
    BY <1>2, <2>1, <2>2, ToldStep
<1>3. ASSUME NEW s \in inChat' PROVE Told(s)'
  <2>1. CASE s \in inChat
    BY <1>1, <2>1, ToldStep
  <2>2. CASE Written(s) /\ s \in Sessions
    <3>1. s \in inChat \/ (outbox[s] # <<>> /\ Head(outbox[s]).type = "accept")
      BY <1>3, <2>2 DEF Written, Write
    <3>2. CASE s \in inChat
      BY <2>1, <3>2
    <3>3. CASE outbox[s] # <<>> /\ Head(outbox[s]).type = "accept"
      <4> DEFINE a == written[s]
                 b == outbox[s]
      <4>1. a \in Seq(Out) /\ b \in Seq(Out) /\ b # <<>> /\ Head(b).type = "accept"
        BY <1>1, <2>2, <3>3 DEF SessionTypeOK
      <4>2. Posted(s) = a \o b
        BY DEF Posted
      <4> HIDE DEF a, b
      <4>3. /\ Len(a) \in Nat /\ Len(b) \in Nat /\ Len(b) > 0 /\ b[1] = Head(b)
            /\ DOMAIN (a \o b) = 1 .. Len(a) + Len(b)
            /\ \A i \in 1 .. Len(a) + Len(b) :
                 (a \o b)[i] = IF i <= Len(a) THEN a[i] ELSE b[i - Len(a)]
        BY <4>1, ConcatProperties, LenProperties, EmptySeq
      <4>4. Len(a) + 1 \in DOMAIN (a \o b) /\ (a \o b)[Len(a) + 1] = Head(b)
        <5> DEFINE ab == a \o b
                   n == Len(a)
        <5>1. n + 1 \in 1 .. n + Len(b) /\ ~(n + 1 <= n) /\ (n + 1) - n = 1
          BY <4>3
        <5>2. /\ DOMAIN ab = 1 .. n + Len(b)
              /\ \A i \in 1 .. n + Len(b) : ab[i] = IF i <= n THEN a[i] ELSE b[i - n]
          BY <4>3
        <5> HIDE DEF ab, n
        <5>3. n + 1 \in DOMAIN ab /\ ab[n + 1] = Head(b)
          BY <4>3, <5>1, <5>2
        <5> QED
          BY <5>3 DEF ab, n
      <4>5. Told(s)
        BY <4>1, <4>2, <4>4 DEF Told, Lines
      <4> QED
        BY <2>2, <4>5, ToldStep
    <3> QED
      BY <2>2, <3>1, <3>2, <3>3 DEF Written, Write
  <2>3. s \in inChat \/ (s \in Sessions /\ Written(s))
    <3>1. CASE UNCHANGED inChat
      BY <1>3, <3>1
    <3>2. ASSUME NEW t \in Sessions, Written(t)
          PROVE  s \in inChat \/ (s \in Sessions /\ Written(s))
      <4>1. inChat' \subseteq inChat \cup {t}
        BY <3>2 DEF Written, Write
      <4>2. s \in inChat \/ s = t
        BY <1>3, <4>1
      <4> QED
        BY <3>2, <4>2
    <3>3. CASE NetworkThread /\ ~\E t \in Sessions : Written(t)
      <4>1. UNCHANGED inChat
        BY <3>3 DEF NetworkThread, EraseSession, Accepted, ReadJoin, ReadPicture, ReadChat,
           ReadEof, ReadFailed, WriteFailed, Disconnected, ReadLine, ReadEnd, ReadError,
           Connect, WriteError, Disconnect, sessionVars
      <4> QED
        BY <3>1, <4>1
    <3>4. CASE UiThread
      <4>1. UNCHANGED inChat
        BY <3>4 DEF UiThread, PopResponse, HandleProfilePictureDataRequest,
           HandlePendingSessions, IsUserConnected, OnClientAccept, PopInbox, Broadcast,
           OnUpdateClients, Render, KickUser, sessionVars
      <4> QED
        BY <3>1, <4>1
    <3>5. CASE RunDatabase \/ Leave \/ UNCHANGED vars
      <4>1. UNCHANGED inChat
        BY <3>5 DEF RunDatabase, Leave, ClientLeaves, vars, sessionVars
      <4> QED
        BY <3>1, <4>1
    <3> QED
      BY <3>2, <3>3, <3>4, <3>5 DEF Next
  <2> QED
    BY <2>1, <2>2, <2>3
<1> QED
  BY <1>2, <1>3

\* The chats to be saved: other requests do not matter.
LEMMA SavesKept ==
  ASSUME Inv, [Next]_vars, ~RunDatabase, ~Broadcast PROVE SavesQueued' = SavesQueued
<1>1. requests \in Seq(Request) /\ UNCHANGED requests => SavesQueued' = SavesQueued
  BY DEF SavesQueued
<1>2. requests \in Seq(Request)
  BY DEF Inv, TypeOK, DatabaseTypeOK
<1>3. ASSUME NEW reqs \in Seq(Request), Submit(reqs),
             \A i \in DOMAIN reqs : reqs[i].type \notin {"save_message"}
      PROVE  SavesQueued' = SavesQueued
  <2> DEFINE types == {"save_message"}
  <2>1. requests' = requests \o reqs
    BY <1>3 DEF Submit
  <2>2. OfType(reqs, types) = <<>>
    BY <1>3, OfTypeNone
  <2> HIDE DEF types
  <2>3. OfType(requests \o reqs, types) = OfType(requests, types) \o OfType(reqs, types)
    BY <1>2, OfTypeConcat
  <2>4. OfType(requests, types) \in Seq({r \in Request : r.type \in types})
    BY <1>2, OfTypeTyped
  <2>5. OfType(requests, types) \o <<>> = OfType(requests, types)
    BY <2>4, ConcatEmptySeq
  <2>6. OfType(requests', types) = OfType(requests, types)
    BY <2>1, <2>2, <2>3, <2>5
  <2> QED
    BY <2>6 DEF SavesQueued, types
<1>4. ASSUME NEW request \in Request, request.type # "save_message", Submit(<<request>>)
      PROVE  SavesQueued' = SavesQueued
  <2>1. /\ <<request>> \in Seq(Request)
        /\ \A i \in DOMAIN <<request>> : <<request>>[i].type \notin {"save_message"}
    BY <1>4
  <2> DEFINE reqs == <<request>>
  <2>2. reqs \in Seq(Request) /\ Submit(reqs)
        /\ \A i \in DOMAIN reqs : reqs[i].type \notin {"save_message"}
    BY <1>4, <2>1
  <2> HIDE DEF reqs
  <2> QED
    BY <1>3, <2>2
<1>5. ASSUME NEW s \in Sessions, ReadJoin(s) PROVE SavesQueued' = SavesQueued
  <2>1. PICK join \in Joins : Submit(<<join>>)
    BY <1>5 DEF ReadJoin
  <2>2. join \in Request /\ join.type # "save_message"
    BY <2>1, ServerAssumption DEF Request, JoinRequest, Join
  <2> QED
    BY <1>4, <2>1, <2>2
<1>6. ASSUME NEW s \in Sessions, ReadPicture(s) PROVE SavesQueued' = SavesQueued
  <2>1. PICK content \in Pixels \cup {NoPixels} :
          Submit(<<ProfilePictureSaveRequest(name[s], content)>>)
    BY <1>6 DEF ReadPicture
  <2>2. name[s] \in Users
    BY <1>6 DEF ReadPicture, Inv, Named
  <2>3. /\ ProfilePictureSaveRequest(name[s], content) \in Request
        /\ ProfilePictureSaveRequest(name[s], content).type # "save_message"
    BY <2>2 DEF ProfilePictureSaveRequest, Request, SavePictureRequest
  <2> QED
    BY <1>4, <2>1, <2>3
<1>7. CASE OnClientAccept
  <2>1. PICK members \in SetToSeqs(sessions) : Submit(PictureRequests(members, uiSession))
    BY <1>7 DEF OnClientAccept
  <2>2. uiSession \in Sessions /\ lines[uiSession] > 0
    BY <1>7, ProtocolAssumption DEF OnClientAccept, UiAt, Inv, UiPlaces, Joined
  <2>3. PictureRequests(members, uiSession) \in Seq(Request)
    BY <2>2, PictureRequestsTyped
  <2>4. \A i \in DOMAIN PictureRequests(members, uiSession) :
          PictureRequests(members, uiSession)[i].type \notin {"save_message"}
    BY DEF PictureRequests, UserProfilePictureRequest
  <2> QED
    BY <1>3, <2>1, <2>3, <2>4
<1>8. CASE NetworkThread /\ ~\E s \in Sessions : ReadJoin(s) \/ ReadPicture(s)
  <2>1. UNCHANGED requests
    BY <1>8 DEF NetworkThread, EraseSession, Accepted, ReadChat, ReadEof, ReadFailed, Written,
       WriteFailed, Disconnected, SessionAlone, dbVars
  <2> QED
    BY <1>1, <1>2, <2>1
<1>9. CASE UiThread /\ ~OnClientAccept
  <2>1. UNCHANGED requests
    BY <1>9 DEF UiThread, PopResponse, HandleProfilePictureDataRequest, HandlePendingSessions,
       IsUserConnected, PopInbox, OnUpdateClients, Render, KickUser, dbVars
  <2> QED
    BY <1>1, <1>2, <2>1
<1>10. CASE Leave \/ UNCHANGED vars
  <2>1. UNCHANGED requests
    BY <1>10 DEF Leave, vars, dbVars
  <2> QED
    BY <1>1, <1>2, <2>1
<1> QED
  BY <1>5, <1>6, <1>7, <1>8, <1>9, <1>10 DEF Next

\* What becomes of the chats: one is said, and queued to be saved; one is taken
\* off the queue, and stored under the row of its sender if that is found and
\* nothing fails; or they stay where they are.
LEMMA SavesStep ==
  ASSUME Inv, [Next]_vars
  PROVE  \/ UNCHANGED <<messages, log>> /\ SavesQueued' = SavesQueued
         \/ /\ Broadcast /\ uiChat \in Chat
            /\ UNCHANGED messages
            /\ log' = Append(log, uiChat)
            /\ SavesQueued' = Append(SavesQueued, MessageSaveRequest(uiChat))
         \/ \E save \in SaveMessageRequest :
              /\ UNCHANGED log
              /\ SavesQueued = <<save>> \o SavesQueued'
              /\ \/ /\ UNCHANGED messages
                    /\ save.chat.sender \notin Listed \/ LookupMayFail \/ WriteMayFail
                 \/ \E id \in DOMAIN users :
                      /\ users[id].name = save.chat.sender
                      /\ messages' = Append(messages, [id |-> id, text |-> save.chat.text])
<1>1. DatabaseTypeOK /\ requests \in Seq(Request)
  BY DEF Inv, TypeOK, DatabaseTypeOK
<1>2. CASE RunDatabase
  <2>1. UNCHANGED log /\ DatabaseThread
    BY <1>2 DEF RunDatabase, serverVars
  <2> QED
    BY <1>1, <2>1, SavesServed DEF SavesQueued
<1>3. CASE Broadcast
  <2>1. uiChat \in Chat
    BY <1>3, ProtocolAssumption DEF Broadcast, UiAt, Inv, UiPlaces
  <2> DEFINE save == MessageSaveRequest(uiChat)
             types == {"save_message"}
  <2>2. save \in Request /\ save.type \in types
    BY <2>1 DEF MessageSaveRequest, Request, SaveMessageRequest
  <2>3. requests' = requests \o <<save>> /\ log' = Append(log, uiChat) /\ UNCHANGED messages
    BY <1>3 DEF Broadcast, Submit
  <2> HIDE DEF save, types
  <2>4. requests' = Append(requests, save)
    BY <1>1, <2>2, <2>3, AppendIsConcat
  <2>5. OfType(requests', types) = Append(OfType(requests, types), save)
    BY <1>1, <2>2, <2>4, OfTypeAppend
  <2> QED
    BY <1>3, <2>1, <2>3, <2>5 DEF SavesQueued, save, types
<1>4. CASE ~RunDatabase /\ ~Broadcast
  <2>1. UNCHANGED log
    <3>1. CASE NetworkThread
      BY <3>1 DEF NetworkThread, EraseSession, Accepted, ReadJoin, ReadPicture, ReadChat,
         ReadEof, ReadFailed, Written, WriteFailed, Disconnected, SessionAlone, serverVars
    <3>2. CASE UiThread
      BY <1>4, <3>2 DEF UiThread, PopResponse, HandleProfilePictureDataRequest,
         HandlePendingSessions, IsUserConnected, OnClientAccept, PopInbox, OnUpdateClients,
         Render, KickUser, serverVars
    <3>3. CASE Leave \/ UNCHANGED vars
      BY <3>3 DEF Leave, vars, serverVars
    <3> QED
      BY <1>4, <3>1, <3>2, <3>3 DEF Next
  <2> QED
    BY <1>4, <2>1, SavesKept, TablesKept
<1> QED
  BY <1>2, <1>3, <1>4

\* The parts of a sequence that goes on are made of what the whole is made of.
LEMMA FirstAndRest ==
  ASSUME NEW S, NEW x \in S, NEW rest \in Seq(S), NEW T, <<x>> \o rest \in Seq(T)
  PROVE  x \in T /\ rest \in Seq(T)
<1> DEFINE one == <<x>>
           all == one \o rest
           n == Len(rest)
<1>1. one \in Seq(S) /\ Len(one) = 1 /\ one[1] = x
  OBVIOUS
<1>2. rest \in [1 .. n -> S] /\ n \in Nat /\ rest = [i \in 1 .. n |-> rest[i]]
  BY LenProperties
<1> HIDE DEF one, n
<1>3. /\ Len(all) = 1 + n /\ DOMAIN all = 1 .. 1 + n
      /\ \A i \in 1 .. 1 + n : all[i] = IF i <= 1 THEN one[i] ELSE rest[i - 1]
  <2>1. /\ Len(all) = Len(one) + Len(rest) /\ all \in Seq(S)
        /\ \A i \in 1 .. Len(one) + Len(rest) :
             all[i] = IF i <= Len(one) THEN one[i] ELSE rest[i - Len(one)]
    BY <1>1, ConcatProperties
  <2>2. DOMAIN all = 1 .. Len(all)
    BY <2>1, LenProperties
  <2> HIDE DEF all
  <2> QED
    BY <1>1, <2>1, <2>2 DEF n
<1>4. all \in Seq(T)
  BY DEF one
<1> HIDE DEF all
<1>5. \A i \in 1 .. 1 + n : all[i] \in T
  BY <1>3, <1>4, ElementOfSeq
<1>6. x \in T
  BY <1>1, <1>2, <1>3, <1>5
<1>7. ASSUME NEW i \in 1 .. n PROVE rest[i] \in T
  <2>1. i + 1 \in 1 .. 1 + n /\ ~(i + 1 <= 1) /\ (i + 1) - 1 = i
    BY <1>2
  <2> QED
    BY <1>3, <1>5, <2>1
<1>8. rest \in [1 .. n -> T]
  BY <1>2, <1>7
<1>9. rest \in Seq(T)
  BY <1>2, <1>8
<1> QED
  BY <1>6, <1>9

LEMMA SendersKnownStep ==
  ASSUME Inv, Talk, Known, [Next]_vars PROVE SendersKnown'
<1> USE DEF Known, SendersKnown
<1> DEFINE Saves == [type : {"save_message"}, chat : KnownChat]
           Rows == [id : DOMAIN users, text : Texts]
<1>1. KnownChat \subseteq KnownChat' /\ Saves \subseteq Saves' /\ Rows \subseteq Rows'
  BY RowsKept DEF KnownChat
<1>2. inbox \in Seq(KnownChat') /\ SavesQueued \in Seq(Saves') /\ messages \in Seq(Rows')
  BY <1>1, SeqMonotonic
<1>3. inbox' \in Seq(KnownChat')
  <2>1. CASE inbox' = inbox
    BY <1>2, <2>1
  <2>2. ASSUME NEW s \in Sessions, ReadChat(s) PROVE inbox' \in Seq(KnownChat')
    <3>1. PICK t \in Texts : inbox' = Append(inbox, [sender |-> name[s], text |-> t])
      BY <2>2 DEF ReadChat
    <3>2. s \in inChat
      BY <2>2 DEF ReadChat
    <3>3. name[s] \in Users /\ name[s] \in Listed
      BY <2>2, <3>2 DEF ReadChat, Inv, Named, MembersKnown
    <3>4. [sender |-> name[s], text |-> t] \in KnownChat
      BY <3>3 DEF KnownChat, Chat
    <3>5. [sender |-> name[s], text |-> t] \in KnownChat'
      BY <1>1, <3>4
    <3> QED
      BY <1>2, <3>1, <3>5, AppendProperties
  <2>3. CASE PopInbox /\ inbox # <<>>
    BY <1>2, <2>3, HeadTailProperties DEF PopInbox
  <2>4. inbox' = inbox \/ (\E s \in Sessions : ReadChat(s)) \/ (PopInbox /\ inbox # <<>>)
    <3>1. CASE NetworkThread
      BY <3>1 DEF NetworkThread, EraseSession, Accepted, ReadJoin, ReadPicture,
         ReadEof, ReadFailed, Written, WriteFailed, Disconnected, SessionAlone, serverVars
    <3>2. CASE UiThread
      BY <3>2 DEF UiThread, PopResponse, HandleProfilePictureDataRequest,
         HandlePendingSessions, IsUserConnected, OnClientAccept, PopInbox, Broadcast,
         OnUpdateClients, Render, KickUser, serverVars
    <3>3. CASE RunDatabase \/ Leave \/ UNCHANGED vars
      BY <3>3 DEF RunDatabase, Leave, vars, serverVars
    <3> QED
      BY <3>1, <3>2, <3>3 DEF Next
  <2> QED
    BY <2>1, <2>2, <2>3, <2>4
<1>4. uiPc' = "broadcast" => uiChat' \in KnownChat'
  <2>1. CASE uiPc' = uiPc /\ uiChat' = uiChat
    BY <1>1, <2>1
  <2>2. CASE PopInbox /\ uiPc' = "broadcast"
    <3>1. inbox # <<>> /\ uiChat' = Head(inbox)
      BY <2>2 DEF PopInbox, UiGoto
    <3> QED
      BY <1>2, <3>1, HeadTailProperties
  <2>3. (uiPc' = uiPc /\ uiChat' = uiChat) \/ PopInbox \/ uiPc' # "broadcast"
    <3>1. CASE NetworkThread
      BY <3>1 DEF NetworkThread, EraseSession, Accepted, ReadJoin, ReadPicture, ReadChat,
         ReadEof, ReadFailed, Written, WriteFailed, Disconnected, SessionAlone, uiVars
    <3>2. CASE UiThread
      BY <3>2 DEF UiThread, PopResponse, HandleProfilePictureDataRequest,
         HandlePendingSessions, IsUserConnected, OnClientAccept, Broadcast,
         OnUpdateClients, Render, KickUser, UiGoto
    <3>3. CASE RunDatabase \/ Leave \/ UNCHANGED vars
      BY <3>3 DEF RunDatabase, Leave, vars, uiVars
    <3> QED
      BY <3>1, <3>2, <3>3 DEF Next
  <2> QED
    BY <2>1, <2>2, <2>3
<1>5. SavesQueued' \in Seq(Saves') /\ messages' \in Seq(Rows')
  <2>1. CASE UNCHANGED <<messages, log>> /\ SavesQueued' = SavesQueued
    BY <1>2, <2>1
  <2>2. CASE /\ Broadcast /\ uiChat \in Chat /\ UNCHANGED messages
             /\ SavesQueued' = Append(SavesQueued, MessageSaveRequest(uiChat))
    <3>1. uiChat \in KnownChat
      BY <2>2 DEF Broadcast, UiAt
    <3>2. MessageSaveRequest(uiChat) \in Saves
      BY <3>1 DEF MessageSaveRequest
    <3>3. MessageSaveRequest(uiChat) \in Saves'
      BY <1>1, <3>2
    <3> HIDE DEF Saves, Rows
    <3> QED
      BY <1>2, <2>2, <3>3, AppendProperties
  <2>3. ASSUME NEW save \in SaveMessageRequest,
               SavesQueued = <<save>> \o SavesQueued',
               \/ UNCHANGED messages
               \/ \E id \in DOMAIN users :
                    messages' = Append(messages, [id |-> id, text |-> save.chat.text])
        PROVE  SavesQueued' \in Seq(Saves') /\ messages' \in Seq(Rows')
    <3>1. SavesQueued' \in Seq({r \in Request : r.type \in {"save_message"}})
      <4>1. requests' \in Seq(Request)
        BY InvStep DEF Inv, TypeOK, DatabaseTypeOK
      <4> QED
        BY <4>1, OfTypeTyped DEF SavesQueued
    <3>2. save \in {r \in Request : r.type \in {"save_message"}}
      BY <2>3 DEF Request, SaveMessageRequest
    <3>3. SavesQueued' \in Seq(Saves')
      BY <1>2, <2>3, <3>1, <3>2, FirstAndRest
    <3>4. ASSUME NEW id \in DOMAIN users,
                 messages' = Append(messages, [id |-> id, text |-> save.chat.text])
          PROVE  messages' \in Seq(Rows')
      <4>1. save.chat.text \in Texts
        BY <2>3 DEF SaveMessageRequest, Chat
      <4>2. [id |-> id, text |-> save.chat.text] \in Rows
        BY <4>1
      <4>3. [id |-> id, text |-> save.chat.text] \in Rows'
        BY <1>1, <4>2
      <4> HIDE DEF Rows
      <4> QED
        BY <1>2, <3>4, <4>3, AppendProperties
    <3> QED
      BY <1>2, <2>3, <3>3, <3>4
  <2> QED
    BY <2>1, <2>2, <2>3, SavesStep
<1> QED
  BY <1>3, <1>4, <1>5

LEMMA KnownStep == Inv /\ Talk /\ Known /\ [Next]_vars => Known'
  BY AnswersKnownStep, MembersKnownStep, SendersKnownStep DEF Known

\* Everybody who is let in has an account, and so has the sender of every chat
\* on its way to the members and to the table messages: an answer of the
\* database, m_PendingSessions and the two inboxes lie between them.
THEOREM KnownInvariant == Spec => []Known
  BY KnownInit, KnownStep, ServerInvariant, TalkInvariant, PTL DEF Spec

-----------------------------------------------------------------------------
(* The chats in the table messages, and those on their way to it.          *)

Stored ==
    [i \in DOMAIN messages |->
        [sender |-> users[messages[i].id].name, text |-> messages[i].text]]

ToStore == [i \in DOMAIN SavesQueued |-> SavesQueued[i].chat]

\* Rows are not changed, and chats are stored one after the other.
LEMMA StoredRead ==
  ASSUME Inv, Known
  PROVE  /\ Stored \in Seq(Chat)
         /\ messages \in Seq([id : DOMAIN users, text : Texts])
         /\ DOMAIN messages = 1 .. Len(messages) /\ Len(messages) \in Nat
         /\ \A i \in DOMAIN messages : messages[i].id \in DOMAIN users
<1>1. messages \in Seq([id : DOMAIN users, text : Texts]) /\ users \in Seq(UserRow)
  BY DEF Known, SendersKnown, Inv, TypeOK, DatabaseTypeOK
<1>2. DOMAIN messages = 1 .. Len(messages) /\ Len(messages) \in Nat
  BY <1>1, LenProperties
<1>3. \A i \in DOMAIN messages : messages[i] \in [id : DOMAIN users, text : Texts]
  BY <1>1, <1>2, ElementOfSeq
<1>4. \A j \in DOMAIN users : users[j] \in UserRow
  BY <1>1, LenProperties, ElementOfSeq
<1>5. \A i \in DOMAIN messages :
        [sender |-> users[messages[i].id].name, text |-> messages[i].text] \in Chat
  BY <1>3, <1>4 DEF Chat, UserRow
<1>6. Stored \in [1 .. Len(messages) -> Chat]
  BY <1>2, <1>5 DEF Stored
<1>7. Stored \in Seq(Chat)
  <2> HIDE DEF Stored
  <2> QED
    BY <1>2, <1>6
<1>8. \A i \in DOMAIN messages : messages[i].id \in DOMAIN users
  BY <1>3
<1> QED
  BY <1>1, <1>2, <1>7, <1>8

LEMMA StoredKept ==
  ASSUME Inv, Known, [Next]_vars, UNCHANGED messages PROVE Stored' = Stored
<1>1. \A i \in DOMAIN messages : messages[i].id \in DOMAIN users
  BY StoredRead
<1>2. \A j \in DOMAIN users : users'[j] = users[j]
  BY RowsKept
<1>3. ASSUME NEW i \in DOMAIN messages
      PROVE  users'[messages[i].id] = users[messages[i].id]
  BY <1>1, <1>2
<1>4. Stored' = [i \in DOMAIN messages |->
                   [sender |-> users'[messages[i].id].name, text |-> messages[i].text]]
  BY DEF Stored
<1> QED
  BY <1>3, <1>4 DEF Stored

LEMMA StoredGrows ==
  ASSUME Inv, Known, [Next]_vars, NEW chat \in Chat, NEW id \in DOMAIN users,
         users[id].name = chat.sender,
         messages' = Append(messages, [id |-> id, text |-> chat.text])
  PROVE  Stored' = Append(Stored, chat)
<1> DEFINE row == [id |-> id, text |-> chat.text]
           n == Len(messages)
<1>1. /\ \A i \in DOMAIN messages : messages[i].id \in DOMAIN users
      /\ messages \in Seq([id : DOMAIN users, text : Texts])
      /\ DOMAIN messages = 1 .. n /\ n \in Nat
      /\ Stored \in Seq(Chat)
  BY StoredRead
<1>2. row \in [id : DOMAIN users, text : Texts] /\ row.id = id /\ row.text = chat.text
  BY DEF Chat
<1>3. messages' = Append(messages, row)
  OBVIOUS
<1> HIDE DEF row, n
<1>4. /\ DOMAIN messages' = 1 .. n + 1
      /\ \A i \in 1 .. n : messages'[i] = messages[i]
      /\ messages'[n + 1] = row
  BY <1>1, <1>2, <1>3, AppendProperties, LenProperties DEF n
<1>5. \A j \in DOMAIN users : users'[j] = users[j]
  BY RowsKept
<1>6. ASSUME NEW i \in 1 .. n PROVE Stored'[i] = Stored[i]
  <2>1. i \in 1 .. n + 1 /\ i \in DOMAIN messages
    BY <1>1
  <2>2. users'[messages'[i].id] = users[messages[i].id] /\ messages'[i] = messages[i]
    BY <1>1, <1>4, <1>5, <2>1
  <2> QED
    BY <1>4, <2>1, <2>2 DEF Stored
<1>7. Stored'[n + 1] = chat
  <2>1. n + 1 \in DOMAIN messages'
    BY <1>1, <1>4
  <2>2. Stored'[n + 1] = [sender |-> users'[row.id].name, text |-> row.text]
    BY <1>4, <2>1 DEF Stored
  <2>3. Stored'[n + 1] = [sender |-> chat.sender, text |-> chat.text]
    BY <1>2, <1>5, <2>2
  <2> QED
    BY <2>3 DEF Chat
<1>8. DOMAIN Stored' = 1 .. n + 1 /\ DOMAIN Stored = 1 .. n
  BY <1>1, <1>4 DEF Stored
<1>9. Stored' \in Seq(Chat)
  <2>1. \A i \in 1 .. n : Stored[i] \in Chat
    <3> DEFINE q == Stored
    <3>1. q \in Seq(Chat) /\ DOMAIN q = 1 .. n
      BY <1>1, <1>8
    <3> HIDE DEF q
    <3>2. \A i \in 1 .. n : q[i] \in Chat
      BY <3>1, ElementOfSeq, LenProperties
    <3> QED
      BY <3>2 DEF q
  <2>2. Stored' \in [1 .. n + 1 -> Chat]
    <3>1. ASSUME NEW i \in 1 .. n + 1 PROVE Stored'[i] \in Chat
      <4>1. CASE i \in 1 .. n
        BY <1>6, <2>1, <4>1
      <4>2. CASE i = n + 1
        BY <1>7, <4>2
      <4> QED
        BY <1>1, <4>1, <4>2
    <3>2. Stored' = [i \in 1 .. n + 1 |-> Stored'[i]]
      BY <1>8 DEF Stored
    <3> QED
      BY <3>1, <3>2
  <2> DEFINE q == Stored'
  <2>3. q \in [1 .. n + 1 -> Chat] /\ n + 1 \in Nat
    BY <1>1, <2>2
  <2> HIDE DEF q
  <2>4. q \in Seq(Chat)
    BY <2>3
  <2> QED
    BY <2>4 DEF q
<1>10. Len(Stored) = n /\ Len(Stored') = n + 1
  BY <1>1, <1>8, <1>9, LenProperties
<1> DEFINE a == Stored
           b == Stored'
           c == Append(a, chat)
<1>11. /\ c \in Seq(Chat) /\ Len(c) = n + 1 /\ c[n + 1] = chat
       /\ \A i \in 1 .. n : c[i] = a[i]
  BY <1>1, <1>10, AppendProperties
<1>12. /\ b \in Seq(Chat) /\ Len(b) = n + 1 /\ b[n + 1] = chat
       /\ \A i \in 1 .. n : b[i] = a[i]
  BY <1>6, <1>7, <1>9, <1>10
<1> HIDE DEF a, b, c
<1>13. \A i \in 1 .. n + 1 : b[i] = c[i]
  <2> SUFFICES ASSUME NEW i \in 1 .. n + 1 PROVE b[i] = c[i]
    OBVIOUS
  <2>1. i \in 1 .. n \/ i = n + 1
    BY <1>1
  <2> QED
    BY <1>11, <1>12, <2>1
<1>14. b = c
  BY <1>11, <1>12, <1>13, SeqEqual
<1> QED
  BY <1>14 DEF a, b, c

LEMMA ToStoreRead ==
  ASSUME NEW reqs \in Seq(Request), NEW saves, saves = OfType(reqs, {"save_message"}),
         NEW chats, chats = [i \in DOMAIN saves |-> saves[i].chat]
  PROVE  /\ saves \in Seq(SaveMessageRequest)
         /\ chats = Mapped(saves, [r \in SaveMessageRequest |-> r.chat])
         /\ chats \in Seq(Chat)
<1> DEFINE g == [r \in SaveMessageRequest |-> r.chat]
<1>1. {r \in Request : r.type \in {"save_message"}} \subseteq SaveMessageRequest
  BY DEF Request, JoinRequest, SaveMessageRequest, SavePictureRequest, GetPictureRequest,
     ShutdownRequest, Join
<1>2. saves \in Seq({r \in Request : r.type \in {"save_message"}})
  BY OfTypeTyped
<1>3. saves \in Seq(SaveMessageRequest)
  BY <1>1, <1>2, SeqMonotonic
<1>4. \A i \in DOMAIN saves : saves[i] \in SaveMessageRequest
  BY <1>3, LenProperties, ElementOfSeq
<1>5. chats = Mapped(saves, g)
  BY <1>4 DEF Mapped
<1>6. \A r \in SaveMessageRequest : g[r] \in Chat
  BY DEF SaveMessageRequest
<1> HIDE DEF g
<1>7. Mapped(saves, g) \in Seq(Chat)
  BY <1>3, <1>6, MappedTyped
<1> QED
  BY <1>3, <1>5, <1>7 DEF g

LEMMA SaidInit == Init => SavedAsSaid
<1> SUFFICES ASSUME Init PROVE SavedAsSaid
  OBVIOUS
<1>1. requests = <<>> /\ messages = <<>> /\ log = <<>>
  BY DEF Init, DatabaseInit
<1>2. SavesQueued = <<>>
  BY <1>1, OfTypeEmpty DEF SavesQueued
<1>3. Stored = <<>> /\ ToStore = <<>>
  BY <1>1, <1>2, EmptySeq DEF Stored, ToStore
<1>4. <<>> \o <<>> = <<>>
  BY EmptySeq, ConcatEmptySeq
<1> QED
  BY <1>1, <1>3, <1>4 DEF SavedAsSaid, Stored, ToStore

LEMMA SaidStep ==
  ASSUME LookupMayFail = FALSE, WriteMayFail = FALSE,
         Inv, Talk, Known, SavedAsSaid, [Next]_vars
  PROVE  SavedAsSaid'
<1> DEFINE g == [r \in SaveMessageRequest |-> r.chat]
           stored == Stored
           queued == ToStore
           saves == SavesQueued
           saves2 == SavesQueued'
           queued2 == ToStore'
<1>1. /\ saves \in Seq(SaveMessageRequest) /\ queued = Mapped(saves, g) /\ queued \in Seq(Chat)
      /\ stored \in Seq(Chat)
      /\ stored \o queued = log
  <2>1. requests \in Seq(Request)
    BY DEF Inv, TypeOK, DatabaseTypeOK
  <2>2. saves = OfType(requests, {"save_message"})
        /\ queued = [i \in DOMAIN saves |-> saves[i].chat]
    BY DEF SavesQueued, ToStore
  <2> HIDE DEF saves, queued
  <2> QED
    BY <2>1, <2>2, ToStoreRead, StoredRead DEF SavedAsSaid, Stored, ToStore, saves, queued
<1>2. /\ saves2 \in Seq(SaveMessageRequest) /\ queued2 = Mapped(saves2, g)
      /\ queued2 \in Seq(Chat)
  <2>1. requests' \in Seq(Request)
    BY InvStep DEF Inv, TypeOK, DatabaseTypeOK
  <2>2. saves2 = OfType(requests', {"save_message"})
        /\ queued2 = [i \in DOMAIN saves2 |-> saves2[i].chat]
    BY DEF SavesQueued, ToStore
  <2> HIDE DEF saves2, queued2
  <2> QED
    BY <2>1, <2>2, ToStoreRead
<1>3. SUFFICES Stored' \o queued2 = log'
  BY DEF SavedAsSaid, Stored, ToStore
<1>4. \A save \in SaveMessageRequest : g[save] = save.chat /\ save.chat \in Chat
  BY DEF SaveMessageRequest
<1>5. uiChat \in Chat =>
        /\ MessageSaveRequest(uiChat) \in SaveMessageRequest
        /\ g[MessageSaveRequest(uiChat)] = uiChat
  BY DEF MessageSaveRequest, SaveMessageRequest
<1> HIDE DEF g, saves, saves2, stored, queued, queued2
<1>6. CASE UNCHANGED <<messages, log>> /\ saves2 = saves
  <2>1. Stored' = stored
    BY <1>6, StoredKept DEF stored
  <2> QED
    BY <1>1, <1>2, <1>6, <2>1
<1>7. CASE /\ uiChat \in Chat /\ UNCHANGED messages /\ log' = Append(log, uiChat)
           /\ saves2 = Append(saves, MessageSaveRequest(uiChat))
  <2>1. Stored' = stored
    BY <1>7, StoredKept DEF stored
  <2>2. queued2 = Append(queued, uiChat)
    BY <1>1, <1>2, <1>5, <1>7, MappedAppend
  <2>3. stored \o Append(queued, uiChat) = Append(stored \o queued, uiChat)
    BY <1>1, <1>7, AppendConcat
  <2> QED
    BY <1>1, <1>7, <2>1, <2>2, <2>3
<1>8. ASSUME NEW save \in SaveMessageRequest, UNCHANGED log, saves = <<save>> \o saves2,
             NEW id \in DOMAIN users, users[id].name = save.chat.sender,
             messages' = Append(messages, [id |-> id, text |-> save.chat.text])
      PROVE  Stored' \o queued2 = log'
  <2>1. Stored' = Append(stored, save.chat)
    BY <1>4, <1>8, StoredGrows DEF stored
  <2> DEFINE one == <<save>>
             chat == save.chat
  <2>2. one \in Seq(SaveMessageRequest) /\ Mapped(one, g) = <<chat>> /\ saves = one \o saves2
    BY <1>4, <1>8 DEF Mapped
  <2>3. chat \in Chat /\ Stored' = Append(stored, chat)
    BY <1>4, <2>1
  <2> HIDE DEF one, chat
  <2>4. queued = <<chat>> \o queued2
    <3>1. Mapped(one \o saves2, g) = Mapped(one, g) \o Mapped(saves2, g)
      <4>1. one \in Seq(SaveMessageRequest) /\ saves2 \in Seq(SaveMessageRequest)
        BY <1>2, <2>2
      <4> QED
        BY <4>1, MappedConcat
    <3> QED
      BY <1>1, <1>2, <2>2, <3>1
  <2>5. stored \o (<<chat>> \o queued2) = Append(stored, chat) \o queued2
    <3>1. <<chat>> \in Seq(Chat)
      BY <2>3
    <3>2. stored \o (<<chat>> \o queued2) = (stored \o <<chat>>) \o queued2
      BY <1>1, <1>2, <3>1, ConcatAssociative
    <3>3. stored \o <<chat>> = Append(stored, chat)
      BY <1>1, <2>3, AppendIsConcat
    <3> QED
      BY <3>2, <3>3
  <2> QED
    BY <1>1, <1>8, <2>3, <2>4, <2>5
<1>9. ASSUME NEW save \in SaveMessageRequest, saves = <<save>> \o saves2
      PROVE  save.chat.sender \in Listed
  <2>1. saves \in Seq([type : {"save_message"}, chat : KnownChat])
    BY DEF saves, Known, SendersKnown
  <2>2. save \in [type : {"save_message"}, chat : KnownChat]
    BY <1>2, <1>9, <2>1, FirstAndRest
  <2> QED
    BY <2>2 DEF KnownChat
<1>10. \/ UNCHANGED <<messages, log>> /\ saves2 = saves
       \/ /\ uiChat \in Chat /\ UNCHANGED messages /\ log' = Append(log, uiChat)
          /\ saves2 = Append(saves, MessageSaveRequest(uiChat))
       \/ \E save \in SaveMessageRequest :
            /\ UNCHANGED log
            /\ saves = <<save>> \o saves2
            /\ \E id \in DOMAIN users :
                 /\ users[id].name = save.chat.sender
                 /\ messages' = Append(messages, [id |-> id, text |-> save.chat.text])
  BY <1>9, SavesStep DEF saves, saves2
<1> QED
  BY <1>6, <1>7, <1>8, <1>10

\* The chats said are stored completely and in the order in which the members
\* hear them, each under its sender: broadcast tells the members and hands the
\* chat to the database in one critical section, the queue keeps its order, and
\* a sender has an account before its first chat is read.  A lookup or a write
\* that fails loses a chat, and the code tells nobody, so neither may.
THEOREM ChatsAreSaved ==
  ASSUME LookupMayFail = FALSE, WriteMayFail = FALSE PROVE Spec => []SavedAsSaid
<1>1. Inv /\ Talk /\ Known /\ SavedAsSaid /\ [Next]_vars => SavedAsSaid'
  BY SaidStep
<1> QED
  BY <1>1, SaidInit, ServerInvariant, TalkInvariant, KnownInvariant, PTL DEF Spec

\* The registered names stay unique while sessions, the interface and the
\* database run side by side: the request is served in one step, and the only
\* writer is the database thread.
THEOREM AccountsStayUnique ==
  ASSUME LookupMayFail = FALSE PROVE Spec => []UniqueUsernames
<1>1. Init => UniqueUsernames
  BY DatabaseAssumption DEF Init, DatabaseInit, UniqueUsernames
<1>2. Inv /\ UniqueUsernames /\ [Next]_vars => UniqueUsernames'
  <2> SUFFICES ASSUME Inv, UniqueUsernames, [Next]_vars PROVE UniqueUsernames'
    OBVIOUS
  <2>1. CASE UNCHANGED users
    BY <2>1 DEF UniqueUsernames
  <2>2. CASE RunDatabase /\ ~UNCHANGED users
    <3>1. DatabaseTypeOK /\ DatabaseThread
      BY <2>2 DEF Inv, TypeOK, RunDatabase
    <3>2. PICK u \in Users, p \in Passwords :
            RowsOf(u) = {} /\ users' = Append(users, [name |-> u, password |-> p])
      BY <2>2, <3>1, UsersServed
    <3> QED
      BY <3>1, <3>2, NameAdded
  <2> QED
    BY <2>1, <2>2, TablesKept
<1> QED
  BY <1>1, <1>2, ServerInvariant, PTL DEF Spec

\* The table of the server's database is the account book, too: that sessions
\* and interface ask while the thread serves changes no account, and failing
\* lookups and insertions change none either.
THEOREM ServerKeepsAccounts == Spec => AccountsSpec
<1>1. Init => Accounts!Init
  <2>1. Init => DatabaseTypeOK /\ UniqueUsernames
    BY InvInit, DatabaseAssumption DEF Inv, TypeOK, Init, DatabaseInit, UniqueUsernames
  <2> QED
    BY <2>1, BookBegins
<1>2. Inv /\ [Next]_vars => [Accounts!Next]_Book
  <2> SUFFICES ASSUME Inv, [Next]_vars PROVE [Accounts!Next]_Book
    OBVIOUS
  <2>1. DatabaseTypeOK
    BY DEF Inv, TypeOK
  <2>2. CASE UNCHANGED users
    BY <2>1, <2>2, BookStep
  <2>3. CASE RunDatabase
    BY <2>1, <2>3, UsersServed, BookStep DEF RunDatabase
  <2> QED
    BY <2>2, <2>3, TablesKept
<1> QED
  BY <1>1, <1>2, BookSpec, ServerInvariant, PTL DEF Spec

-----------------------------------------------------------------------------
(* The way of a picture to a member.  A picture owed to s is behind the ask *)
(* of s, or its answer, in the queues, so that s is a member, or will never *)
(* be one, when the picture is sent.                                        *)

\* What is added and asks nothing for s moves no ask of s.
LEMMA AsksGrown ==
  ASSUME NEW S, NEW queue \in Seq(S), NEW more \in Seq(S), NEW s, AsksBy(more, s) = {}
  PROVE  AsksBy(queue \o more, s) = AsksBy(queue, s)
<1> DEFINE all == queue \o more
           n == Len(queue)
           m == Len(more)
<1>1. /\ DOMAIN queue = 1 .. n /\ DOMAIN more = 1 .. m /\ n \in Nat /\ m \in Nat
      /\ DOMAIN all = 1 .. n + m
      /\ \A i \in 1 .. n + m : all[i] = IF i <= n THEN queue[i] ELSE more[i - n]
  BY ConcatProperties, LenProperties
<1> HIDE DEF all, n, m
<1>2. \A i \in DOMAIN queue : i \in DOMAIN all /\ all[i] = queue[i]
  BY <1>1
<1>3. ASSUME NEW i \in DOMAIN all
      PROVE  i \in DOMAIN queue \/ \E j \in DOMAIN more : all[i] = more[j]
  <2>1. CASE i <= n
    BY <1>1, <2>1
  <2>2. CASE i > n
    <3>1. i - n \in DOMAIN more /\ all[i] = more[i - n]
      BY <1>1, <2>2
    <3> QED
      BY <3>1
  <2> QED
    BY <1>1, <2>1, <2>2
<1>4. \A j \in DOMAIN more : ~(IsAsk(more[j]) /\ more[j].by = s)
  BY DEF AsksBy
<1>5. AsksBy(all, s) = AsksBy(queue, s)
  BY <1>2, <1>3, <1>4 DEF AsksBy
<1> QED
  BY <1>5 DEF all

\* Taking the front moves the asks forward.
LEMMA AsksShifted ==
  ASSUME NEW S, NEW queue \in Seq(S), queue # <<>>, NEW s, NEW i \in Nat \ {0},
         AsksBy(queue, s) \subseteq 1 .. i
  PROVE  AsksBy(Tail(queue), s) \subseteq 1 .. i - 1
<1> DEFINE rest == Tail(queue)
           n == Len(queue)
<1>1. /\ DOMAIN queue = 1 .. n /\ n \in Nat \ {0}
      /\ DOMAIN rest = 1 .. n - 1
      /\ \A j \in 1 .. n - 1 : rest[j] = queue[j + 1]
  BY HeadTailProperties, EmptySeq, LenProperties
<1> HIDE DEF rest, n
<1>2. ASSUME NEW j \in AsksBy(rest, s) PROVE j \in 1 .. i - 1
  <2>1. j \in 1 .. n - 1 /\ rest[j] = queue[j + 1] /\ j + 1 \in DOMAIN queue
    BY <1>1 DEF AsksBy
  <2>2. j + 1 \in AsksBy(queue, s)
    BY <2>1 DEF AsksBy
  <2>3. j + 1 \in 1 .. i
    BY <2>2
  <2> QED
    BY <1>1, <2>1, <2>3
<1> QED
  BY <1>2 DEF rest

\* Only the session itself asks to join, and it has done so.
LEMMA RequestsGrow ==
  ASSUME Inv, [Next]_vars, ~RunDatabase, NEW s \in Sessions, lines[s] > 0
  PROVE  \E more \in Seq(Request) : requests' = requests \o more /\ AsksBy(more, s) = {}
<1>1. requests \in Seq(Request)
  BY DEF Inv, TypeOK, DatabaseTypeOK
<1>2. ASSUME NEW r \in Request, requests' = requests \o <<r>>, IsAsk(r) => r.by # s
      PROVE  \E more \in Seq(Request) : requests' = requests \o more /\ AsksBy(more, s) = {}
  <2>1. <<r>> \in Seq(Request) /\ AsksBy(<<r>>, s) = {}
    BY <1>2 DEF AsksBy
  <2> QED
    BY <1>2, <2>1
<1>3. CASE requests' = requests
  <2>1. <<>> \in Seq(Request) /\ requests \o <<>> = requests
    BY <1>1, EmptySeq, ConcatEmptySeq
  <2>2. AsksBy(<<>>, s) = {}
    BY EmptySeq DEF AsksBy
  <2> QED
    BY <1>3, <2>1, <2>2
<1>4. ASSUME NEW t \in Sessions, ReadJoin(t)
      PROVE  \E r \in Request : requests' = requests \o <<r>> /\ (IsAsk(r) => r.by # s)
  <2>1. lines[t] = 0
    BY <1>4 DEF ReadJoin
  <2>2. PICK join \in Joins : join.by = t /\ Submit(<<join>>)
    BY <1>4 DEF ReadJoin
  <2>3. join \in Request /\ t # s
    BY <2>1, ServerAssumption DEF Request
  <2> QED
    BY <2>2, <2>3 DEF Submit
<1>5. ASSUME NEW t \in Sessions, ReadPicture(t)
      PROVE  \E r \in Request : requests' = requests \o <<r>> /\ ~IsAsk(r)
  <2>1. lines[t] = 1
    BY <1>5 DEF ReadPicture
  <2>2. name[t] \in Users
    BY <2>1 DEF Inv, Named
  <2>3. PICK content \in Pixels \cup {NoPixels} :
          Submit(<<ProfilePictureSaveRequest(name[t], content)>>)
    BY <1>5 DEF ReadPicture
  <2>4. ProfilePictureSaveRequest(name[t], content) \in Request
        /\ ~IsAsk(ProfilePictureSaveRequest(name[t], content))
    BY <2>2 DEF ProfilePictureSaveRequest, Request, SavePictureRequest, IsAsk, Join, Verdict
  <2> QED
    BY <2>3, <2>4 DEF Submit
<1>6. ASSUME Broadcast
      PROVE  \E r \in Request : requests' = requests \o <<r>> /\ ~IsAsk(r)
  <2>1. uiChat \in Chat
    BY <1>6 DEF Broadcast, UiAt, Inv, UiPlaces
  <2>2. MessageSaveRequest(uiChat) \in Request /\ ~IsAsk(MessageSaveRequest(uiChat))
    BY <2>1 DEF MessageSaveRequest, Request, SaveMessageRequest, IsAsk, Join, Verdict
  <2> QED
    BY <1>6, <2>2 DEF Broadcast, Submit
<1>7. CASE OnClientAccept
  <2>1. uiSession \in Sessions /\ lines[uiSession] > 0
    BY <1>7, ProtocolAssumption DEF OnClientAccept, UiAt, Inv, UiPlaces, Joined
  <2>2. PICK members \in SetToSeqs(sessions) : Submit(PictureRequests(members, uiSession))
    BY <1>7 DEF OnClientAccept
  <2> DEFINE more == PictureRequests(members, uiSession)
  <2>3. more \in Seq(Request)
    BY <2>1, PictureRequestsTyped
  <2>4. \A i \in DOMAIN more : more[i].type = "get_picture"
    BY DEF PictureRequests, UserProfilePictureRequest
  <2>5. requests' = requests \o more
    BY <2>2 DEF Submit
  <2> HIDE DEF more
  <2>6. AsksBy(more, s) = {}
    BY <2>4 DEF AsksBy, IsAsk, Join, Verdict
  <2> QED
    BY <2>3, <2>5, <2>6
<1>8. CASE UiThread /\ ~OnClientAccept /\ ~Broadcast
  <2>1. requests' = requests
    BY <1>8 DEF UiThread, PopResponse, HandleProfilePictureDataRequest, HandlePendingSessions,
       IsUserConnected, PopInbox, OnUpdateClients, Render, KickUser, dbVars
  <2> QED
    BY <1>3, <2>1
<1>9. CASE \/ EraseSession \/ Leave \/ UNCHANGED vars
           \/ \E t \in Sessions : \/ Accepted(t) \/ ReadChat(t) \/ ReadEof(t) \/ ReadFailed(t)
                                  \/ Written(t) \/ WriteFailed(t) \/ Disconnected(t)
  <2>1. requests' = requests
    BY <1>9 DEF EraseSession, Leave, vars, Accepted, ReadChat, ReadEof, ReadFailed, Written,
       WriteFailed, Disconnected, SessionAlone, dbVars
  <2> QED
    BY <1>3, <2>1
<1> QED
  BY <1>2, <1>4, <1>5, <1>6, <1>7, <1>8, <1>9 DEF Next, NetworkThread

-----------------------------------------------------------------------------
\* What is there of the tables stays while the database thread rests.
LEMMA PictureApart ==
  ASSUME requests \in Seq(Request), NEW more \in Seq(Request), requests' = requests \o more,
         UNCHANGED <<users, pictures>>, NEW u, NEW n \in 0 .. Len(requests), PictureAfter(u, n)
  PROVE  PictureAfter(u, n)'
<1>1. \A i \in 1 .. n : requests'[i] = requests[i]
  BY ConcatProperties, LenProperties
<1>2. \A m \in 0 .. n : HasRowAfter(u, m) => HasRowAfter(u, m)'
  BY <1>1, LenProperties DEF HasRowAfter, RowsOf
<1>3. n \in Nat
  BY LenProperties
<1>4. \A i \in 1 .. n : i - 1 \in 0 .. n
  BY <1>3
<1> QED
  BY <1>1, <1>2, <1>4 DEF PictureAfter

\* The queue when its front was served.
LEMMA QueueShifted ==
  ASSUME DatabaseTypeOK, Serve
  PROVE  /\ requests # <<>>
         /\ requests' = Tail(requests)
              \/ \E r \in GetPictureRequest : requests' = Append(Tail(requests), r)
<1> DEFINE r == Head(requests)
<1>1. requests # <<>> /\ r \in Request
  BY RequestTaken DEF Serve
<1>2. r.type = "save_picture" => r \in SavePictureRequest
  BY <1>1 DEF Request, JoinRequest, SaveMessageRequest, SavePictureRequest,
     GetPictureRequest, ShutdownRequest, Join
<1> HIDE DEF r
<1>3. CASE HandleSavePicture(r)
  <2>1. UserProfilePictureRequest(r.name, r.name) \in GetPictureRequest
    BY <1>2, <1>3
    DEF HandleSavePicture, SavePictureRequest, UserProfilePictureRequest, GetPictureRequest
  <2> QED
    BY <1>1, <1>3, <2>1 DEF HandleSavePicture
<1>4. CASE ~HandleSavePicture(r)
  BY <1>1, <1>4 DEF Serve, HandleLogin, HandleRegister, HandleSaveMessage, HandleGetPicture,
     HandleShutdown, r
<1> QED
  BY <1>1, <1>3, <1>4

\* Each request but the first is one place further on.
LEMMA QueueShiftedAt ==
  ASSUME DatabaseTypeOK, Serve
  PROVE  /\ \A i \in 1 .. Len(requests) - 1 :
               i \in DOMAIN requests' /\ requests'[i] = requests[i + 1]
         /\ requests' \in Seq(Request)
<1> DEFINE rest == Tail(requests)
           n == Len(requests) - 1
<1>1. /\ rest \in Seq(Request) /\ n \in Nat /\ DOMAIN rest = 1 .. n
      /\ \A i \in 1 .. n : rest[i] = requests[i + 1]
      /\ requests' = rest \/ \E r \in GetPictureRequest : requests' = Append(rest, r)
  BY QueueShifted, RequestTaken
<1> HIDE DEF rest, n
<1>2. ASSUME NEW r \in GetPictureRequest
      PROVE  /\ Append(rest, r) \in Seq(Request)
             /\ \A i \in 1 .. n : i \in DOMAIN Append(rest, r) /\ Append(rest, r)[i] = rest[i]
  <2>1. r \in Request
    BY DEF Request
  <2>2. Len(rest) = n
    BY <1>1, LenProperties
  <2> QED
    BY <1>1, <2>1, <2>2, AppendProperties, LenProperties
<1>3. CASE requests' = rest
  BY <1>1, <1>3 DEF n
<1>4. ASSUME NEW r \in GetPictureRequest, requests' = Append(rest, r)
      PROVE  /\ \A i \in 1 .. n : i \in DOMAIN requests' /\ requests'[i] = requests[i + 1]
             /\ requests' \in Seq(Request)
  BY <1>1, <1>2, <1>4
<1> QED
  BY <1>1, <1>3, <1>4 DEF n

\* A name that is registered has a row, then or before.
LEMMA RegisterServed ==
  ASSUME WriteMayFail = FALSE, DatabaseTypeOK, Serve,
         NEW u, Head(requests).type = "register", Head(requests).name = u
  PROVE  RowsOf(u) # {} \/ RowsOf(u)' # {}
<1> DEFINE r == Head(requests)
<1>1. HandleRegister(r)
  BY DEF Serve, HandleLogin, HandleSaveMessage, HandleSavePicture, HandleGetPicture,
     HandleShutdown
<1>2. r \in JoinRequest
  <2>1. r \in Request
    BY RequestTaken DEF Serve
  <2> QED
    BY <2>1 DEF Request, JoinRequest, SaveMessageRequest, SavePictureRequest,
       GetPictureRequest, ShutdownRequest
<1> HIDE DEF r
<1>3. PICK id \in UserId(r.name) :
        id = 0 => users' = Append(users, [name |-> r.name, password |-> r.password])
  BY <1>1 DEF HandleRegister, WriteSucceeds
<1>4. CASE id # 0
  BY <1>4, UserIdProperties DEF IsFirstRow, r
<1>5. CASE id = 0
  <2>1. [name |-> r.name, password |-> r.password] \in UserRow
    BY <1>2 DEF JoinRequest, UserRow
  <2>2. /\ Len(users) + 1 \in DOMAIN users'
        /\ users'[Len(users) + 1].name = r.name
    BY <1>3, <1>5, <2>1, RowAdded
  <2> QED
    BY <2>2 DEF RowsOf, r
<1> QED
  BY <1>4, <1>5

\* A picture to be stored when the first n requests have been served is to be
\* stored when the first of them has been served and n - 1 are left.
LEMMA PictureServed ==
  ASSUME LookupMayFail = FALSE, WriteMayFail = FALSE, DatabaseTypeOK, Serve,
         NEW u, NEW n \in 0 .. Len(requests), PictureAfter(u, n)
  PROVE  PictureAfter(u, n - 1)'
<1> DEFINE r == Head(requests)
<1>1. /\ \A i \in 1 .. n - 1 : requests'[i] = requests[i + 1]
      /\ n \in Nat /\ Len(requests) \in Nat
      /\ r = requests[1]
  BY QueueShiftedAt, RequestTaken DEF Serve
<1>2. /\ DOMAIN users \subseteq DOMAIN users'
      /\ \A i \in DOMAIN users : users'[i] = users[i]
  BY RowsServed DEF DatabaseThread
<1>3. RowsOf(u) # {} => RowsOf(u)' # {}
  BY <1>2 DEF RowsOf
<1>4. ASSUME NEW m \in 0 .. n, HasRowAfter(u, m) PROVE HasRowAfter(u, m - 1)'
  <2>1. CASE RowsOf(u) # {}
    BY <1>3, <2>1 DEF HasRowAfter
  <2>2. ASSUME NEW i \in 1 .. m, requests[i].type = "register", requests[i].name = u
        PROVE  HasRowAfter(u, m - 1)'
    <3>1. CASE i = 1
      <4>1. RowsOf(u)' # {}
        BY <1>1, <1>3, <2>2, <3>1, RegisterServed
      <4> QED
        BY <4>1 DEF HasRowAfter
    <3>2. CASE i # 1
      <4>1. i - 1 \in 1 .. m - 1 /\ i - 1 \in 1 .. n - 1 /\ (i - 1) + 1 = i
        BY <1>1, <3>2
      <4>2. requests'[i - 1] = requests[i]
        BY <1>1, <4>1
      <4> QED
        BY <2>2, <4>1, <4>2 DEF HasRowAfter
    <3> QED
      BY <3>1, <3>2
  <2> QED
    BY <1>4, <2>1, <2>2 DEF HasRowAfter
<1>5. ASSUME NEW i \in DOMAIN pictures, users[i].name = u PROVE PictureAfter(u, n - 1)'
  <2>1. i \in DOMAIN pictures'
    BY <1>5 DEF Serve, HandleLogin, HandleRegister, HandleSaveMessage, HandleSavePicture,
       HandleGetPicture, HandleShutdown
  <2>2. users'[i].name = u
    BY <1>2, <1>5 DEF DatabaseTypeOK
  <2> QED
    BY <2>1, <2>2 DEF PictureAfter
<1>6. ASSUME NEW i \in 1 .. n, requests[i].type = "save_picture", requests[i].name = u,
             requests[i].content # NoPixels, HasRowAfter(u, i - 1)
      PROVE  PictureAfter(u, n - 1)'
  <2>1. CASE i = 1
    <3>1. RowsOf(u) # {}
      BY <1>6, <2>1 DEF HasRowAfter
    <3>2. HandleSavePicture(r) /\ r.name = u /\ r.content # NoPixels
      BY <1>1, <1>6, <2>1 DEF Serve, HandleLogin, HandleRegister, HandleSaveMessage,
         HandleGetPicture, HandleShutdown, Join
    <3>3. PICK id \in UserId(u) :
            pictures' = IF id # 0
                        THEN [j \in DOMAIN pictures \cup {id} |->
                                IF j = id THEN r.content ELSE pictures[j]]
                        ELSE pictures
      BY <3>2 DEF HandleSavePicture, WriteSucceeds
    <3>4. id \in RowsOf(u) /\ id # 0
      BY <3>1, UserIdProperties DEF IsFirstRow
    <3>5. id \in DOMAIN pictures' /\ users'[id].name = u
      BY <1>2, <3>3, <3>4 DEF RowsOf
    <3> QED
      BY <3>5 DEF PictureAfter
  <2>2. CASE i # 1
    <3>1. i - 1 \in 1 .. n - 1 /\ (i - 1) + 1 = i /\ i - 1 \in 0 .. n
      BY <1>1, <2>2
    <3>2. requests'[i - 1] = requests[i]
      BY <1>1, <3>1
    <3>3. HasRowAfter(u, (i - 1) - 1)'
      BY <1>4, <1>6, <3>1
    <3> QED
      BY <1>6, <3>1, <3>2, <3>3 DEF PictureAfter
  <2> QED
    BY <2>1, <2>2
<1> QED
  BY <1>5, <1>6 DEF PictureAfter

Stores(u) == \E i \in DOMAIN pictures : users[i].name = u

\* A picture that is stored is found.
LEMMA GetServed ==
  ASSUME LookupMayFail = FALSE, DatabaseTypeOK, UniqueUsernames, Serve, NEW u, NEW v,
         Head(requests).type = "get_picture", Head(requests).name = u,
         Head(requests).recipient = v, Stores(u)
  PROVE  /\ requests' = Tail(requests)
         /\ \E a \in PictureAnswer : /\ a.name = u /\ a.recipient = v
                                     /\ responses' = Append(responses, a)
<1> DEFINE r == Head(requests)
<1>1. HandleGetPicture(r)
  BY DEF Serve, HandleLogin, HandleRegister, HandleSaveMessage, HandleSavePicture,
     HandleShutdown, Join
<1>2. r \in GetPictureRequest
  <2>1. r \in Request
    BY RequestTaken DEF Serve
  <2> QED
    BY <2>1 DEF Request, JoinRequest, SaveMessageRequest, SavePictureRequest,
       GetPictureRequest, ShutdownRequest, Join
<1>3. r.name = u /\ r.recipient = v
  OBVIOUS
<1> HIDE DEF r
<1>4. PICK i \in DOMAIN pictures : users[i].name = u
  BY DEF Stores
<1>5. PICK id \in UserId(u) :
        IF id \in DOMAIN pictures
        THEN Reply([type |-> "picture", name |-> u, content |-> pictures[id], recipient |-> v])
        ELSE UNCHANGED responses
  BY <1>1, <1>3 DEF HandleGetPicture
<1>6. id = i
  <2>1. i \in DOMAIN users /\ RowsOf(u) # {}
    BY <1>4 DEF DatabaseTypeOK, RowsOf
  <2>2. id \in RowsOf(u)
    BY <2>1, UserIdProperties DEF IsFirstRow
  <2> QED
    BY <1>4, <2>1, <2>2 DEF RowsOf, UniqueUsernames
<1> DEFINE a == [type |-> "picture", name |-> u, content |-> pictures[i], recipient |-> v]
<1>7. a \in PictureAnswer /\ a.name = u /\ a.recipient = v
  BY <1>2, <1>3, <1>4 DEF GetPictureRequest, PictureAnswer, DatabaseTypeOK
<1>8. responses' = Append(responses, a)
  BY <1>4, <1>5, <1>6 DEF Reply
<1>9. requests' = Tail(requests)
  BY <1>1 DEF HandleGetPicture
<1> HIDE DEF a
<1> QED
  BY <1>7, <1>8, <1>9

\* s cannot become a member any more.
Gone(s) == s \notin sessions /\ uiSession # s /\ \A u \in Users : pending[u] # s

Delivered(s, u) == \E i \in Lines(s, {"picture"}) : Posted(s)[i].name = u

\* A request that has the picture of u found for the session named v, or will
\* be turned into one.
IsGet(r, u, v) ==
    \/ r.type = "get_picture" /\ r.name = u /\ r.recipient = v
    \/ r.type = "save_picture" /\ r.content = NoPixels /\ r.name = u /\ v = u

\* The picture of u is on its way to s: requested behind the ask of s and the
\* request to store it, answered behind the answer to s, or being sent.
Requested(s, u) ==
    \E i \in DOMAIN requests :
        /\ IsGet(requests[i], u, name[s])
        /\ PictureAfter(u, i - 1)
        /\ AsksBy(requests, s) \subseteq 1 .. i

IsPicture(a, u, v) == a.type = "picture" /\ a.name = u /\ a.recipient = v

Replied(s, u) ==
    /\ AsksBy(requests, s) = {}
    /\ \E i \in DOMAIN responses :
         IsPicture(responses[i], u, name[s]) /\ AsksBy(responses, s) \subseteq 1 .. i

Taken(s, u) == uiPc = "picture" /\ IsPicture(uiAnswer, u, name[s]) /\ ~Asking(s)

Arranged(s, u) ==
    Gone(s) \/ Delivered(s, u) \/ Requested(s, u) \/ Replied(s, u) \/ Taken(s, u)

PicturesComing ==
    \A pair \in owed : lines[pair[1]] > 0 /\ Arranged(pair[1], pair[2])

\* Who waits has asked, and has an answer to come.
WaitersAsked ==
    \A u \in Users, s \in Sessions : pending[u] = s => Asking(s) \/ Handling(s)

\* Asking for a picture is not asking to join.
LEMMA AsksUnmoved ==
  ASSUME NEW queue \in Seq(Request), NEW r \in GetPictureRequest, NEW s
  PROVE  AsksBy(Append(queue, r), s) = AsksBy(queue, s)
<1>1. r \in Request /\ ~IsAsk(r)
  BY DEF GetPictureRequest, Request, IsAsk, Join, Verdict
<1>2. AsksBy(Append(queue, r), s) =
        AsksBy(queue, s) \cup (IF IsAsk(r) /\ r.by = s THEN {Len(queue) + 1} ELSE {})
  BY <1>1, AsksAppend
<1> QED
  BY <1>1, <1>2

\* While the database thread rests, requests stay where they are.
LEMMA RequestedApart ==
  ASSUME Inv, [Next]_vars, ~RunDatabase, NEW s \in Sessions, lines[s] > 0,
         name'[s] = name[s], NEW u, Requested(s, u)
  PROVE  Requested(s, u)'
<1>1. requests \in Seq(Request)
  BY DEF Inv, TypeOK, DatabaseTypeOK
<1>2. PICK more \in Seq(Request) : requests' = requests \o more /\ AsksBy(more, s) = {}
  BY RequestsGrow
<1>3. AsksBy(requests', s) = AsksBy(requests, s)
  BY <1>1, <1>2, AsksGrown
<1>4. PICK i \in DOMAIN requests :
        /\ IsGet(requests[i], u, name[s])
        /\ PictureAfter(u, i - 1)
        /\ AsksBy(requests, s) \subseteq 1 .. i
  BY DEF Requested
<1>5. i \in DOMAIN requests' /\ requests'[i] = requests[i] /\ i - 1 \in 0 .. Len(requests)
  BY <1>1, <1>2, ConcatProperties, LenProperties
<1>6. PictureAfter(u, i - 1)'
  BY <1>1, <1>2, <1>4, <1>5, PictureApart, TablesKept
<1> QED
  BY <1>3, <1>4, <1>5, <1>6 DEF Requested

\* The database thread moves a request on, turns it into one for the stored
\* picture at the end of the queue, or answers it.
LEMMA RequestedServed ==
  ASSUME LookupMayFail = FALSE, WriteMayFail = FALSE, Inv, UniqueUsernames, RunDatabase,
         NEW s \in Sessions, NEW u, Requested(s, u)
  PROVE  Requested(s, u)' \/ Replied(s, u)'
<1>1. /\ DatabaseTypeOK /\ requests \in Seq(Request) /\ responses \in Seq(Response)
      /\ name' = name
  BY DEF Inv, TypeOK, DatabaseTypeOK, RunDatabase, sessionVars
<1>2. PICK i \in DOMAIN requests :
        /\ IsGet(requests[i], u, name[s])
        /\ PictureAfter(u, i - 1)
        /\ AsksBy(requests, s) \subseteq 1 .. i
  BY DEF Requested
<1>3. CASE Start
  <2>1. UNCHANGED <<requests, users, pictures>>
    BY <1>3 DEF Start
  <2>2. PictureAfter(u, i - 1)'
    BY <1>2, <2>1 DEF PictureAfter, HasRowAfter, RowsOf
  <2>3. AsksBy(requests', s) = AsksBy(requests, s)
    BY <2>1
  <2> QED
    BY <1>1, <1>2, <2>1, <2>2, <2>3 DEF Requested
<1>4. CASE Serve
  <2> DEFINE rest == Tail(requests)
  <2>1. /\ requests # <<>>
        /\ requests' = rest \/ \E r \in GetPictureRequest : requests' = Append(rest, r)
    BY <1>1, <1>4, QueueShifted
  <2>2. /\ rest \in Seq(Request) /\ Len(rest) = Len(requests) - 1 /\ Len(requests) \in Nat \ {0}
        /\ DOMAIN requests = 1 .. Len(requests) /\ Head(requests) = requests[1]
    BY <1>1, <2>1, HeadTailProperties, LenProperties, EmptySeq
  <2>3. i \in Nat \ {0} /\ i - 1 \in 0 .. Len(requests)
    BY <2>2
  <2>4. AsksBy(rest, s) \subseteq 1 .. i - 1
    BY <1>1, <1>2, <2>1, <2>3, AsksShifted
  <2> HIDE DEF rest
  <2>5. AsksBy(requests', s) \subseteq 1 .. i - 1
    <3>1. ASSUME NEW r \in GetPictureRequest PROVE AsksBy(Append(rest, r), s) = AsksBy(rest, s)
      BY <2>2, AsksUnmoved
    <3>2. AsksBy(requests', s) = AsksBy(rest, s)
      <4>1. ASSUME NEW r \in GetPictureRequest, requests' = Append(rest, r)
            PROVE  AsksBy(requests', s) = AsksBy(rest, s)
        BY <3>1, <4>1
      <4>2. requests' = rest => AsksBy(requests', s) = AsksBy(rest, s)
        OBVIOUS
      <4> QED
        BY <2>1, <4>1, <4>2
    <3> QED
      BY <2>4, <3>2
  <2>6. CASE i # 1
    <3>1. i - 1 \in 1 .. Len(requests) - 1 /\ (i - 1) + 1 = i
      BY <2>2, <2>3, <2>6
    <3>2. i - 1 \in DOMAIN requests' /\ requests'[i - 1] = requests[i]
      BY <1>1, <1>4, <3>1, QueueShiftedAt
    <3>3. PictureAfter(u, (i - 1) - 1)'
      BY <1>1, <1>2, <1>4, <2>3, PictureServed
    <3> QED
      BY <1>1, <1>2, <2>5, <3>2, <3>3 DEF Requested
  <2>7. CASE i = 1
    <3>1. Stores(u)
      BY <1>2, <2>7 DEF PictureAfter, Stores
    <3>2. AsksBy(requests', s) = {}
      BY <2>5, <2>7
    <3>3. CASE requests[1].type = "get_picture"
      <4>1. requests[1].name = u /\ requests[1].recipient = name[s]
        BY <1>2, <2>7, <3>3 DEF IsGet
      <4>2. PICK a \in PictureAnswer : /\ a.name = u /\ a.recipient = name[s]
                                       /\ responses' = Append(responses, a)
        BY <1>1, <1>4, <2>2, <3>1, <3>3, <4>1, GetServed
      <4> DEFINE n == Len(responses) + 1
      <4>3. n \in DOMAIN responses' /\ responses'[n] = a /\ DOMAIN responses' = 1 .. n
        <5>1. a \in Response
          BY DEF Response
        <5> QED
          BY <1>1, <4>2, <5>1, AppendProperties, LenProperties
      <4> HIDE DEF n
      <4>4. AsksBy(responses', s) \subseteq 1 .. n
        BY <4>3 DEF AsksBy
      <4>5. IsPicture(responses'[n], u, name'[s])
        BY <1>1, <4>2, <4>3 DEF IsPicture, PictureAnswer
      <4> QED
        BY <3>2, <4>3, <4>4, <4>5 DEF Replied
    <3>4. CASE requests[1].type # "get_picture"
      <4>1. /\ requests[1].type = "save_picture" /\ requests[1].content = NoPixels
            /\ requests[1].name = u /\ name[s] = u
        BY <1>2, <2>7, <3>4 DEF IsGet
      <4>2. /\ requests' = Append(rest, UserProfilePictureRequest(u, u))
            /\ UNCHANGED <<pictures, users>>
        BY <1>4, <2>2, <4>1 DEF Serve, HandleLogin, HandleRegister, HandleSaveMessage,
           HandleSavePicture, HandleGetPicture, HandleShutdown, Join, rest
      <4>3. requests[1] \in Request
        BY <1>1, <2>2
      <4>4. u \in Users
        BY <4>1, <4>3 DEF Request, JoinRequest, SaveMessageRequest, SavePictureRequest,
           GetPictureRequest, ShutdownRequest, Join
      <4> DEFINE r == UserProfilePictureRequest(u, u)
      <4>10. PICK n \in Nat : n = Len(rest) + 1
        BY <2>2
      <4>5. r \in Request /\ IsGet(r, u, u)
        BY <4>4 DEF UserProfilePictureRequest, Request, GetPictureRequest, IsGet
      <4>6. requests' = Append(rest, r)
        BY <4>2
      <4> HIDE DEF r
      <4>7. n \in DOMAIN requests' /\ requests'[n] = r
        BY <2>2, <4>5, <4>6, <4>10, AppendProperties, LenProperties
      <4>8. PictureAfter(u, n - 1)'
        BY <3>1, <4>2 DEF PictureAfter, Stores
      <4>9. IsGet(requests'[n], u, name'[s])
        BY <1>1, <4>1, <4>5, <4>7
      <4> QED
        BY <3>2, <4>7, <4>8, <4>9 DEF Requested
    <3> QED
      BY <3>3, <3>4
  <2> QED
    BY <2>6, <2>7
<1> QED
  BY <1>3, <1>4 DEF RunDatabase, DatabaseThread

\* The interface thread takes the answer, or one before it.
LEMMA RepliedKept ==
  ASSUME Inv, [Next]_vars, NEW s \in Sessions, lines[s] > 0, name'[s] = name[s],
         NEW u, Replied(s, u)
  PROVE  Replied(s, u)' \/ Taken(s, u)'
<1>1. requests \in Seq(Request) /\ responses \in Seq(Response) /\ DatabaseTypeOK
  BY DEF Inv, TypeOK, DatabaseTypeOK
<1>2. PICK i \in DOMAIN responses :
        IsPicture(responses[i], u, name[s]) /\ AsksBy(responses, s) \subseteq 1 .. i
  BY DEF Replied
<1>3. AsksBy(requests, s) = {}
  BY DEF Replied
<1>4. ASSUME ~RunDatabase PROVE AsksBy(requests', s) = {}
  <2>1. PICK more \in Seq(Request) : requests' = requests \o more /\ AsksBy(more, s) = {}
    BY <1>4, RequestsGrow
  <2> QED
    BY <1>1, <1>3, <2>1, AsksGrown
<1>5. CASE RunDatabase
  <2>1. DatabaseThread
    BY <1>5 DEF RunDatabase
  <2>2. AsksBy(requests', s) = {}
    <3>1. requests' = requests => AsksBy(requests', s) = {}
      BY <1>3
    <3>2. ASSUME requests # <<>> PROVE AsksBy(Tail(requests), s) = {}
      <4>1. AsksBy(Tail(requests), s) \subseteq 1 .. 1 - 1
        BY <1>1, <1>3, <3>2, AsksShifted
      <4> QED
        BY <4>1
    <3>3. ASSUME requests # <<>>, NEW r \in GetPictureRequest, requests' = Append(Tail(requests), r)
          PROVE  AsksBy(requests', s) = {}
      <4> DEFINE rest == Tail(requests)
      <4>1. rest \in Seq(Request) /\ AsksBy(rest, s) = {} /\ requests' = Append(rest, r)
        BY <1>1, <3>2, <3>3, RequestTaken
      <4> HIDE DEF rest
      <4> QED
        BY <4>1, AsksUnmoved
    <3>4. requests # <<>> /\ requests' = Tail(requests) => AsksBy(requests', s) = {}
      BY <3>2
    <3> QED
      BY <1>1, <2>1, <3>1, <3>3, <3>4, QueuesServed
  <2>3. \/ responses' = responses
        \/ \E a \in Response : responses' = Append(responses, a) /\ ~(IsAsk(a) /\ a.by = s)
    <3>1. ASSUME NEW a \in PictureAnswer PROVE a \in Response /\ ~IsAsk(a)
      BY DEF PictureAnswer, Response, IsAsk, Join, Verdict
    <3>2. ASSUME requests # <<>>, Head(requests) \in JoinRequest PROVE Head(requests).by # s
      <4>1. Head(requests) = requests[1] /\ 1 \in DOMAIN requests /\ IsAsk(Head(requests))
        BY <1>1, <3>2, RequestTaken DEF JoinRequest, IsAsk
      <4> QED
        BY <1>3, <4>1 DEF AsksBy
    <3>3. \A a \in Answer : a \in Response
      BY DEF Response
    <3> QED
      BY <1>1, <2>1, <3>1, <3>2, <3>3, QueuesServed
  <2>4. name' = name
    BY <1>5 DEF RunDatabase, sessionVars
  <2>5. CASE responses' = responses
    BY <1>2, <2>2, <2>4, <2>5 DEF Replied
  <2>6. ASSUME NEW a \in Response, responses' = Append(responses, a), ~(IsAsk(a) /\ a.by = s)
        PROVE  Replied(s, u)'
    <3>1. i \in DOMAIN responses' /\ responses'[i] = responses[i]
      BY <1>1, <2>6, AppendProperties, LenProperties
    <3>2. AsksBy(Append(responses, a), s) =
            AsksBy(responses, s) \cup (IF IsAsk(a) /\ a.by = s THEN {Len(responses) + 1} ELSE {})
      BY <1>1, AsksAppend
    <3>3. AsksBy(responses', s) = AsksBy(responses, s)
      BY <2>6, <3>2
    <3> QED
      BY <1>2, <2>2, <2>4, <3>1, <3>3 DEF Replied
  <2> QED
    BY <2>3, <2>5, <2>6
<1>6. CASE PopResponse /\ responses # <<>>
  <2> DEFINE rest == Tail(responses)
  <2>1. /\ ~RunDatabase /\ requests' = requests /\ name' = name
        /\ responses' = rest /\ uiAnswer' = Head(responses)
        /\ uiPc' = IF Head(responses).type = "picture" THEN "picture" ELSE "pending"
    <3>1. uiPc' # uiPc
      BY <1>6 DEF PopResponse, UiAt, UiGoto
    <3> QED
      BY <1>6, <3>1 DEF PopResponse, UiGoto, RunDatabase, uiVars, sessionVars
  <2>2. /\ Len(responses) \in Nat \ {0} /\ DOMAIN responses = 1 .. Len(responses)
        /\ DOMAIN rest = 1 .. Len(responses) - 1 /\ Head(responses) = responses[1]
        /\ \A j \in 1 .. Len(responses) - 1 : rest[j] = responses[j + 1]
    BY <1>1, <1>6, HeadTailProperties, LenProperties, EmptySeq
  <2>3. AsksBy(rest, s) \subseteq 1 .. i - 1
    BY <1>1, <1>2, <1>6, <2>2, AsksShifted
  <2> HIDE DEF rest
  <2>4. CASE i = 1
    <3>1. AsksBy(responses', s) = {} /\ AsksBy(requests', s) = {}
      BY <1>3, <2>1, <2>3, <2>4
    <3>2. uiPc' = "picture" /\ IsPicture(uiAnswer', u, name'[s])
      BY <1>2, <2>1, <2>2, <2>4 DEF IsPicture
    <3> QED
      BY <3>1, <3>2 DEF Taken, Asking
  <2>5. CASE i # 1
    <3>1. i - 1 \in 1 .. Len(responses) - 1 /\ (i - 1) + 1 = i
      BY <2>2, <2>5
    <3>2. i - 1 \in DOMAIN responses' /\ responses'[i - 1] = responses[i]
      BY <2>1, <2>2, <3>1
    <3>3. AsksBy(requests', s) = {} /\ AsksBy(responses', s) \subseteq 1 .. i - 1
      BY <1>3, <2>1, <2>3
    <3>4. IsPicture(responses'[i - 1], u, name'[s])
      BY <1>2, <2>1, <3>2
    <3> QED
      BY <3>2, <3>3, <3>4 DEF Replied
  <2> QED
    BY <2>4, <2>5
<1>7. CASE ~RunDatabase /\ responses' = responses
  <2>1. AsksBy(responses', s) = AsksBy(responses, s)
    BY <1>7
  <2> QED
    BY <1>2, <1>4, <1>7, <2>1 DEF Replied
<1>8. PopResponse /\ responses = <<>> => responses' = responses
  BY DEF PopResponse
<1> QED
  BY <1>5, <1>6, <1>7, <1>8, TablesKept

\* What a session was told is told for good.
LEMMA PostedGrows ==
  ASSUME Inv, [Next]_vars, NEW s \in Sessions
  PROVE  \E out \in Seq(Out) : Posted(s)' = Posted(s) \o out
<1>1. SessionTypeOK /\ Posted(s) \in Seq(Out)
  BY PostedTyped DEF Inv, TypeOK
<1>2. CASE ~HandlePendingSessions /\ ~IsUserConnected /\ ~OnClientAccept
  BY <1>2, NoAnswer
<1>3. CASE HandlePendingSessions \/ IsUserConnected \/ OnClientAccept
  <2>1. uiAnswer \in Answer /\ UNCHANGED written
    BY <1>3 DEF HandlePendingSessions, IsUserConnected, OnClientAccept, UiAt, Inv, UiPlaces
  <2>2. /\ <<Reject(uiAnswer.by), Bye>> \in Seq(Out) /\ <<Accept(uiAnswer.by)>> \in Seq(Out)
        /\ <<>> \in Seq(Out) /\ Posted(s) \o <<>> = Posted(s)
    BY <1>1, <2>1, EmptySeq, ConcatEmptySeq DEF Answer, Reject, Accept, Bye, Out
  <2>3. \/ UNCHANGED outbox
        \/ \E t : Send({t}, <<Reject(uiAnswer.by), Bye>>) \/ Send({t}, <<Accept(uiAnswer.by)>>)
    BY <1>3 DEF HandlePendingSessions, IsUserConnected, OnClientAccept, OnClientReject
  <2>4. ASSUME NEW t, NEW out \in Seq(Out), Send({t}, out)
        PROVE  Posted(s)' = Posted(s) \/ Posted(s)' = Posted(s) \o out
    BY <1>1, <2>1, <2>4, PostedSend
  <2>5. UNCHANGED outbox => Posted(s)' = Posted(s)
    BY <2>1 DEF Posted
  <2> DEFINE a == <<Reject(uiAnswer.by), Bye>>
             b == <<Accept(uiAnswer.by)>>
  <2>6. /\ a \in Seq(Out) /\ b \in Seq(Out)
        /\ UNCHANGED outbox \/ \E t : Send({t}, a) \/ Send({t}, b)
    BY <2>2, <2>3
  <2> HIDE DEF a, b
  <2> QED
    BY <2>2, <2>4, <2>5, <2>6
<1> QED
  BY <1>2, <1>3

LEMMA DeliveredKept ==
  ASSUME Inv, [Next]_vars, NEW s \in Sessions, NEW u, Delivered(s, u)
  PROVE  Delivered(s, u)'
<1>1. Posted(s) \in Seq(Out)
  BY PostedTyped DEF Inv, TypeOK
<1>2. PICK out \in Seq(Out) : Posted(s)' = Posted(s) \o out
  BY PostedGrows
<1>3. \A i \in DOMAIN Posted(s) : i \in DOMAIN Posted(s)' /\ Posted(s)'[i] = Posted(s)[i]
  BY <1>1, <1>2, ConcatProperties, LenProperties
<1> QED
  BY <1>3 DEF Delivered, Lines

\* Nobody but the session itself asks for it to join.
LEMMA GoneKept ==
  ASSUME Inv, [Next]_vars, NEW s \in Sessions, lines[s] > 0, Gone(s)
  PROVE  Gone(s)'
<1>1. None \notin Sessions /\ pending \in [Users -> Sessions \cup {None}]
  BY ProtocolAssumption DEF Inv, TypeOK
<1>2. CASE \E t \in Sessions : ReadJoin(t)
  <2>1. PICK t \in Sessions : ReadJoin(t)
    BY <1>2
  <2>2. t # s
    BY <2>1 DEF ReadJoin
  <2>3. PICK u : pending' = [pending EXCEPT ![u] = t]
    BY <2>1 DEF ReadJoin
  <2>4. UNCHANGED <<sessions, uiSession>>
    BY <2>1 DEF ReadJoin, uiVars
  <2> QED
    BY <1>1, <2>2, <2>3, <2>4 DEF Gone
<1>3. CASE HandlePendingSessions
  <2>1. /\ sessions' = sessions
        /\ pending' = pending \/ pending' = [pending EXCEPT ![uiAnswer.name] = None]
        /\ uiSession' = uiSession \/ uiSession' = pending[uiAnswer.name]
    BY <1>3 DEF HandlePendingSessions, Waiting
  <2>2. uiAnswer.name \in Users
    BY <1>3 DEF HandlePendingSessions, UiAt, Inv, UiPlaces, Answer
  <2> QED
    BY <1>1, <2>1, <2>2 DEF Gone
<1>4. CASE OnClientAccept
  BY <1>1, <1>4 DEF OnClientAccept, Gone
<1>5. CASE IsUserConnected
  BY <1>1, <1>5 DEF IsUserConnected, Gone
<1>6. CASE /\ ~HandlePendingSessions /\ ~OnClientAccept /\ ~IsUserConnected
           /\ ~(\E t \in Sessions : ReadJoin(t))
  <2>1. sessions' \subseteq sessions /\ UNCHANGED <<pending, uiSession>>
    BY <1>6 DEF Next, NetworkThread, EraseSession, Accepted, ReadPicture, ReadChat, ReadEof,
       ReadFailed, Written, WriteFailed, Disconnected, SessionAlone, UiThread, PopResponse,
       HandleProfilePictureDataRequest, PopInbox, Broadcast, OnUpdateClients, Render, KickUser,
       RunDatabase, Leave, vars, serverVars, uiVars
  <2> QED
    BY <2>1 DEF Gone
<1> QED
  BY <1>2, <1>3, <1>4, <1>5, <1>6

\* The end of a conversation to which one line was added.
LEMMA SaidLast ==
  ASSUME NEW S, NEW said \in Seq(S), NEW out \in Seq(S), Len(out) = 1
  PROVE  \E n \in DOMAIN (said \o out) : (said \o out)[n] = out[1]
<1> DEFINE all == said \o out
           n == Len(said) + 1
<1>1. /\ Len(said) \in Nat /\ DOMAIN all = 1 .. n
      /\ \A i \in 1 .. n : all[i] = IF i <= Len(said) THEN said[i] ELSE out[i - Len(said)]
  BY ConcatProperties, LenProperties
<1> HIDE DEF all
<1>2. n \in DOMAIN all /\ all[n] = out[1]
  BY <1>1
<1> QED
  BY <1>2 DEF all

\* A picture that was taken is sent to its recipient if that is a member, and if
\* not, it has been answered and will never be one.
LEMMA TakenKept ==
  ASSUME Inv, Talk, WaitersAsked, [Next]_vars, NEW s \in Sessions, lines[s] > 0,
         name'[s] = name[s], NEW u \in Users, Taken(s, u)
  PROVE  Arranged(s, u)'
<1>1. /\ uiPc = "picture" /\ uiAnswer.name = u /\ uiAnswer.recipient = name[s]
      /\ AsksBy(requests, s) = {} /\ AsksBy(responses, s) = {}
      /\ requests \in Seq(Request) /\ DatabaseTypeOK
  BY DEF Taken, IsPicture, Asking, Inv, TypeOK, DatabaseTypeOK
<1>2. CASE HandleProfilePictureDataRequest
  <2>1. (\A v \in Users : pending[v] # s) /\ uiSession # s
    <3>1. \A v \in Users : pending[v] # s
      BY <1>1 DEF WaitersAsked, Asking, Handling
    <3>2. None \notin Sessions
      BY ProtocolAssumption
    <3> QED
      BY <1>1, <3>1, <3>2 DEF Talk, WaitersNotAnswered
  <2>2. UNCHANGED <<sessions, pending, uiSession, written>>
    BY <1>2 DEF HandleProfilePictureDataRequest, serverVars
  <2>3. CASE s \notin sessions
    BY <2>1, <2>2, <2>3 DEF Arranged, Gone
  <2>4. CASE s \in sessions
    <3>1. Members(uiAnswer.recipient) = {s}
      BY <1>1, <2>4 DEF Members, Inv, OneSessionPerUser
    <3>2. Send({s}, <<PictureLine(u)>>)
      BY <1>1, <1>2, <3>1 DEF HandleProfilePictureDataRequest, FirstOf
    <3>3. /\ SessionTypeOK /\ Posted(s) \in Seq(Out)
          /\ <<PictureLine(u)>> \in Seq(Out)
      BY PostedTyped DEF Inv, TypeOK, PictureLine, Out
    <3> DEFINE out == <<PictureLine(u)>>
               said == Posted(s)
    <3>4. out \in Seq(Out) /\ Len(out) = 1 /\ out[1] = PictureLine(u) /\ Send({s}, out)
      BY <3>2, <3>3
    <3>5. Posted(s)' = said \o out /\ said \in Seq(Out)
      BY <2>2, <3>3, <3>4, PostedSend
    <3> HIDE DEF out, said
    <3>6. PICK n \in DOMAIN (said \o out) : (said \o out)[n] = out[1]
      BY <3>4, <3>5, SaidLast
    <3>7. n \in DOMAIN Posted(s)' /\ Posted(s)'[n] = PictureLine(u)
      BY <3>4, <3>5, <3>6
    <3> QED
      BY <3>7 DEF Arranged, Delivered, Lines, PictureLine
  <2> QED
    BY <2>3, <2>4
<1>3. CASE RunDatabase
  <2>1. UNCHANGED <<uiPc, uiAnswer, name>> /\ DatabaseThread
    BY <1>3 DEF RunDatabase, uiVars, sessionVars
  <2>2. OneAsk(s) /\ ~Asking(s)
    BY <1>1 DEF OneAsk, Asking
  <2>3. ~Asking(s)'
    BY <1>1, <2>1, <2>2, AsksServed
  <2> QED
    BY <1>1, <2>1, <2>3 DEF Arranged, Taken, IsPicture
<1>4. CASE ~RunDatabase /\ ~HandleProfilePictureDataRequest
  <2>1. UNCHANGED <<uiPc, uiAnswer>> /\ ~PopResponse
    BY <1>1, <1>4 DEF Next, NetworkThread, EraseSession, Accepted, ReadJoin, ReadPicture,
       ReadChat, ReadEof, ReadFailed, Written, WriteFailed, Disconnected, SessionAlone,
       UiThread, PopResponse, HandlePendingSessions, IsUserConnected, OnClientAccept, PopInbox,
       Broadcast, OnUpdateClients, Render, KickUser, UiAt, Leave, vars, uiVars
  <2>2. responses' = responses
    BY <1>4, <2>1, TablesKept
  <2>3. PICK more \in Seq(Request) : requests' = requests \o more /\ AsksBy(more, s) = {}
    BY <1>4, RequestsGrow
  <2>4. AsksBy(requests', s) = {}
    BY <1>1, <2>3, AsksGrown
  <2> QED
    BY <1>1, <2>1, <2>2, <2>4 DEF Arranged, Taken, IsPicture, Asking
<1> QED
  BY <1>2, <1>3, <1>4

\* An ask that is not the first stays behind when the first is taken.
LEMMA AsksLeft ==
  ASSUME NEW S, NEW queue \in Seq(S), queue # <<>>, NEW s, AsksBy(queue, s) # {}
  PROVE  AsksBy(Tail(queue), s) # {} \/ (IsAsk(Head(queue)) /\ Head(queue).by = s)
<1> DEFINE rest == Tail(queue)
           n == Len(queue)
<1>1. /\ DOMAIN queue = 1 .. n /\ n \in Nat \ {0}
      /\ DOMAIN rest = 1 .. n - 1 /\ Head(queue) = queue[1]
      /\ \A j \in 1 .. n - 1 : rest[j] = queue[j + 1]
  BY HeadTailProperties, EmptySeq, LenProperties
<1>2. PICK i \in DOMAIN queue : IsAsk(queue[i]) /\ queue[i].by = s
  BY DEF AsksBy
<1> HIDE DEF rest, n
<1>3. CASE i = 1
  BY <1>1, <1>2, <1>3
<1>4. CASE i # 1
  <2>1. i - 1 \in DOMAIN rest /\ rest[i - 1] = queue[i]
    BY <1>1, <1>4
  <2>2. i - 1 \in AsksBy(rest, s)
    BY <1>2, <2>1 DEF AsksBy
  <2> QED
    BY <2>2 DEF rest
<1> QED
  BY <1>3, <1>4

\* What is added takes no ask away.
LEMMA AsksFollowed ==
  ASSUME NEW S, NEW queue \in Seq(S), NEW more \in Seq(S), NEW s, AsksBy(queue, s) # {}
  PROVE  AsksBy(queue \o more, s) # {}
<1> DEFINE all == queue \o more
<1>1. \A i \in DOMAIN queue : i \in DOMAIN all /\ all[i] = queue[i]
  BY ConcatProperties, LenProperties
<1> HIDE DEF all
<1>2. AsksBy(all, s) # {}
  BY <1>1 DEF AsksBy
<1> QED
  BY <1>2 DEF all

\* The database thread answers those who ask.
LEMMA AskingServed ==
  ASSUME DatabaseTypeOK, DatabaseThread, NEW s, Asking(s)
  PROVE  Asking(s)'
<1>1. requests \in Seq(Request) /\ responses \in Seq(Response)
  BY DEF DatabaseTypeOK
<1>2. CASE UNCHANGED <<requests, responses>>
  BY <1>2 DEF Asking
<1>3. ASSUME NEW a \in Response, responses' = Append(responses, a)
      PROVE  /\ AsksBy(responses, s) # {} => AsksBy(responses', s) # {}
             /\ IsAsk(a) /\ a.by = s => AsksBy(responses', s) # {}
  <2>1. AsksBy(Append(responses, a), s) =
          AsksBy(responses, s) \cup (IF IsAsk(a) /\ a.by = s THEN {Len(responses) + 1} ELSE {})
    BY <1>1, AsksAppend
  <2> QED
    BY <1>3, <2>1
<1>4. CASE requests # <<>>
  <2> DEFINE r == Head(requests)
             rest == Tail(requests)
  <2>1. /\ rest \in Seq(Request)
        /\ AsksBy(requests, s) # {} => AsksBy(rest, s) # {} \/ (IsAsk(r) /\ r.by = s)
    BY <1>1, <1>4, AsksLeft, RequestTaken
  <2> HIDE DEF r, rest
  <2>2. ASSUME NEW get \in GetPictureRequest, requests' = Append(rest, get)
        PROVE  AsksBy(requests', s) = AsksBy(rest, s)
    BY <2>1, <2>2, AsksUnmoved
  <2>3. ASSUME ~IsAsk(r), requests' = rest \/ \E get \in GetPictureRequest : requests' = Append(rest, get),
               responses' = responses \/ \E a \in PictureAnswer : responses' = Append(responses, a)
        PROVE  Asking(s)'
    <3>1. AsksBy(requests', s) = AsksBy(rest, s)
      <4>1. requests' = rest => AsksBy(requests', s) = AsksBy(rest, s)
        OBVIOUS
      <4> QED
        BY <2>2, <2>3, <4>1
    <3>2. AsksBy(responses, s) # {} => AsksBy(responses', s) # {}
      <4>1. \A a \in PictureAnswer : a \in Response
        BY DEF Response
      <4>2. responses' = responses => AsksBy(responses', s) = AsksBy(responses, s)
        OBVIOUS
      <4> QED
        BY <1>3, <2>3, <4>1, <4>2
    <3> QED
      BY <2>1, <2>3, <3>1, <3>2 DEF Asking
  <2>4. ASSUME requests' = rest, NEW a \in Answer, a.by = r.by, responses' = Append(responses, a)
        PROVE  Asking(s)'
    <3>1. a \in Response /\ IsAsk(a)
      BY DEF Answer, Response, IsAsk
    <3>2. AsksBy(requests', s) = AsksBy(rest, s)
      BY <2>4
    <3> QED
      BY <1>3, <2>1, <2>4, <3>1, <3>2 DEF Asking
  <2> QED
    BY <1>2, <2>3, <2>4, QueuesServed DEF r, rest
<1> QED
  BY <1>2, <1>4, QueuesServed

\* Who waits is on the way to an answer, step by step.
LEMMA WaitersStep ==
  ASSUME Inv, Talk, Asks, WaitersAsked, [Next]_vars PROVE WaitersAsked'
<1>1. /\ requests \in Seq(Request) /\ responses \in Seq(Response) /\ DatabaseTypeOK
      /\ pending \in [Users -> Sessions \cup {None}] /\ None \notin Sessions
  BY ProtocolAssumption DEF Inv, TypeOK, DatabaseTypeOK
<1>2. ASSUME ~RunDatabase, NEW s \in Sessions, lines[s] > 0, AsksBy(requests, s) # {}
      PROVE  AsksBy(requests', s) # {}
  <2>1. PICK more \in Seq(Request) : requests' = requests \o more
    BY <1>2, RequestsGrow
  <2> QED
    BY <1>1, <1>2, <2>1, AsksFollowed
<1>3. SUFFICES ASSUME NEW u \in Users, NEW s \in Sessions, pending'[u] = s
               PROVE  Asking(s)' \/ Handling(s)'
  BY DEF WaitersAsked
<1>4. ASSUME pending[u] = s PROVE lines[s] > 0 /\ name[s] = u /\ (Asking(s) \/ Handling(s))
  BY <1>1, <1>4 DEF WaitersAsked, Inv, Joined, Talk, WaitersNotAnswered
<1>5. CASE RunDatabase
  <2>1. pending' = pending /\ UNCHANGED <<uiPc, uiAnswer>> /\ DatabaseThread
    BY <1>5 DEF RunDatabase, serverVars, uiVars
  <2>2. Asking(s) \/ Handling(s)
    BY <1>3, <1>4, <2>1
  <2>3. Asking(s) => Asking(s)'
    BY <1>1, <2>1, AskingServed
  <2>4. Handling(s) => Handling(s)'
    BY <2>1 DEF Handling
  <2> QED
    BY <2>2, <2>3, <2>4
<1>6. ASSUME NEW t \in Sessions, ReadJoin(t) PROVE Asking(s)' \/ Handling(s)'
  <2>1. PICK join \in Joins :
          join.by = t /\ pending' = [pending EXCEPT ![join.name] = t] /\ Submit(<<join>>)
    BY <1>6 DEF ReadJoin
  <2>2. join \in JoinRequest /\ join \in Request /\ IsAsk(join)
    BY ServerAssumption DEF Request, JoinRequest, IsAsk
  <2>3. ~RunDatabase /\ UNCHANGED <<responses, uiPc, uiAnswer>>
    <3>1. UNCHANGED <<responses, uiPc, uiAnswer>> /\ lines' = [lines EXCEPT ![t] = 1]
      BY <1>6 DEF ReadJoin, uiVars
    <3>2. lines[t] = 0 /\ lines \in [Sessions -> 0 .. 2]
      BY <1>6 DEF ReadJoin, Inv, TypeOK, SessionTypeOK
    <3>3. lines' # lines
      BY <3>1, <3>2
    <3> QED
      BY <3>1, <3>3 DEF RunDatabase, sessionVars
  <2>4. CASE s = t
    <3>1. requests' = Append(requests, join)
      BY <1>1, <2>1, <2>2, AppendIsConcat DEF Submit
    <3>2. AsksBy(Append(requests, join), s) =
            AsksBy(requests, s) \cup (IF IsAsk(join) /\ join.by = s THEN {Len(requests) + 1} ELSE {})
      BY <1>1, <2>2, AsksAppend
    <3>3. AsksBy(requests', s) # {}
      BY <2>1, <2>2, <2>4, <3>1, <3>2
    <3> QED
      BY <3>3 DEF Asking
  <2>5. CASE s # t
    <3>1. pending[u] = s
      BY <1>1, <1>3, <2>1, <2>5
    <3>2. lines[s] > 0 /\ (Asking(s) \/ Handling(s))
      BY <1>4, <3>1
    <3>3. AsksBy(responses', s) = AsksBy(responses, s)
      BY <2>3
    <3> QED
      BY <1>2, <2>3, <3>2, <3>3 DEF Asking, Handling
  <2> QED
    BY <2>4, <2>5
<1>7. CASE PopResponse
  <2>1. /\ uiPc = "responses" /\ UNCHANGED <<requests, pending>>
        /\ \/ responses' = responses
           \/ /\ responses # <<>> /\ responses' = Tail(responses) /\ uiAnswer' = Head(responses)
              /\ uiPc' = IF Head(responses).type = "picture" THEN "picture" ELSE "pending"
    BY <1>7 DEF PopResponse, UiAt, UiGoto, serverVars
  <2>2. Asking(s)
    BY <1>3, <1>4, <2>1 DEF Handling
  <2>3. AsksBy(requests', s) = AsksBy(requests, s)
    BY <2>1
  <2>4. CASE responses' = responses
    BY <2>2, <2>3, <2>4 DEF Asking
  <2>5. CASE responses # <<>> /\ responses' = Tail(responses)
    <3>1. AsksBy(responses, s) # {} =>
            \/ AsksBy(Tail(responses), s) # {}
            \/ IsAsk(Head(responses)) /\ Head(responses).by = s
      BY <1>1, <2>5, AsksLeft
    <3>2. IsAsk(Head(responses)) => Head(responses).type # "picture"
      BY DEF IsAsk, Join, Verdict
    <3>3. AsksBy(responses', s) = AsksBy(Tail(responses), s)
      BY <2>5
    <3>4. CASE responses' # responses
      BY <2>1, <2>2, <2>3, <3>1, <3>2, <3>3, <3>4 DEF Asking, Handling
    <3> QED
      BY <2>4, <3>4
  <2> QED
    BY <2>1, <2>4, <2>5
<1>8. CASE HandlePendingSessions
  <2>1. /\ uiPc = "pending" /\ UNCHANGED <<requests, responses>>
        /\ uiAnswer.name \in Users
        /\ \/ UNCHANGED <<pending, uiPc, uiAnswer>>
           \/ pending' = [pending EXCEPT ![uiAnswer.name] = None]
    BY <1>8 DEF HandlePendingSessions, UiAt, dbVars, Inv, UiPlaces, Answer
  <2>2. pending[u] = s
    BY <1>1, <1>3, <2>1
  <2>3. Asking(s) => Asking(s)'
    BY <2>1 DEF Asking
  <2>4. CASE UNCHANGED <<pending, uiPc, uiAnswer>>
    BY <1>4, <2>2, <2>3, <2>4 DEF Handling
  <2>5. CASE pending' = [pending EXCEPT ![uiAnswer.name] = None]
    <3>1. u # uiAnswer.name
      BY <1>1, <1>3, <2>5
    <3>2. ~Handling(s)
      BY <1>4, <2>1, <2>2, <3>1 DEF Handling, Asks, NamesRight
    <3> QED
      BY <1>4, <2>2, <2>3, <3>2
  <2> QED
    BY <2>1, <2>4, <2>5
<1>9. CASE /\ ~RunDatabase /\ ~(\E t \in Sessions : ReadJoin(t))
           /\ ~PopResponse /\ ~HandlePendingSessions
  <2>1. pending' = pending
    BY <1>9 DEF Next, NetworkThread, EraseSession, Accepted, ReadPicture, ReadChat, ReadEof,
       ReadFailed, Written, WriteFailed, Disconnected, SessionAlone, UiThread,
       HandleProfilePictureDataRequest, IsUserConnected, OnClientAccept, PopInbox, Broadcast,
       OnUpdateClients, Render, KickUser, Leave, vars, serverVars
  <2>2. uiPc = "pending" => UNCHANGED <<uiPc, uiAnswer>>
    BY <1>9 DEF Next, NetworkThread, EraseSession, Accepted, ReadPicture, ReadChat, ReadEof,
       ReadFailed, Written, WriteFailed, Disconnected, SessionAlone, UiThread, UiAt,
       HandleProfilePictureDataRequest, IsUserConnected, OnClientAccept, PopInbox, Broadcast,
       OnUpdateClients, Render, KickUser, Leave, vars, uiVars
  <2>3. AsksBy(responses', s) = AsksBy(responses, s)
    BY <1>9, TablesKept
  <2>4. lines[s] > 0 /\ (Asking(s) \/ Handling(s))
    BY <1>3, <1>4, <2>1
  <2> QED
    BY <1>2, <1>9, <2>2, <2>3, <2>4 DEF Asking, Handling
<1> QED
  BY <1>5, <1>6, <1>7, <1>8, <1>9

\* What is requested now, behind all that was requested before, arrives.
LEMMA RequestedNow ==
  ASSUME Inv, NEW s \in Sessions, NEW u, PictureKnown(u),
         NEW more \in Seq(Request), requests' = requests \o more,
         \A i \in DOMAIN more : ~IsAsk(more[i]),
         \E i \in DOMAIN more : IsGet(more[i], u, name[s]),
         UNCHANGED <<users, pictures>>, name'[s] = name[s]
  PROVE  Requested(s, u)'
<1> DEFINE n == Len(requests)
<1>1. requests \in Seq(Request) /\ n \in Nat /\ DOMAIN requests = 1 .. n
  BY LenProperties DEF Inv, TypeOK, DatabaseTypeOK
<1>2. PICK k \in DOMAIN more : IsGet(more[k], u, name[s])
  OBVIOUS
<1>3. PICK i \in Nat : i = n + k
  BY <1>1, LenProperties
<1>4. i \in DOMAIN requests' /\ requests'[i] = more[k] /\ n <= i - 1 /\ i - 1 \in Nat
  <2>1. k \in 1 .. Len(more) /\ Len(more) \in Nat
    BY LenProperties
  <2>2. i \in 1 .. n + Len(more) /\ i > n /\ i - n = k
    BY <1>1, <1>3, <2>1
  <2>3. /\ requests \o more \in Seq(Request) /\ Len(requests \o more) = n + Len(more)
        /\ (requests \o more)[i] = more[i - n]
    BY <1>1, <2>2, ConcatProperties
  <2>4. i \in DOMAIN (requests \o more)
    <3> DEFINE all == requests \o more
    <3>1. all \in Seq(Request) /\ Len(all) = n + Len(more)
      BY <2>3
    <3> HIDE DEF all
    <3>2. i \in DOMAIN all
      BY <2>2, <3>1, LenProperties
    <3> QED
      BY <3>2 DEF all
  <2> QED
    BY <1>1, <2>1, <2>2, <2>3, <2>4
<1>5. PICK m \in Nat : m = n
  BY <1>1
<1>6. PictureAfter(u, m)'
  BY <1>1, <1>5, PictureApart DEF PictureKnown
<1>7. PictureAfter(u, i - 1)'
  <2>1. 1 .. m \subseteq 1 .. i - 1
    BY <1>3, <1>4, <1>5
  <2> QED
    BY <1>6, <2>1 DEF PictureAfter, HasRowAfter
<1>8. AsksBy(requests', s) \subseteq 1 .. i
  <2>1. AsksBy(requests', s) = AsksBy(requests, s)
    BY <1>1, AsksAppended
  <2>2. AsksBy(requests, s) \subseteq 1 .. n
    BY <1>1 DEF AsksBy
  <2> QED
    BY <1>1, <1>4, <2>1, <2>2
<1> QED
  BY <1>2, <1>4, <1>7, <1>8 DEF Requested

\* Members who ask for each other's pictures ask for all of them.
LEMMA AllMembers ==
  ASSUME Inv, NEW members \in SetToSeqs(sessions), NEW m \in sessions
  PROVE  \E j \in 1 .. Len(members) : members[j] = m
<1> DEFINE n == Cardinality(sessions)
<1>1. IsFiniteSet(sessions) /\ n \in Nat
  BY ServerAssumption, FS_Subset, FS_CardinalityType DEF Inv, TypeOK
<1>2. members \in [1 .. n -> sessions] /\ \A i, j \in 1 .. n : i # j => members[i] # members[j]
  BY DEF SetToSeqs
<1>3. Cardinality(1 .. n) = n
  BY <1>1, FS_Interval
<1> HIDE DEF n
<1>4. members \in Injection(1 .. n, sessions)
  BY <1>2 DEF Injection, IsInjective
<1>5. members \in Surjection(1 .. n, sessions)
  BY <1>1, <1>3, <1>4, FS_Injection DEF n
<1>6. Len(members) = n
  BY <1>1, <1>2
<1> QED
  BY <1>5, <1>6 DEF Surjection

\* The two steps that ask for pictures.
LEMMA OwedByRead ==
  ASSUME Inv, NEW t \in Sessions, ReadPicture(t), NEW pair \in owed', pair \notin owed
  PROVE  /\ pair = <<t, name[t]>> /\ t \in Sessions /\ lines[t] > 0
         /\ Requested(t, name[t])'
<1>1. /\ lines[t] = 1 /\ UNCHANGED <<users, pictures, name>>
  BY DEF ReadPicture
<1>2. PICK content \in Pixels \cup {NoPixels} :
        /\ Submit(<<ProfilePictureSaveRequest(name[t], content)>>)
        /\ owed' = IF content = NoPixels THEN OwedNow({<<t, name[t]>>}) ELSE owed
  BY DEF ReadPicture
<1>3. content = NoPixels /\ pair = <<t, name[t]>> /\ PictureKnown(name[t])
  BY <1>2 DEF OwedNow
<1>4. name[t] \in Users /\ name' = name
  BY <1>1 DEF Inv, Named
<1> DEFINE r == ProfilePictureSaveRequest(name[t], NoPixels)
<1>5. r \in Request /\ ~IsAsk(r) /\ IsGet(r, name[t], name[t])
  BY <1>4 DEF ProfilePictureSaveRequest, Request, SavePictureRequest, IsAsk, Join, Verdict, IsGet
<1>6. requests' = requests \o <<r>>
  BY <1>2, <1>3 DEF Submit
<1> HIDE DEF r
<1> DEFINE more == <<r>>
<1>7. /\ more \in Seq(Request) /\ requests' = requests \o more
      /\ \A i \in DOMAIN more : ~IsAsk(more[i])
      /\ \E i \in DOMAIN more : IsGet(more[i], name[t], name[t])
  BY <1>5, <1>6
<1> HIDE DEF more
<1>8. PICK u \in Users : u = name[t]
  BY <1>4
<1>9. Requested(t, u)'
  BY <1>1, <1>3, <1>4, <1>7, <1>8, RequestedNow
<1>10. Requested(t, name[t])'
  BY <1>4, <1>8, <1>9
<1> QED
  BY <1>1, <1>3, <1>10

LEMMA OwedByAccept ==
  ASSUME Inv, OnClientAccept, NEW s, NEW u, <<s, u>> \in owed', <<s, u>> \notin owed
  PROVE  s \in Sessions /\ lines[s] > 0 /\ Requested(s, u)'
<1>1. /\ uiSession \in Sessions /\ lines[uiSession] > 0
      /\ UNCHANGED <<users, pictures, name>>
  BY ProtocolAssumption DEF OnClientAccept, UiAt, Inv, UiPlaces, Joined
<1>2. PICK members \in SetToSeqs(sessions) : Submit(PictureRequests(members, uiSession))
  BY DEF OnClientAccept
<1> DEFINE more == PictureRequests(members, uiSession)
           you == uiSession
<1>3. more \in Seq(Request)
  BY <1>1, PictureRequestsTyped
<1>4. requests' = requests \o more
  BY <1>2 DEF Submit
<1>5. /\ \A i \in DOMAIN more : more[i].type = "get_picture"
      /\ DOMAIN more = 1 .. 2 * Len(members)
  BY DEF PictureRequests, UserProfilePictureRequest
<1>6. Len(members) \in Nat
  <2>1. members \in [1 .. Cardinality(sessions) -> sessions]
    BY DEF SetToSeqs
  <2>2. Cardinality(sessions) \in Nat
    BY ServerAssumption, FS_Subset, FS_CardinalityType DEF Inv, TypeOK
  <2> QED
    BY <2>1, <2>2
<1>7. ASSUME NEW m \in sessions
      PROVE  /\ \E i \in DOMAIN more : IsGet(more[i], name[m], name[you])
             /\ \E i \in DOMAIN more : IsGet(more[i], name[you], name[m])
  <2>1. PICK j \in 1 .. Len(members) : members[j] = m
    BY AllMembers
  <2>2. /\ 2 * j - 1 \in 1 .. 2 * Len(members) /\ (2 * j - 1) % 2 = 1
        /\ ((2 * j - 1) + 1) \div 2 = j
        /\ 2 * j \in 1 .. 2 * Len(members) /\ (2 * j) % 2 # 1 /\ (2 * j + 1) \div 2 = j
    BY <1>6
  <2>3. more[2 * j - 1] = UserProfilePictureRequest(name[m], name[you])
    BY <2>1, <2>2 DEF PictureRequests
  <2>4. more[2 * j] = UserProfilePictureRequest(name[you], name[m])
    BY <2>1, <2>2 DEF PictureRequests
  <2>5. /\ IsGet(UserProfilePictureRequest(name[m], name[you]), name[m], name[you])
        /\ IsGet(UserProfilePictureRequest(name[you], name[m]), name[you], name[m])
    BY DEF UserProfilePictureRequest, IsGet
  <2> HIDE DEF more
  <2> QED
    BY <1>5, <2>2, <2>3, <2>4, <2>5
<1> HIDE DEF more, you
<1>8. \A i \in DOMAIN more : ~IsAsk(more[i])
  BY <1>5 DEF IsAsk, Join, Verdict
<1>9. /\ PictureKnown(u)
      /\ <<s, u>> \in {<<uiSession, name[m]>> : m \in sessions} \cup (sessions \X {name[uiSession]})
  BY DEF OnClientAccept, OwedNow
<1>10. /\ s \in Sessions /\ lines[s] > 0
       /\ \E i \in DOMAIN more : IsGet(more[i], u, name[s])
  <2>1. CASE s = you /\ \E m \in sessions : u = name[m]
    BY <1>1, <1>7, <2>1 DEF you
  <2>2. CASE s \in sessions /\ u = name[you]
    BY <1>7, <2>2 DEF Inv, TypeOK, Joined
  <2> QED
    BY <1>9, <2>1, <2>2 DEF you
<1>11. Requested(s, u)'
  BY <1>1, <1>3, <1>4, <1>8, <1>9, <1>10, RequestedNow
<1> QED
  BY <1>10, <1>11

LEMMA PicturesStep ==
  ASSUME LookupMayFail = FALSE, WriteMayFail = FALSE,
         Inv, Talk, UniqueUsernames, WaitersAsked, PicturesComing, [Next]_vars
  PROVE  PicturesComing'
<1>1. /\ lines \in [Sessions -> 0 .. 2] /\ owed \subseteq Sessions \X Users
      /\ owed' \subseteq Sessions \X Users /\ lines' \in [Sessions -> 0 .. 2]
  BY InvStep DEF Inv, TypeOK, SessionTypeOK
<1>2. NamesKept
  BY Steady
<1>3. \A s \in Sessions : lines[s] > 0 => lines'[s] > 0
  <2>1. CASE lines' = lines
    BY <2>1
  <2>2. CASE \E s \in Sessions : ReadJoin(s) \/ ReadPicture(s)
    BY <1>1, <2>2 DEF ReadJoin, ReadPicture
  <2>3. CASE ~(\E s \in Sessions : ReadJoin(s) \/ ReadPicture(s))
    <3>1. lines' = lines
      BY <2>3 DEF Next, NetworkThread, EraseSession, Accepted, ReadChat, ReadEof, ReadFailed,
         Written, WriteFailed, Disconnected, SessionAlone, ReadEnd, ReadError, Connect, Write,
         WriteError, Disconnect, UiThread, PopResponse, HandleProfilePictureDataRequest,
         HandlePendingSessions, IsUserConnected, OnClientAccept, PopInbox, Broadcast,
         OnUpdateClients, Render, KickUser, RunDatabase, Leave, ClientLeaves, vars, sessionVars
    <3> QED
      BY <3>1
  <2> QED
    BY <2>2, <2>3
<1>4. ASSUME NEW s \in Sessions, NEW u \in Users, <<s, u>> \in owed
      PROVE  lines'[s] > 0 /\ Arranged(s, u)'
  <2>1. lines[s] > 0 /\ Arranged(s, u) /\ name'[s] = name[s]
    BY <1>2, <1>4 DEF PicturesComing, NamesKept
  <2>2. Gone(s) => Gone(s)'
    BY <2>1, GoneKept
  <2>3. Delivered(s, u) => Delivered(s, u)'
    BY DeliveredKept
  <2>4. Requested(s, u) => Requested(s, u)' \/ Replied(s, u)'
    BY <2>1, RequestedApart, RequestedServed
  <2>5. Replied(s, u) => Replied(s, u)' \/ Taken(s, u)'
    BY <2>1, RepliedKept
  <2>6. Taken(s, u) => Arranged(s, u)'
    BY <2>1, TakenKept
  <2> QED
    BY <1>3, <2>1, <2>2, <2>3, <2>4, <2>5, <2>6 DEF Arranged
<1>5. ASSUME NEW s \in Sessions, NEW u \in Users, <<s, u>> \in owed', <<s, u>> \notin owed
      PROVE  lines'[s] > 0 /\ Arranged(s, u)'
  <2>1. CASE OnClientAccept
    BY <1>3, <1>5, <2>1, OwedByAccept DEF Arranged
  <2>2. ASSUME NEW t \in Sessions, ReadPicture(t) PROVE lines'[s] > 0 /\ Arranged(s, u)'
    <3>1. /\ <<s, u>> = <<t, name[t]>> /\ lines[t] > 0 /\ Requested(t, name[t])'
          /\ name' = name
      BY <1>5, <2>2, OwedByRead DEF ReadPicture
    <3> QED
      BY <1>3, <3>1 DEF Arranged
  <2>3. CASE ~OnClientAccept /\ ~(\E t \in Sessions : ReadPicture(t))
    <3>1. owed' = owed
      BY <2>3 DEF Next, NetworkThread, EraseSession, Accepted, ReadJoin, ReadChat, ReadEof,
         ReadFailed, Written, WriteFailed, Disconnected, SessionAlone, UiThread, PopResponse,
         HandleProfilePictureDataRequest, HandlePendingSessions, IsUserConnected, PopInbox,
         Broadcast, OnUpdateClients, Render, KickUser, RunDatabase, Leave, vars, serverVars
    <3> QED
      BY <1>5, <3>1
  <2> QED
    BY <2>1, <2>2, <2>3
<1>6. ASSUME NEW pair \in owed' PROVE (lines[pair[1]] > 0 /\ Arranged(pair[1], pair[2]))'
  <2>1. PICK s \in Sessions, u \in Users : pair = <<s, u>>
    BY <1>1
  <2>2. lines'[s] > 0 /\ Arranged(s, u)'
    BY <1>4, <1>5, <1>6, <2>1
  <2> QED
    BY <2>1, <2>2
<1> QED
  BY <1>6 DEF PicturesComing

\* The picture of a user reaches the member it was asked for: it is asked for
\* behind the request that stores it, and answered behind the answer that makes
\* its recipient a member, as both queues keep their order.  A lookup or a write
\* that fails loses it, and the code tells nobody, so neither may.
THEOREM PicturesReachMembers ==
  ASSUME LookupMayFail = FALSE, WriteMayFail = FALSE PROVE Spec => []PicturesArrive
<1> DEFINE Kept == UniqueUsernames /\ WaitersAsked /\ PicturesComing
<1>1. Init => WaitersAsked /\ PicturesComing
  BY ProtocolAssumption DEF Init, WaitersAsked, PicturesComing
<1>2. Inv /\ Talk /\ Asks /\ WaitersAsked /\ [Next]_vars => WaitersAsked'
  BY WaitersStep
<1>3. Inv /\ Talk /\ UniqueUsernames /\ WaitersAsked /\ PicturesComing /\ [Next]_vars
        => PicturesComing'
  BY PicturesStep
<1>4. Inv /\ PicturesComing => PicturesArrive
  <2> SUFFICES ASSUME Inv, PicturesComing, requests = <<>>, responses = <<>>, uiPc # "picture",
                      NEW pair \in owed, pair[1] \in sessions
               PROVE  \E i \in Lines(pair[1], {"picture"}) : Posted(pair[1])[i].name = pair[2]
    BY DEF PicturesArrive
  <2>1. Arranged(pair[1], pair[2])
    BY DEF PicturesComing
  <2> QED
    BY <2>1, EmptySeq DEF Arranged, Gone, Delivered, Requested, Replied, Taken
<1> QED
  BY <1>1, <1>2, <1>3, <1>4, ServerInvariant, TalkInvariant, AsksInvariant, AccountsStayUnique,
     PTL DEF Spec

-----------------------------------------------------------------------------
(* The writers of the sessions.                                            *)

\* What OutboxesSpec allows a session in a step.
OutboxStep(s) == [OutboxOf(s)!Next]_<<outbox[s], written[s], stuck[s]>>

\* What the callers give to a writer at once: one line, the order to close, or
\* a last line with the order to close.
LEMMA GivenToOutbox ==
  ASSUME SessionTypeOK, NEW group, NEW out,
         \/ \E x \in Out : out = <<x>>
         \/ \E x \in Out \ {Bye} : out = <<x, Bye>>,
         Send(group, out), UNCHANGED <<written, stuck>>
  PROVE  \A s \in Sessions : OutboxStep(s)
<1> SUFFICES ASSUME NEW s \in Sessions PROVE OutboxStep(s)
  OBVIOUS
<1>1. outbox[s] \in Seq(Out)
  BY DEF SessionTypeOK
<1>2. outbox'[s] = IF s \in group THEN outbox[s] \o out ELSE outbox[s]
  BY DEF Send
<1>3. CASE s \notin group
  BY <1>2, <1>3 DEF OutboxStep
<1>4. ASSUME s \in group, NEW x \in Out, out = <<x>> PROVE OutboxStep(s)
  <2>1. outbox'[s] = Append(outbox[s], x)
    BY <1>1, <1>2, <1>4, AppendConcat
  <2>2. OutboxOf(s)!Give(x)
    BY <2>1 DEF OutboxOf!Give
  <2> QED
    BY <2>2 DEF OutboxStep, OutboxOf!Next
<1>5. ASSUME s \in group, NEW x \in Out \ {Bye}, out = <<x, Bye>> PROVE OutboxStep(s)
  <2>1. OutboxOf(s)!GiveAndClose(x)
    BY <1>2, <1>5 DEF OutboxOf!GiveAndClose
  <2> QED
    BY <2>1 DEF OutboxStep, OutboxOf!Next
<1> QED
  BY <1>3, <1>4, <1>5

\* The steps that give nothing to a writer and let it do nothing.
OutboxesAlone == UNCHANGED <<outbox, written, stuck>>

\* The steps of a writer.
LEMMA WriterIsOutbox ==
  ASSUME SessionTypeOK, NEW s \in Sessions,
         Written(s) \/ WriteFailed(s) \/ Disconnected(s)
  PROVE  \A t \in Sessions : OutboxStep(t)
<1>1. /\ outbox \in [Sessions -> Seq(Out)]
      /\ written \in [Sessions -> Seq(Out)]
      /\ stuck \in [Sessions -> BOOLEAN]
  BY DEF SessionTypeOK
<1>2. OutboxStep(s)
  <2>1. CASE Written(s)
    <3>1. OutboxOf(s)!Take
      BY <1>1, <2>1 DEF Written, Write, OutboxOf!Take
    <3> QED
      BY <3>1 DEF OutboxStep, OutboxOf!Next
  <2>2. CASE WriteFailed(s)
    <3>1. OutboxOf(s)!Fail
      BY <1>1, <2>2 DEF WriteFailed, WriteError, OutboxOf!Fail
    <3> QED
      BY <3>1 DEF OutboxStep, OutboxOf!Next
  <2>3. CASE Disconnected(s)
    <3>1. OutboxOf(s)!Take
      BY <1>1, <2>3 DEF Disconnected, Disconnect, OutboxOf!Take
    <3> QED
      BY <3>1 DEF OutboxStep, OutboxOf!Next
  <2> QED
    BY <2>1, <2>2, <2>3
<1>3. ASSUME NEW t \in Sessions, t # s PROVE OutboxStep(t)
  <2>1. UNCHANGED <<outbox[t], written[t], stuck[t]>>
    BY <1>1, <1>3 DEF Written, Write, WriteFailed, WriteError, Disconnected, Disconnect
  <2> QED
    BY <2>1 DEF OutboxStep
<1> QED
  BY <1>2, <1>3

LEMMA NetworkOutboxes ==
  ASSUME SessionTypeOK, NetworkThread PROVE \A s \in Sessions : OutboxStep(s)
<1>1. CASE EraseSession
  BY <1>1 DEF EraseSession, sessionVars, OutboxStep
<1>2. ASSUME NEW s \in Sessions,
             \/ Accepted(s) \/ ReadJoin(s) \/ ReadPicture(s) \/ ReadChat(s)
             \/ ReadEof(s) \/ ReadFailed(s)
      PROVE  OutboxesAlone
  BY <1>2 DEF Accepted, Connect, ReadJoin, ReadPicture, ReadChat, ReadLine, ReadEof, ReadEnd,
     ReadFailed, ReadError, OutboxesAlone
<1>3. OutboxesAlone => \A s \in Sessions : OutboxStep(s)
  BY DEF OutboxesAlone, OutboxStep
<1> QED
  BY <1>1, <1>2, <1>3, WriterIsOutbox DEF NetworkThread

LEMMA RejectOutboxes ==
  ASSUME SessionTypeOK, uiAnswer \in Answer, NEW s, OnClientReject(s),
         UNCHANGED <<written, stuck>>
  PROVE  \A t \in Sessions : OutboxStep(t)
<1>1. Reject(uiAnswer.by) \in Out \ {Bye}
  BY DEF Reject, Out, Bye, Answer
<1> QED
  BY <1>1, GivenToOutbox DEF OnClientReject

LEMMA UiOutboxes ==
  ASSUME Inv, UiThread PROVE \A s \in Sessions : OutboxStep(s)
<1>1. SessionTypeOK
  BY DEF Inv, TypeOK
<1>2. OutboxesAlone => \A s \in Sessions : OutboxStep(s)
  BY DEF OutboxesAlone, OutboxStep
<1>3. CASE PopResponse \/ PopInbox \/ OnUpdateClients \/ Render
  BY <1>2, <1>3 DEF PopResponse, PopInbox, OnUpdateClients, Render, sessionVars, OutboxesAlone
<1>4. CASE HandleProfilePictureDataRequest
  <2>1. PICK found : Send(found, <<PictureLine(uiAnswer.name)>>)
    BY <1>4 DEF HandleProfilePictureDataRequest
  <2>2. PictureLine(uiAnswer.name) \in Out
    BY <1>4 DEF HandleProfilePictureDataRequest, UiAt, Inv, UiPlaces, PictureAnswer, PictureLine, Out
  <2> QED
    BY <1>1, <1>4, <2>1, <2>2, GivenToOutbox DEF HandleProfilePictureDataRequest
<1>5. CASE HandlePendingSessions
  <2>1. uiAnswer \in Answer /\ UNCHANGED <<written, stuck>>
    BY <1>5 DEF HandlePendingSessions, UiAt, Inv, UiPlaces
  <2>2. UNCHANGED outbox \/ OnClientReject(Waiting)
    BY <1>5 DEF HandlePendingSessions
  <2> QED
    BY <1>1, <1>2, <2>1, <2>2, RejectOutboxes DEF OutboxesAlone
<1>6. CASE IsUserConnected
  <2>1. uiAnswer \in Answer /\ UNCHANGED <<written, stuck>>
    BY <1>6 DEF IsUserConnected, UiAt, Inv, UiPlaces
  <2>2. UNCHANGED outbox \/ OnClientReject(uiSession)
    BY <1>6 DEF IsUserConnected
  <2> QED
    BY <1>1, <1>2, <2>1, <2>2, RejectOutboxes DEF OutboxesAlone
<1>7. CASE OnClientAccept
  <2>1. Accept(uiAnswer.by) \in Out
    BY <1>7 DEF OnClientAccept, UiAt, Inv, UiPlaces, Answer, Accept, Out
  <2>2. Send({uiSession}, <<Accept(uiAnswer.by)>>) /\ UNCHANGED <<written, stuck>>
    BY <1>7 DEF OnClientAccept
  <2> QED
    BY <1>1, <2>1, <2>2, GivenToOutbox
<1>8. CASE Broadcast
  <2>1. ChatLine(uiChat) \in Out
    BY <1>8 DEF Broadcast, UiAt, Inv, UiPlaces, ChatLine, Out
  <2>2. Send(sessions, <<ChatLine(uiChat)>>) /\ UNCHANGED <<written, stuck>>
    BY <1>8 DEF Broadcast
  <2> QED
    BY <1>1, <2>1, <2>2, GivenToOutbox
<1>9. CASE KickUser
  <2>1. Kick \in Out \ {Bye}
    BY DEF Kick, Bye, Out
  <2>2. UNCHANGED outbox \/ \E s \in Sessions : Send({s}, <<Kick, Bye>>)
    BY <1>9 DEF KickUser, Members, Inv, TypeOK
  <2>3. UNCHANGED <<written, stuck>>
    BY <1>9 DEF KickUser
  <2> QED
    BY <1>1, <1>2, <2>1, <2>2, <2>3, GivenToOutbox DEF OutboxesAlone
<1> QED
  BY <1>3, <1>4, <1>5, <1>6, <1>7, <1>8, <1>9 DEF UiThread

LEMMA OutboxesStep == Inv /\ [Next]_vars => \A s \in Sessions : OutboxStep(s)
<1> SUFFICES ASSUME Inv, [Next]_vars PROVE \A s \in Sessions : OutboxStep(s)
  OBVIOUS
<1>1. CASE NetworkThread
  BY <1>1, NetworkOutboxes DEF Inv, TypeOK
<1>2. CASE RunDatabase \/ Leave \/ UNCHANGED vars
  BY <1>2 DEF RunDatabase, Leave, ClientLeaves, vars, sessionVars, OutboxStep
<1> QED
  BY <1>1, <1>2, UiOutboxes DEF Next

\* Whatever the threads of the server do, each session's writer is used as its
\* specification Outbox allows, and does what it promises.
THEOREM SessionsAreOutboxes == Spec => OutboxesSpec
<1>1. Init => \A s \in Sessions : OutboxOf(s)!Init
  BY DEF Init, SessionInit, OutboxOf!Init
<1>2. Inv /\ [Next]_vars =>
        [\A s \in Sessions :
            [OutboxOf(s)!Next]_<<outbox[s], written[s], stuck[s]>>]_sessionVars
  BY OutboxesStep DEF OutboxStep
<1> QED
  BY <1>1, <1>2, ServerInvariant, PTL DEF Spec, OutboxesSpec

=============================================================================
