--------------------------- MODULE DatabaseProofs ---------------------------
(* Proofs about DatabaseService and about Teardown, which uses it, for any *)
(* users, passwords and requests.                                          *)
EXTENDS Teardown, DatabaseLemmas

(* Types.                                                                  *)

\* The callers keep the types.
LEMMA CallTyped ==
  ASSUME TypeOK, NEW request \in Request, Call(request) PROVE TypeOK'
<1>1. requests' \in Seq(Request)
  <2>1. <<request>> \in Seq(Request)
    OBVIOUS
  <2> QED
    BY <2>1, ConcatProperties DEF Call, Submit, TypeOK, DatabaseTypeOK
<1>2. calls' \in 0 .. MaxCalls
  BY CallsAssumption DEF Call, TypeOK
<1>3. late' \in Seq(Request)
  BY AppendProperties DEF Call, TypeOK
<1> QED
  BY <1>1, <1>2, <1>3 DEF Call, TypeOK, DatabaseTypeOK

\* Which calls are made.
LEMMA Calls ==
  ASSUME TypeOK,
         \/ RequestUserLogin \/ RequestUserRegister \/ RequestMessageSave
         \/ RequestProfilePictureSave \/ RequestUserProfilePicture
  PROVE  \E request \in Request :
            /\ Call(request)
            /\ request.type # "shutdown"
            /\ request.type \in Join => request.by = calls + 1
<1> USE DEF Request, JoinRequest, SaveMessageRequest, SavePictureRequest,
            GetPictureRequest, Join
<1>1. calls < MaxCalls => calls + 1 \in Sessions
  BY CallsAssumption DEF TypeOK
<1>2. CASE RequestUserLogin
  BY <1>1, <1>2 DEF RequestUserLogin, LoginRequest, Call
<1>3. CASE RequestUserRegister
  BY <1>1, <1>3 DEF RequestUserRegister, RegisterRequest, Call
<1>4. CASE RequestMessageSave
  BY <1>4 DEF RequestMessageSave, MessageSaveRequest
<1>5. CASE RequestProfilePictureSave
  BY <1>5 DEF RequestProfilePictureSave, ProfilePictureSaveRequest
<1>6. CASE RequestUserProfilePicture
  BY <1>6 DEF RequestUserProfilePicture, UserProfilePictureRequest
<1> QED
  BY <1>2, <1>3, <1>4, <1>5, <1>6

LEMMA TypeInit == Init => TypeOK
<1> SUFFICES ASSUME Init PROVE TypeOK
  OBVIOUS
<1>1. DatabaseTypeOK
  BY EmptySeq, DatabaseAssumption DEF Init, DatabaseInit, DatabaseTypeOK, UserRow
<1>2. taken \in Seq(Sessions) /\ late \in Seq(Request)
  BY EmptySeq DEF Init
<1>3. calls \in 0 .. MaxCalls
  BY CallsAssumption DEF Init
<1>4. closed \in BOOLEAN
  BY DEF Init
<1> QED
  BY <1>1, <1>2, <1>3, <1>4 DEF TypeOK

LEMMA TypeStep == TypeOK /\ [Next]_serviceVars => TypeOK'
<1> SUFFICES ASSUME TypeOK, [Next]_serviceVars PROVE TypeOK'
  OBVIOUS
<1>1. CASE RunDatabase
  BY <1>1, DatabaseThreadTyped DEF RunDatabase, TypeOK
<1>2. CASE \/ RequestUserLogin \/ RequestUserRegister \/ RequestMessageSave
           \/ RequestProfilePictureSave \/ RequestUserProfilePicture
  BY <1>2, Calls, CallTyped
<1>3. CASE TakeResponse
  <2>1. responses \in Seq(Response) /\ responses # <<>>
    BY <1>3 DEF TakeResponse, TypeOK, DatabaseTypeOK
  <2>2. Head(responses) \in Response /\ responses' \in Seq(Response)
    BY <1>3, <2>1, HeadTailProperties DEF TakeResponse
  <2>3. Head(responses).type \in Verdict => Head(responses).by \in Sessions
    BY <2>2 DEF Response, Answer, PictureAnswer, Verdict
  <2>4. taken' \in Seq(Sessions)
    BY <1>3, <2>3, AppendProperties DEF TakeResponse, TypeOK
  <2> QED
    BY <1>3, <2>2, <2>4 DEF TakeResponse, TypeOK, DatabaseTypeOK
<1>4. CASE CallClose
  <2>1. <<[type |-> "shutdown"]>> \in Seq(Request)
    BY DEF Request, ShutdownRequest
  <2>2. requests' \in Seq(Request)
    BY <1>4, <2>1, ConcatProperties DEF CallClose, Close, Submit, TypeOK, DatabaseTypeOK
  <2> QED
    BY <1>4, <2>2 DEF CallClose, TypeOK, DatabaseTypeOK
<1>5. CASE Restart
  BY <1>5, EmptySeq, CallsAssumption DEF Restart, TypeOK, DatabaseTypeOK
<1>6. CASE UNCHANGED serviceVars
  BY <1>6 DEF serviceVars, dbVars, TypeOK, DatabaseTypeOK
<1> QED
  BY <1>1, <1>2, <1>3, <1>4, <1>5, <1>6 DEF Next

\* The queues and the tables hold what their types say, whatever is asked.
THEOREM TypeCorrect == Spec => []TypeOK
  BY TypeInit, TypeStep, PTL DEF Spec

-----------------------------------------------------------------------------
(* The tables.  Only one step changes the table users.                     *)

LEMMA UsersStep ==
  ASSUME TypeOK, [Next]_serviceVars
  PROVE  \/ UNCHANGED users
         \/ \E u \in Users, p \in Passwords :
              /\ users' = Append(users, [name |-> u, password |-> p])
              /\ RowsOf(u) = {} \/ LookupMayFail
<1>1. CASE RunDatabase
  BY <1>1, UsersServed DEF RunDatabase, TypeOK
<1>2. CASE \/ RequestUserLogin \/ RequestUserRegister \/ RequestMessageSave
           \/ RequestProfilePictureSave \/ RequestUserProfilePicture
  BY <1>2, Calls DEF Call
<1>3. CASE TakeResponse \/ CallClose \/ Restart \/ UNCHANGED serviceVars
  BY <1>3 DEF TakeResponse, CallClose, Restart, serviceVars, dbVars
<1> QED
  BY <1>1, <1>2, <1>3 DEF Next

\* As long as no lookup fails, registering never makes a second account of a
\* name: the check and the insertion of handleRegisterRequest are not atomic
\* for SQLite, but nothing else writes to the table.
THEOREM NamesStayUnique ==
  ASSUME LookupMayFail = FALSE PROVE Spec => []UniqueUsernames
<1>1. Init => UniqueUsernames
  BY DatabaseAssumption DEF Init, DatabaseInit, UniqueUsernames
<1>2. TypeOK /\ UniqueUsernames /\ [Next]_serviceVars => UniqueUsernames'
  <2> SUFFICES ASSUME TypeOK, UniqueUsernames, [Next]_serviceVars
               PROVE  UniqueUsernames'
    OBVIOUS
  <2>1. CASE UNCHANGED users
    BY <2>1 DEF UniqueUsernames
  <2>2. ASSUME NEW u \in Users, NEW p \in Passwords, RowsOf(u) = {},
               users' = Append(users, [name |-> u, password |-> p])
        PROVE  UniqueUsernames'
    BY <2>2, NameAdded DEF TypeOK
  <2> QED
    BY <2>1, <2>2, UsersStep
<1> QED
  BY <1>1, <1>2, TypeCorrect, PTL DEF Spec

\* The database thread implements the account book: also when a failed lookup
\* lets a second row of the name in, the first one is what every login reads, so
\* that an account, once opened, keeps its password.
THEOREM TableIsAccountBook == Spec => AccountsSpec
<1>1. Init => Accounts!Init
  <2>1. Init => DatabaseTypeOK /\ UniqueUsernames
    BY TypeInit, DatabaseAssumption DEF Init, DatabaseInit, UniqueUsernames, TypeOK
  <2> QED
    BY <2>1, BookBegins
<1>2. TypeOK /\ [Next]_serviceVars => [Accounts!Next]_Book
  BY UsersStep, BookStep DEF TypeOK
<1> QED
  BY <1>1, <1>2, BookSpec, TypeCorrect, PTL DEF Spec

-----------------------------------------------------------------------------
(* The order of the answers.  The sessions whose answers were taken, whose *)
(* answers are queued and whose requests are queued make up one sequence:  *)
(* the thread moves the border between the two queues, and nothing else.   *)

\* The sessions that the elements of some types of a queue belong to.
Stamps(seq, types) ==
    LET kept == OfType(seq, types) IN [i \in DOMAIN kept |-> kept[i].by]

Order == Answered \o Stamps(requests, Join)

Ordered(seq) == \A i, j \in DOMAIN seq : i < j => seq[i] < seq[j]

OrderInv == TypeOK /\ Ordered(Order) /\ \A i \in DOMAIN Order : Order[i] <= calls

LEMMA StampsMapped ==
  ASSUME NEW S, NEW seq \in Seq(S), NEW types
  PROVE  Stamps(seq, types) = Mapped(OfType(seq, types), [x \in S |-> x.by])
<1> DEFINE kept == OfType(seq, types)
<1>1. kept \in Seq(S)
  <2>1. kept \in Seq({x \in S : x.type \in types})
    BY OfTypeTyped
  <2> QED
    BY <2>1, SeqMonotonic
<1> HIDE DEF kept
<1>2. \A i \in DOMAIN kept : kept[i] \in S
  BY <1>1, LenProperties, ElementOfSeq
<1>3. [i \in DOMAIN kept |-> kept[i].by] = Mapped(kept, [x \in S |-> x.by])
  BY <1>2 DEF Mapped
<1> QED
  BY <1>3 DEF Stamps, kept

LEMMA StampsTyped ==
  ASSUME NEW S, NEW seq \in Seq(S), NEW types,
         \A x \in S : x.type \in types => x.by \in Sessions
  PROVE  Stamps(seq, types) \in Seq(Sessions)
<1> DEFINE T == {x \in S : x.type \in types}
           kept == OfType(seq, types)
           g == [x \in T |-> x.by]
<1>1. kept \in Seq(T)
  BY OfTypeTyped
<1>2. \A x \in T : g[x] \in Sessions
  OBVIOUS
<1>3. \A i \in DOMAIN kept : kept[i] \in T /\ g[kept[i]] = kept[i].by
  <2> HIDE DEF T
  <2>1. \A i \in DOMAIN kept : kept[i] \in T
    BY <1>1, LenProperties, ElementOfSeq
  <2> QED
    BY <2>1 DEF g
<1>4. Stamps(seq, types) = Mapped(kept, g)
  <2> HIDE DEF T, g
  <2> QED
    BY <1>3 DEF Stamps, Mapped
<1> HIDE DEF T, kept, g
<1>5. Mapped(kept, g) \in Seq(Sessions)
  BY <1>1, <1>2, MappedTyped
<1> QED
  BY <1>4, <1>5

LEMMA StampsAppend ==
  ASSUME NEW S, NEW seq \in Seq(S), NEW x \in S, NEW types
  PROVE  Stamps(Append(seq, x), types) =
           IF x.type \in types THEN Append(Stamps(seq, types), x.by)
           ELSE Stamps(seq, types)
<1> DEFINE kept == OfType(seq, types)
           g == [y \in S |-> y.by]
           more == Append(seq, x)
<1>1. OfType(more, types) = IF x.type \in types THEN Append(kept, x) ELSE kept
  BY OfTypeAppend
<1>2. kept \in Seq(S) /\ more \in Seq(S) /\ g[x] = x.by
  <2>1. kept \in Seq({y \in S : y.type \in types})
    BY OfTypeTyped
  <2> QED
    BY <2>1, SeqMonotonic, AppendProperties
<1>3. Stamps(more, types) = Mapped(OfType(more, types), g)
  <2> HIDE DEF more
  <2> QED
    BY <1>2, StampsMapped
<1>4. Stamps(seq, types) = Mapped(kept, g)
  BY StampsMapped
<1> HIDE DEF kept, g, more
<1>5. Mapped(Append(kept, x), g) = Append(Mapped(kept, g), g[x])
  BY <1>2, MappedAppend
<1> QED
  BY <1>1, <1>2, <1>3, <1>4, <1>5 DEF more

LEMMA StampsTail ==
  ASSUME NEW S, NEW seq \in Seq(S), seq # <<>>, NEW types
  PROVE  Stamps(seq, types) =
           IF Head(seq).type \in types THEN <<Head(seq).by>> \o Stamps(Tail(seq), types)
           ELSE Stamps(Tail(seq), types)
<1> DEFINE x == Head(seq)
           rest == Tail(seq)
           one == <<x>>
           kept == OfType(rest, types)
           g == [y \in S |-> y.by]
<1>1. x \in S /\ rest \in Seq(S) /\ g[x] = x.by
  BY HeadTailProperties
<1>2. OfType(seq, types) = IF x.type \in types THEN one \o kept ELSE kept
  BY OfTypeTail
<1>3. Stamps(seq, types) = Mapped(OfType(seq, types), g)
  BY StampsMapped
<1> HIDE DEF x, rest
<1>4. Stamps(rest, types) = Mapped(kept, g)
  BY <1>1, StampsMapped
<1>5. kept \in Seq(S) /\ one \in Seq(S)
  <2>1. kept \in Seq({y \in S : y.type \in types})
    BY <1>1, OfTypeTyped
  <2> QED
    BY <1>1, <2>1, SeqMonotonic
<1>6. Mapped(one, g) = <<g[x]>>
  BY DEF Mapped
<1> HIDE DEF one, kept, g
<1>7. Mapped(one \o kept, g) = Mapped(one, g) \o Mapped(kept, g)
  BY <1>5, MappedConcat
<1> QED
  BY <1>1, <1>2, <1>3, <1>4, <1>6, <1>7 DEF x, rest

LEMMA OrderTyped ==
  ASSUME TypeOK
  PROVE  /\ requests \in Seq(Request) /\ responses \in Seq(Response)
         /\ taken \in Seq(Sessions)
         /\ Stamps(requests, Join) \in Seq(Sessions)
         /\ Stamps(responses, Verdict) \in Seq(Sessions)
         /\ Answered = taken \o Stamps(responses, Verdict)
         /\ Answered \in Seq(Sessions)
         /\ Order \in Seq(Sessions)
<1>1. requests \in Seq(Request) /\ responses \in Seq(Response) /\ taken \in Seq(Sessions)
  BY DEF TypeOK, DatabaseTypeOK
<1>2. /\ \A r \in Request : r.type \in Join => r.by \in Sessions
      /\ \A a \in Response : a.type \in Verdict => a.by \in Sessions
  BY DEF Request, JoinRequest, SaveMessageRequest, SavePictureRequest,
     GetPictureRequest, ShutdownRequest, Join, Response, Answer, PictureAnswer, Verdict
<1>3. /\ Stamps(requests, Join) \in Seq(Sessions)
      /\ Stamps(responses, Verdict) \in Seq(Sessions)
  BY <1>1, <1>2, StampsTyped
<1>4. Answered = taken \o Stamps(responses, Verdict)
  BY DEF Answered, Stamps
<1>5. Answered \in Seq(Sessions)
  BY <1>1, <1>3, <1>4, ConcatProperties
<1>6. Order \in Seq(Sessions)
  BY <1>3, <1>5, ConcatProperties DEF Order
<1> QED
  BY <1>1, <1>3, <1>4, <1>5, <1>6

\* An order that goes on with a larger number, or that is cut short.
LEMMA OrderedAppend ==
  ASSUME NEW a \in Seq(Nat), Ordered(a), NEW n \in Nat, \A i \in DOMAIN a : a[i] <= n
  PROVE  /\ Ordered(Append(a, n + 1))
         /\ \A i \in DOMAIN Append(a, n + 1) : Append(a, n + 1)[i] <= n + 1
<1> DEFINE more == Append(a, n + 1)
           m == Len(a)
<1>1. /\ m \in Nat /\ DOMAIN a = 1 .. m /\ DOMAIN more = 1 .. m + 1
      /\ more[m + 1] = n + 1 /\ \A i \in 1 .. m : more[i] = a[i] /\ a[i] \in Nat
  BY AppendProperties, LenProperties, ElementOfSeq
<1> HIDE DEF more, m
<1>2. \A i \in 1 .. m + 1 : i = m + 1 \/ i \in 1 .. m
  BY <1>1
<1>3. \A i, j \in 1 .. m + 1 : i < j => i \in 1 .. m
  BY <1>1
<1>4. Ordered(more)
  <2> SUFFICES ASSUME NEW i \in 1 .. m, NEW j \in 1 .. m + 1, i < j
               PROVE  more[i] < more[j]
    BY <1>1, <1>3 DEF Ordered
  <2>1. more[i] = a[i] /\ a[i] \in Nat /\ a[i] <= n
    BY <1>1
  <2>2. CASE j = m + 1
    BY <1>1, <2>1, <2>2
  <2>3. CASE j \in 1 .. m
    BY <1>1, <2>1, <2>3 DEF Ordered
  <2> QED
    BY <1>2, <2>2, <2>3
<1>5. \A i \in DOMAIN more : more[i] <= n + 1
  BY <1>1, <1>2
<1> QED
  BY <1>4, <1>5 DEF more

LEMMA OrderedPrefix ==
  ASSUME NEW S, NEW a \in Seq(S), NEW b \in Seq(S), Ordered(a \o b)
  PROVE  /\ Ordered(a) /\ DOMAIN a \subseteq DOMAIN (a \o b)
         /\ \A i \in DOMAIN a : (a \o b)[i] = a[i]
<1> DEFINE ab == a \o b
           n == Len(a)
           m == Len(b)
<1>1. /\ n \in Nat /\ m \in Nat /\ DOMAIN a = 1 .. n /\ DOMAIN ab = 1 .. n + m
      /\ \A i \in 1 .. n + m : i <= n => ab[i] = a[i]
  BY ConcatProperties, LenProperties
<1> HIDE DEF ab, n, m
<1>2. \A i \in 1 .. n : i \in 1 .. n + m /\ ab[i] = a[i]
  BY <1>1
<1>3. Ordered(ab)
  BY DEF ab
<1>4. Ordered(a)
  BY <1>1, <1>2, <1>3 DEF Ordered
<1> QED
  BY <1>1, <1>2, <1>4 DEF ab

\* What a step does to the order: a call puts its number at the end, and a
\* restart leaves the answers that were taken.
LEMMA OrderServed ==
  ASSUME TypeOK, RunDatabase PROVE Order' = Order
<1> DEFINE answers == Stamps(responses, Verdict)
           asks == Stamps(requests, Join)
<1>1. /\ requests \in Seq(Request) /\ responses \in Seq(Response)
      /\ taken \in Seq(Sessions)
      /\ answers \in Seq(Sessions) /\ asks \in Seq(Sessions)
      /\ Order = (taken \o answers) \o asks
  BY OrderTyped DEF Order
<1>2. Order' = (taken \o answers') \o asks'
  BY DEF Order, Answered, RunDatabase, Stamps
<1>3. DatabaseTypeOK /\ DatabaseThread
  BY DEF RunDatabase, TypeOK
<1>4. CASE UNCHANGED <<requests, responses>>
  BY <1>1, <1>2, <1>4 DEF Stamps
<1>5. CASE /\ requests # <<>> /\ ~IsAsk(Head(requests))
           /\ \/ requests' = Tail(requests)
              \/ \E r \in GetPictureRequest : requests' = Append(Tail(requests), r)
           /\ \/ responses' = responses
              \/ \E a \in PictureAnswer : responses' = Append(responses, a)
  <2>1. Tail(requests) \in Seq(Request) /\ asks = Stamps(Tail(requests), Join)
    BY <1>1, <1>5, HeadTailProperties, StampsTail DEF IsAsk
  <2>2. /\ \A r \in GetPictureRequest : r \in Request /\ r.type \notin Join
        /\ \A a \in PictureAnswer : a \in Response /\ a.type \notin Verdict
    BY DEF GetPictureRequest, PictureAnswer, Request, Response, Join, Verdict
  <2>3. asks' = asks
    <3>1. asks' = Stamps(requests', Join)
      OBVIOUS
    <3> HIDE DEF asks
    <3>2. CASE requests' = Tail(requests)
      BY <2>1, <3>1, <3>2
    <3>3. ASSUME NEW r \in GetPictureRequest, requests' = Append(Tail(requests), r)
          PROVE  asks' = asks
      <4> DEFINE rest == Tail(requests)
      <4>1. Stamps(Append(rest, r), Join) = Stamps(rest, Join)
        <5>1. r \in Request /\ r.type \notin Join /\ rest \in Seq(Request)
          BY <2>1, <2>2
        <5> HIDE DEF rest
        <5> QED
          BY <5>1, StampsAppend
      <4> QED
        BY <2>1, <3>1, <3>3, <4>1
    <3> QED
      BY <1>5, <3>2, <3>3
  <2>4. answers' = answers
    <3>1. answers' = Stamps(responses', Verdict)
      OBVIOUS
    <3>2. ASSUME NEW a \in PictureAnswer, responses' = Append(responses, a)
          PROVE  answers' = answers
      <4>1. Stamps(Append(responses, a), Verdict) = Stamps(responses, Verdict)
        <5>1. a \in Response /\ a.type \notin Verdict
          BY <2>2
        <5> QED
          BY <1>1, <5>1, StampsAppend
      <4> QED
        BY <3>1, <3>2, <4>1
    <3> QED
      BY <1>5, <3>1, <3>2
  <2> QED
    BY <1>1, <1>2, <2>3, <2>4
<1>6. CASE /\ requests # <<>> /\ Head(requests) \in JoinRequest
           /\ requests' = Tail(requests)
           /\ \E a \in Answer : /\ a.by = Head(requests).by
                                /\ a.name = Head(requests).name
                                /\ responses' = Append(responses, a)
  <2> DEFINE s == Head(requests).by
  <2>1. Head(requests).type \in Join /\ s \in Sessions /\ Tail(requests) \in Seq(Request)
    BY <1>1, <1>6, HeadTailProperties DEF JoinRequest
  <2>2. asks = <<s>> \o asks'
    BY <1>1, <1>6, <2>1, StampsTail
  <2>3. \A a \in Answer : a \in Response /\ a.type \in Verdict
    BY DEF Answer, Response
  <2>4. answers' = Append(answers, s)
    <3>1. PICK a \in Answer : a.by = s /\ responses' = Append(responses, a)
      BY <1>6
    <3>2. Stamps(Append(responses, a), Verdict) = Append(answers, a.by)
      BY <1>1, <2>3, StampsAppend
    <3>3. answers' = Stamps(responses', Verdict)
      OBVIOUS
    <3> HIDE DEF s, answers
    <3> QED
      BY <3>1, <3>2, <3>3
  <2>5. asks' \in Seq(Sessions)
    <3>1. \A r \in Request : r.type \in Join => r.by \in Sessions
      BY DEF Request, JoinRequest, SaveMessageRequest, SavePictureRequest,
         GetPictureRequest, ShutdownRequest, Join
    <3> QED
      BY <1>6, <2>1, <3>1, StampsTyped
  <2> HIDE DEF s, answers, asks
  <2>6. /\ <<s>> \in Seq(Sessions) /\ taken \o answers \in Seq(Sessions)
        /\ taken \o Append(answers, s) = Append(taken \o answers, s)
    BY <1>1, <2>1, AppendConcat, ConcatProperties
  <2>7. Append(taken \o answers, s) = (taken \o answers) \o <<s>>
    BY <2>1, <2>6, AppendIsConcat
  <2>8. ((taken \o answers) \o <<s>>) \o asks' = (taken \o answers) \o (<<s>> \o asks')
    BY <2>5, <2>6, ConcatAssociative
  <2> QED
    BY <1>1, <1>2, <2>2, <2>4, <2>6, <2>7, <2>8
<1> QED
  BY <1>3, <1>4, <1>5, <1>6, QueuesServed

LEMMA OrderStep == OrderInv /\ [Next]_serviceVars => OrderInv'
<1> SUFFICES ASSUME OrderInv, [Next]_serviceVars PROVE OrderInv'
  OBVIOUS
<1> DEFINE answers == Stamps(responses, Verdict)
           asks == Stamps(requests, Join)
<1>1. /\ TypeOK /\ calls \in Nat /\ Ordered(Order)
      /\ \A i \in DOMAIN Order : Order[i] <= calls
  BY DEF OrderInv, TypeOK
<1>2. TypeOK'
  BY <1>1, TypeStep
<1>3. /\ requests \in Seq(Request) /\ responses \in Seq(Response)
      /\ taken \in Seq(Sessions)
      /\ answers \in Seq(Sessions) /\ asks \in Seq(Sessions)
      /\ Answered \in Seq(Sessions) /\ Order \in Seq(Sessions)
      /\ Answered = taken \o answers /\ Order = Answered \o asks
  BY <1>1, OrderTyped DEF Order
<1>4. Order' = Answered' \o asks' /\ Answered' = taken' \o answers'
  BY DEF Order, Answered, Stamps
<1>5. CASE Order' = Order /\ calls' = calls
  BY <1>1, <1>2, <1>5 DEF OrderInv, Ordered
<1>6. CASE Order' = Append(Order, calls + 1) /\ calls' = calls + 1
  <2>1. Order \in Seq(Nat)
    <3>1. Sessions \subseteq Nat
      BY CallsAssumption
    <3> QED
      BY <1>3, <3>1, SeqMonotonic
  <2>2. /\ Ordered(Append(Order, calls + 1))
        /\ \A i \in DOMAIN Append(Order, calls + 1) :
             Append(Order, calls + 1)[i] <= calls + 1
    BY <1>1, <2>1, OrderedAppend
  <2> QED
    BY <1>2, <1>6, <2>2 DEF OrderInv, Ordered
<1>7. CASE RunDatabase
  BY <1>1, <1>5, <1>7, OrderServed DEF RunDatabase
<1>8. CASE \/ RequestUserLogin \/ RequestUserRegister \/ RequestMessageSave
           \/ RequestProfilePictureSave \/ RequestUserProfilePicture
  <2>1. PICK request \in Request :
          /\ Call(request)
          /\ request.type \in Join => request.by = calls + 1
    BY <1>1, <1>8, Calls
  <2>2. calls' = calls + 1 /\ Answered' = Answered
    BY <2>1 DEF Call, Answered
  <2>3. requests' = Append(requests, request)
    BY <1>3, <2>1, AppendIsConcat DEF Call, Submit
  <2>4. asks' = IF request.type \in Join THEN Append(asks, request.by) ELSE asks
    BY <1>3, <2>3, StampsAppend
  <2> HIDE DEF answers, asks
  <2>5. CASE request.type \in Join
    <3>1. calls + 1 \in Sessions
      BY <1>1, <2>1, CallsAssumption DEF Call, TypeOK
    <3>2. Answered \o Append(asks, calls + 1) = Append(Answered \o asks, calls + 1)
      BY <1>3, <3>1, AppendConcat
    <3> QED
      BY <1>3, <1>4, <1>6, <2>1, <2>2, <2>4, <2>5, <3>2
  <2>6. CASE request.type \notin Join
    <3>1. Order' = Order
      BY <1>3, <1>4, <2>2, <2>4, <2>6
    <3>2. \A i \in DOMAIN Order : Order[i] \in Nat
      <4> DEFINE order == Order
      <4>1. order \in Seq(Sessions) /\ Sessions \subseteq Nat
        BY <1>3, CallsAssumption
      <4> HIDE DEF order
      <4>2. DOMAIN order = 1 .. Len(order) /\ \A i \in 1 .. Len(order) : order[i] \in Sessions
        BY <4>1, LenProperties, ElementOfSeq
      <4>3. \A i \in DOMAIN order : order[i] \in Nat
        BY <4>1, <4>2
      <4> QED
        BY <4>3 DEF order
    <3>3. \A i \in DOMAIN Order : Order[i] <= calls + 1
      BY <1>1, <3>2
    <3> QED
      BY <1>1, <1>2, <2>2, <3>1, <3>3 DEF OrderInv, Ordered
  <2> QED
    BY <2>5, <2>6
<1>9. CASE TakeResponse
  <2> DEFINE a == Head(responses)
  <2>1. /\ responses # <<>> /\ a \in Response /\ responses' = Tail(responses)
        /\ asks' = asks /\ calls' = calls
        /\ a.type \in Verdict => a.by \in Sessions
    <3>1. responses # <<>> /\ a \in Response
      BY <1>3, <1>9, HeadTailProperties DEF TakeResponse
    <3> QED
      BY <1>9, <3>1 DEF TakeResponse, Response, Answer, PictureAnswer, Verdict
  <2>2. answers = IF a.type \in Verdict THEN <<a.by>> \o answers' ELSE answers'
    BY <1>3, <2>1, StampsTail
  <2>3. taken' = IF a.type \in Verdict THEN Append(taken, a.by) ELSE taken
    BY <1>9 DEF TakeResponse
  <2>4. Tail(responses) \in Seq(Response)
    BY <1>3, <2>1, HeadTailProperties
  <2>5. answers' \in Seq(Sessions)
    <3>1. \A r \in Response : r.type \in Verdict => r.by \in Sessions
      BY DEF Response, Answer, PictureAnswer, Verdict
    <3> QED
      BY <2>1, <2>4, <3>1, StampsTyped
  <2> HIDE DEF a, answers, asks
  <2>6. CASE a.type \in Verdict
    <3>1. Append(taken, a.by) \o answers' = taken \o (<<a.by>> \o answers')
      <4>1. <<a.by>> \in Seq(Sessions) /\ Append(taken, a.by) = taken \o <<a.by>>
        BY <1>3, <2>1, <2>6, AppendIsConcat
      <4> QED
        BY <1>3, <2>5, <4>1, ConcatAssociative
    <3> QED
      BY <1>3, <1>4, <1>5, <2>1, <2>2, <2>3, <2>6, <3>1
  <2>7. CASE a.type \notin Verdict
    BY <1>3, <1>4, <1>5, <2>1, <2>2, <2>3, <2>7
  <2> QED
    BY <2>6, <2>7
<1>10. CASE CallClose
  <2> DEFINE stop == [type |-> "shutdown"]
  <2>1. stop \in Request /\ stop.type \notin Join
    BY DEF Request, ShutdownRequest, Join
  <2>2. Answered' = Answered /\ calls' = calls /\ requests' = requests \o <<stop>>
    BY <1>10 DEF CallClose, Answered, Close, Submit
  <2> HIDE DEF stop
  <2>3. requests' = Append(requests, stop)
    BY <1>3, <2>1, <2>2, AppendIsConcat
  <2>4. asks' = asks
    BY <1>3, <2>1, <2>3, StampsAppend
  <2> QED
    BY <1>3, <1>4, <1>5, <2>2, <2>4
<1>11. CASE Restart
  <2>1. answers' = <<>> /\ asks' = <<>>
    <3>1. requests' = <<>> /\ responses' = <<>>
      BY <1>11 DEF Restart
    <3> QED
      BY <3>1, OfTypeEmpty, EmptySeq DEF Stamps
  <2> HIDE DEF answers, asks
  <2>2. Order' = taken /\ calls' = calls
    <3>1. taken' = taken /\ calls' = calls
      BY <1>11 DEF Restart
    <3>2. taken \o <<>> = taken
      BY <1>3, ConcatEmptySeq
    <3> QED
      BY <1>4, <2>1, <3>1, <3>2
  <2>3. answers \o asks \in Seq(Sessions) /\ Order = taken \o (answers \o asks)
    <3>1. answers \o asks \in Seq(Sessions)
      BY <1>3, ConcatProperties
    <3>2. (taken \o answers) \o asks = taken \o (answers \o asks)
      BY <1>3, ConcatAssociative
    <3> QED
      BY <1>3, <3>1, <3>2
  <2>4. /\ Ordered(taken) /\ DOMAIN taken \subseteq DOMAIN Order
        /\ \A i \in DOMAIN taken : Order[i] = taken[i]
    <3> DEFINE more == answers \o asks
    <3>1. taken \in Seq(Sessions) /\ more \in Seq(Sessions) /\ Order = taken \o more
      BY <1>3, <2>3
    <3> HIDE DEF more
    <3>2. Ordered(taken \o more)
      BY <1>1, <3>1
    <3>3. /\ Ordered(taken) /\ DOMAIN taken \subseteq DOMAIN (taken \o more)
          /\ \A i \in DOMAIN taken : (taken \o more)[i] = taken[i]
      BY <3>1, <3>2, OrderedPrefix
    <3> QED
      BY <3>1, <3>3
  <2>5. \A i \in DOMAIN taken : taken[i] <= calls
    BY <1>1, <2>4
  <2>6. Ordered(Order)'
    BY <2>2, <2>4 DEF Ordered
  <2>7. (\A i \in DOMAIN Order : Order[i] <= calls)'
    BY <2>2, <2>5
  <2> QED
    BY <1>2, <2>6, <2>7 DEF OrderInv
<1>12. CASE UNCHANGED serviceVars
  <2>1. Order' = Order /\ calls' = calls
    BY <1>12 DEF serviceVars, dbVars, Order, Answered, Stamps
  <2> QED
    BY <1>5, <2>1
<1> QED
  BY <1>7, <1>8, <1>9, <1>10, <1>11, <1>12 DEF Next

LEMMA OrderInit == Init => OrderInv
<1> SUFFICES ASSUME Init PROVE OrderInv
  OBVIOUS
<1>1. taken = <<>> /\ Stamps(requests, Join) = <<>> /\ Stamps(responses, Verdict) = <<>>
  BY OfTypeEmpty, EmptySeq DEF Init, DatabaseInit, Stamps
<1>2. Answered = taken \o Stamps(responses, Verdict)
  BY DEF Answered, Stamps
<1>3. Order = <<>>
  BY <1>1, <1>2, ConcatEmptySeq, EmptySeq DEF Order
<1>4. DOMAIN Order = {}
  BY <1>3, EmptySeq
<1> QED
  BY <1>4, TypeInit DEF OrderInv, Ordered

\* Join requests are answered in the order in which they were made and at most
\* once, whatever is queued between them and however often the program restarts.
THEOREM AnsweredAsAsked == Spec => []AnsweredInOrder
<1>1. OrderInv => AnsweredInOrder
  <2> SUFFICES ASSUME OrderInv PROVE AnsweredInOrder
    OBVIOUS
  <2>1. /\ Answered \in Seq(Sessions) /\ Stamps(requests, Join) \in Seq(Sessions)
        /\ Ordered(Answered \o Stamps(requests, Join))
    BY OrderTyped DEF OrderInv, Order
  <2>2. Ordered(Answered)
    BY <2>1, OrderedPrefix
  <2> QED
    BY <2>2 DEF Ordered, AnsweredInOrder
<1> QED
  BY <1>1, OrderInit, OrderStep, PTL DEF Spec

-----------------------------------------------------------------------------
(* The orderly stop.                                                       *)

\* There is no order to stop before close().  After it there is one, and behind
\* it are the requests handed over since, with those the thread itself adds.
StopInOrder ==
    /\ ~closed =>
         /\ dbThread # "stopped"
         /\ \A i \in DOMAIN requests : requests[i].type # "shutdown"
         /\ late = <<>>
    /\ closed /\ dbThread # "stopped" =>
         \E before, behind \in Seq(Request), stop \in ShutdownRequest :
            /\ requests = before \o (<<stop>> \o behind)
            /\ \A i \in DOMAIN before : before[i].type # "shutdown"
            /\ OfType(behind, Owing) = OfType(late, Owing)

StopInv == TypeOK /\ StopInOrder /\ StopDrainsQueue

\* The queue behind a request that was served.
LEMMA RequestServed ==
  ASSUME TypeOK, Serve
  PROVE  /\ requests # <<>> /\ dbThread = "running"
         /\ \/ /\ requests' = Tail(requests)
               /\ dbThread' = IF Head(requests).type = "shutdown" THEN "stopped" ELSE dbThread
            \/ /\ Head(requests).type # "shutdown" /\ dbThread' = dbThread
               /\ \E again \in GetPictureRequest : requests' = Append(Tail(requests), again)
<1> DEFINE r == Head(requests)
<1>1. requests # <<>> /\ dbThread = "running"
  BY DEF Serve
<1>2. r \in Request
  BY <1>1, RequestTaken DEF TypeOK
<1>3. CASE HandleSavePicture(r) /\ r.content = NoPixels
  <2>1. r \in SavePictureRequest
    BY <1>2, <1>3 DEF HandleSavePicture, Request, JoinRequest, SaveMessageRequest,
       SavePictureRequest, GetPictureRequest, ShutdownRequest, Join
  <2>2. UserProfilePictureRequest(r.name, r.name) \in GetPictureRequest
    BY <2>1 DEF SavePictureRequest, UserProfilePictureRequest, GetPictureRequest
  <2> QED
    BY <1>1, <1>3, <2>2 DEF HandleSavePicture
<1>4. CASE HandleSavePicture(r) /\ r.content # NoPixels
  BY <1>1, <1>4 DEF HandleSavePicture
<1>5. CASE ~HandleSavePicture(r)
  BY <1>1, <1>5 DEF Serve, HandleLogin, HandleRegister, HandleSaveMessage,
     HandleGetPicture, HandleShutdown
<1> QED
  BY <1>3, <1>4, <1>5

LEMMA TailOfConcat ==
  ASSUME NEW S, NEW a \in Seq(S), a # <<>>, NEW b \in Seq(S)
  PROVE  /\ a \o b \in Seq(S) /\ a \o b # <<>>
         /\ Head(a \o b) = Head(a)
         /\ Tail(a \o b) = Tail(a) \o b
<1>1. /\ Len(a) \in Nat \ {0} /\ Len(b) \in Nat
      /\ Tail(a) \in Seq(S) /\ Len(Tail(a)) = Len(a) - 1 /\ Head(a) = a[1]
      /\ \A i \in 1 .. Len(a) - 1 : Tail(a)[i] = a[i + 1]
  BY HeadTailProperties, LenProperties, EmptySeq
<1>2. /\ a \o b \in Seq(S) /\ Len(a \o b) = Len(a) + Len(b)
      /\ \A i \in 1 .. Len(a) + Len(b) :
           (a \o b)[i] = IF i <= Len(a) THEN a[i] ELSE b[i - Len(a)]
  BY ConcatProperties
<1>3. a \o b # <<>>
  BY <1>1, <1>2, EmptySeq
<1> DEFINE ab == a \o b
           t == Tail(a)
           rest == Tail(ab)
<1>4. /\ Head(ab) = ab[1] /\ rest \in Seq(S) /\ Len(rest) = Len(a) + Len(b) - 1
      /\ \A i \in 1 .. Len(a) + Len(b) - 1 : rest[i] = ab[i + 1]
  BY <1>1, <1>2, <1>3, HeadTailProperties
<1>5. /\ t \o b \in Seq(S) /\ Len(t \o b) = Len(t) + Len(b)
      /\ \A i \in 1 .. Len(t) + Len(b) :
           (t \o b)[i] = IF i <= Len(t) THEN t[i] ELSE b[i - Len(t)]
  BY <1>1, ConcatProperties
<1>6. /\ Len(t) = Len(a) - 1 /\ \A i \in 1 .. Len(a) - 1 : t[i] = a[i + 1]
  BY <1>1
<1> HIDE DEF ab, t, rest
<1>7. ASSUME NEW i \in 1 .. Len(a) + Len(b) - 1 PROVE rest[i] = (t \o b)[i]
  <2>1. /\ i \in Nat /\ i + 1 \in 1 .. Len(a) + Len(b) /\ i \in 1 .. Len(t) + Len(b)
    BY <1>1, <1>6
  <2>2. rest[i] = IF i + 1 <= Len(a) THEN a[i + 1] ELSE b[i + 1 - Len(a)]
    BY <1>2, <1>4, <2>1 DEF ab
  <2>3. (t \o b)[i] = IF i <= Len(t) THEN t[i] ELSE b[i - Len(t)]
    BY <1>5, <2>1
  <2>4. i + 1 <= Len(a) => i <= Len(t) /\ t[i] = a[i + 1]
    BY <1>1, <1>6, <2>1
  <2>5. ~(i + 1 <= Len(a)) => ~(i <= Len(t)) /\ i + 1 - Len(a) = i - Len(t)
    BY <1>1, <1>6, <2>1
  <2> QED
    BY <2>2, <2>3, <2>4, <2>5
<1>8. Len(t \o b) = Len(a) + Len(b) - 1
  BY <1>1, <1>5, <1>6
<1>9. rest = t \o b
  BY <1>4, <1>5, <1>7, <1>8, SeqEqual
<1> QED
  BY <1>1, <1>2, <1>3, <1>4, <1>9 DEF ab, t, rest

LEMMA SameWithMore ==
  ASSUME NEW S, NEW a \in Seq(S), NEW b \in Seq(S), NEW x \in S, NEW types,
         OfType(a, types) = OfType(b, types)
  PROVE  OfType(Append(a, x), types) = OfType(Append(b, x), types)
<1>1. OfType(Append(a, x), types) =
        IF x.type \in types THEN Append(OfType(a, types), x) ELSE OfType(a, types)
  BY OfTypeAppend
<1>2. OfType(Append(b, x), types) =
        IF x.type \in types THEN Append(OfType(b, types), x) ELSE OfType(b, types)
  BY OfTypeAppend
<1> QED
  BY <1>1, <1>2

\* What holds of no element holds of none of its tail.
LEMMA TailWithout ==
  ASSUME NEW seq \in Seq(Request), seq # <<>>,
         \A i \in DOMAIN seq : seq[i].type # "shutdown"
  PROVE  /\ Tail(seq) \in Seq(Request)
         /\ Head(seq).type # "shutdown"
         /\ \A i \in DOMAIN Tail(seq) : Tail(seq)[i].type # "shutdown"
<1> DEFINE t == Tail(seq)
<1>1. /\ t \in Seq(Request) /\ Len(t) = Len(seq) - 1 /\ Head(seq) = seq[1]
      /\ \A i \in 1 .. Len(t) : t[i] = seq[i + 1]
      /\ Len(seq) \in Nat \ {0} /\ DOMAIN seq = 1 .. Len(seq)
  BY HeadTailProperties, LenProperties, EmptySeq
<1> HIDE DEF t
<1>2. DOMAIN t = 1 .. Len(t)
  BY <1>1, LenProperties
<1>3. ASSUME NEW i \in DOMAIN t PROVE t[i].type # "shutdown"
  <2>1. i \in 1 .. Len(t) /\ i + 1 \in DOMAIN seq
    BY <1>1, <1>2
  <2>2. t[i] = seq[i + 1]
    BY <1>1, <2>1
  <2> QED
    BY <2>1, <2>2
<1>4. 1 \in DOMAIN seq
  BY <1>1
<1> QED
  BY <1>1, <1>3, <1>4 DEF t

LEMMA StopInit == Init => StopInv
  BY TypeInit
  DEF Init, DatabaseInit, StopInv, StopInOrder, StopDrainsQueue

\* A request that is put at the end is put behind the order to stop.
LEMMA StopCalled ==
  ASSUME StopInv, TypeOK', NEW request \in Request, request.type # "shutdown", Call(request)
  PROVE  StopInOrder' /\ StopDrainsQueue'
<1> USE DEF StopInv, StopInOrder, StopDrainsQueue
<1>0. requests \in Seq(Request) /\ late \in Seq(Request)
  BY DEF TypeOK, DatabaseTypeOK
<1>1. requests' = Append(requests, request) /\ UNCHANGED <<dbThread, closed>>
  BY <1>0, AppendIsConcat DEF Call, Submit
<1>2. /\ closed => late' = Append(late, request)
      /\ ~closed => late' = late
  BY DEF Call
<1>3. CASE ~closed
  <2>1. \A i \in DOMAIN requests' : requests'[i].type # "shutdown"
    BY <1>0, <1>1, <1>3, AppendProperties, LenProperties
  <2> QED
    BY <1>1, <1>2, <1>3, <2>1
<1>4. CASE closed /\ dbThread # "stopped"
  <2>1. PICK before, behind \in Seq(Request), stop \in ShutdownRequest :
            /\ requests = before \o (<<stop>> \o behind)
            /\ \A i \in DOMAIN before : before[i].type # "shutdown"
            /\ OfType(behind, Owing) = OfType(late, Owing)
    BY <1>4
  <2> DEFINE first == <<stop>>
  <2>2. first \in Seq(Request) /\ first \o behind \in Seq(Request)
    <3>1. stop \in Request
      BY DEF Request
    <3> QED
      BY <3>1, ConcatProperties
  <2> HIDE DEF first
  <2>3. first \o Append(behind, request) = Append(first \o behind, request)
    BY <2>2, AppendConcat
  <2>4. before \o Append(first \o behind, request) = Append(before \o (first \o behind), request)
    BY <2>2, AppendConcat
  <2>5. requests' = before \o (first \o Append(behind, request))
    BY <1>1, <2>1, <2>3, <2>4 DEF first
  <2>6. OfType(Append(behind, request), Owing) = OfType(Append(late, request), Owing)
    <3>1. behind \in Seq(Request) /\ OfType(behind, Owing) = OfType(late, Owing)
      BY <2>1
    <3> QED
      BY <1>0, <3>1, SameWithMore
  <2>7. Append(behind, request) \in Seq(Request)
    BY AppendProperties
  <2> QED
    BY <1>1, <1>2, <1>4, <2>1, <2>5, <2>6, <2>7 DEF first
<1>5. CASE closed /\ dbThread = "stopped"
  <2>1. OfType(Append(requests, request), Owing) = OfType(Append(late, request), Owing)
    <3>1. OfType(requests, Owing) = OfType(late, Owing)
      BY <1>5
    <3> QED
      BY <1>0, <3>1, SameWithMore
  <2> QED
    BY <1>1, <1>2, <1>5, <2>1
<1> QED
  BY <1>3, <1>4, <1>5

\* The order to stop moves one place to the front, or is obeyed.
LEMMA StopServed ==
  ASSUME StopInv, Serve, UNCHANGED <<closed, late>>
  PROVE  StopInOrder' /\ StopDrainsQueue'
<1> USE DEF StopInv, StopInOrder, StopDrainsQueue
<1>0. requests \in Seq(Request) /\ late \in Seq(Request)
  BY DEF TypeOK, DatabaseTypeOK
<1>1. /\ requests # <<>> /\ dbThread = "running"
      /\ \/ /\ requests' = Tail(requests)
            /\ dbThread' = IF Head(requests).type = "shutdown" THEN "stopped" ELSE dbThread
         \/ /\ Head(requests).type # "shutdown" /\ dbThread' = dbThread
            /\ \E again \in GetPictureRequest : requests' = Append(Tail(requests), again)
  BY RequestServed
<1>2. \A again \in GetPictureRequest :
        again \in Request /\ again.type # "shutdown" /\ again.type \notin Owing
  BY DEF GetPictureRequest, Request, Owing, Join
<1>3. CASE ~closed
  <2>1. /\ Head(requests).type # "shutdown"
        /\ \A i \in DOMAIN Tail(requests) : Tail(requests)[i].type # "shutdown"
    BY <1>0, <1>1, <1>3, TailWithout
  <2>2. Tail(requests) \in Seq(Request)
    BY <1>0, <1>1, HeadTailProperties
  <2>3. dbThread' = dbThread
    BY <1>1, <2>1
  <2>4. \A i \in DOMAIN requests' : requests'[i].type # "shutdown"
    <3>1. CASE requests' = Tail(requests)
      BY <2>1, <3>1
    <3>2. ASSUME NEW again \in GetPictureRequest, requests' = Append(Tail(requests), again)
          PROVE  \A i \in DOMAIN requests' : requests'[i].type # "shutdown"
      BY <1>2, <2>1, <2>2, <3>2, AppendProperties, LenProperties
    <3> QED
      BY <1>1, <3>1, <3>2
  <2> QED
    BY <1>1, <1>3, <2>3, <2>4
<1>4. CASE closed
  <2>1. PICK before, behind \in Seq(Request), stop \in ShutdownRequest :
            /\ requests = before \o (<<stop>> \o behind)
            /\ \A i \in DOMAIN before : before[i].type # "shutdown"
            /\ OfType(behind, Owing) = OfType(late, Owing)
    BY <1>1, <1>4
  <2> DEFINE first == <<stop>>
             back == first \o behind
  <2>2. /\ first \in Seq(Request) /\ first # <<>> /\ back \in Seq(Request)
        /\ Head(first) = stop /\ Tail(first) = <<>> /\ stop.type = "shutdown"
    <3>1. stop \in Request /\ stop.type = "shutdown"
      BY DEF Request, ShutdownRequest
    <3> QED
      BY <3>1, ConcatProperties
  <2>3. requests = before \o back
    BY <2>1
  <2> HIDE DEF first
  <2>4. back # <<>> /\ Head(back) = stop /\ Tail(back) = behind
    <3>1. first \o behind # <<>> /\ Head(first \o behind) = Head(first)
          /\ Tail(first \o behind) = Tail(first) \o behind
      <4>1. first \in Seq(Request) /\ first # <<>> /\ behind \in Seq(Request)
        BY <2>2
      <4> QED
        BY <4>1, TailOfConcat
    <3>2. <<>> \o behind = behind
      BY ConcatEmptySeq
    <3> QED
      BY <2>2, <3>1, <3>2
  <2>5. CASE before = <<>>
    <3>1. requests = back
      BY <2>2, <2>3, <2>5, ConcatEmptySeq
    <3>2. requests' = behind /\ dbThread' = "stopped"
      BY <1>1, <2>2, <2>4, <3>1
    <3> QED
      BY <1>4, <2>1, <3>2
  <2>6. CASE before # <<>>
    <3> DEFINE ahead == Tail(before)
    <3>1. Head(requests) = Head(before) /\ Tail(requests) = ahead \o back
      <4> HIDE DEF back
      <4> QED
        BY <2>2, <2>3, <2>6, TailOfConcat
    <3>2. /\ ahead \in Seq(Request)
          /\ Head(before).type # "shutdown"
          /\ \A i \in DOMAIN ahead : ahead[i].type # "shutdown"
      BY <2>1, <2>6, TailWithout
    <3> HIDE DEF ahead
    <3>3. dbThread' = "running"
      BY <1>1, <3>1, <3>2
    <3>4. CASE requests' = Tail(requests)
      <4>1. requests' = ahead \o (<<stop>> \o behind)
        BY <3>1, <3>4 DEF first
      <4> QED
        BY <1>4, <2>1, <3>2, <3>3, <4>1
    <3>5. ASSUME NEW again \in GetPictureRequest, requests' = Append(Tail(requests), again)
          PROVE  StopInOrder' /\ StopDrainsQueue'
      <4>1. again \in Request /\ again.type \notin Owing
        BY <1>2
      <4> DEFINE more == Append(behind, again)
      <4>2. more \in Seq(Request) /\ OfType(more, Owing) = OfType(late, Owing)
        <5>1. OfType(more, Owing) = OfType(behind, Owing)
          BY <4>1, OfTypeAppend
        <5> QED
          BY <2>1, <4>1, <5>1, AppendProperties
      <4>3. Append(back, again) = first \o more
        <5>1. first \o Append(behind, again) = Append(first \o behind, again)
          <6>1. first \in Seq(Request) /\ again \in Request /\ behind \in Seq(Request)
            BY <2>2, <4>1
          <6> QED
            BY <6>1, AppendConcat
        <5> QED
          BY <5>1
      <4>4. Append(ahead \o back, again) = ahead \o Append(back, again)
        <5> HIDE DEF back
        <5>1. ahead \o Append(back, again) = Append(ahead \o back, again)
          <6>1. ahead \in Seq(Request) /\ back \in Seq(Request) /\ again \in Request
            BY <2>2, <3>2, <4>1
          <6> QED
            BY <6>1, AppendConcat
        <5> QED
          BY <5>1
      <4>5. requests' = ahead \o (<<stop>> \o more)
        BY <3>1, <3>5, <4>3, <4>4 DEF first
      <4> HIDE DEF more
      <4> QED
        BY <1>4, <3>2, <3>3, <4>2, <4>5
    <3> QED
      BY <1>1, <3>4, <3>5
  <2> QED
    BY <2>5, <2>6
<1> QED
  BY <1>3, <1>4

LEMMA StopStep == StopInv /\ [Next]_serviceVars => StopInv'
<1> SUFFICES ASSUME StopInv, [Next]_serviceVars, TypeOK'
             PROVE  StopInOrder' /\ StopDrainsQueue'
  BY TypeStep DEF StopInv
<1>1. CASE RunDatabase
  <2>1. CASE Start
    BY <1>1, <2>1 DEF RunDatabase, Start, StopInv, StopInOrder, StopDrainsQueue
  <2>2. CASE Serve
    BY <1>1, <2>2, StopServed DEF RunDatabase
  <2> QED
    BY <1>1, <2>1, <2>2 DEF RunDatabase, DatabaseThread
<1>2. CASE \/ RequestUserLogin \/ RequestUserRegister \/ RequestMessageSave
           \/ RequestProfilePictureSave \/ RequestUserProfilePicture
  BY <1>2, Calls, StopCalled DEF StopInv
<1>3. CASE TakeResponse
  BY <1>3 DEF TakeResponse, StopInv, StopInOrder, StopDrainsQueue
<1>4. CASE CallClose
  <2> USE DEF StopInv, StopInOrder, StopDrainsQueue
  <2> DEFINE stop == [type |-> "shutdown"]
             first == <<stop>>
  <2>1. stop \in ShutdownRequest /\ stop \in Request
    BY DEF Request, ShutdownRequest
  <2>2. ~closed /\ closed' /\ UNCHANGED <<dbThread, late>> /\ requests' = requests \o first
    BY <1>4 DEF CallClose, Close, Submit
  <2>3. first \in Seq(Request) /\ requests \in Seq(Request) /\ <<>> \in Seq(Request)
    BY <2>1 DEF TypeOK, DatabaseTypeOK
  <2> HIDE DEF stop
  <2>4. requests' = requests \o (first \o <<>>)
    <3> HIDE DEF first
    <3> QED
      BY <2>2, <2>3, ConcatEmptySeq
  <2>5. OfType(<<>>, Owing) = OfType(late, Owing) /\ dbThread' # "stopped"
    BY <2>2
  <2>6. \A i \in DOMAIN requests : requests[i].type # "shutdown"
    BY <2>2
  <2> QED
    BY <2>1, <2>2, <2>3, <2>4, <2>5, <2>6
<1>5. CASE Restart
  BY <1>5 DEF Restart, StopInv, StopInOrder, StopDrainsQueue
<1>6. CASE UNCHANGED serviceVars
  BY <1>6 DEF serviceVars, dbVars, StopInv, StopInOrder, StopDrainsQueue
<1> QED
  BY <1>1, <1>2, <1>3, <1>4, <1>5, <1>6 DEF Next

\* close() is an orderly stop: when the thread has stopped, the logins,
\* registrations, chats and pictures to save that it leaves unserved are those
\* that were handed over after close().
THEOREM StopsWhenDrained == Spec => []StopDrainsQueue
  BY StopInit, StopStep, PTL DEF Spec, StopInv

-----------------------------------------------------------------------------
(* The end of the process.                                                 *)

\* What the threads of Teardown do to the database is what DatabaseService
\* lets its callers do.
LEMMA TeardownCalls ==
  ASSUME [TeardownNext]_teardownVars PROVE [Next]_serviceVars
  BY DEF TeardownNext, DbStep, HandlerBegins, HandlerCalls, HandlerCallsLate,
     NetworkReturns, HandlerEnds, RunReturns, Updates, Stops, MainGoesOn, Closes,
     JoinsDbThread, DestroysDatabase, JoinsNetworkThread, StartsAgain, Next,
     teardownVars

\* So that everything shown of the database holds of it in the process that
\* starts, stops and is torn down.
THEOREM TeardownUsesService == TeardownSpec => Spec
<1>1. TeardownInit => Init
  BY DEF TeardownInit
<1>2. [TeardownNext]_teardownVars => [Next]_serviceVars
  BY TeardownCalls
<1> QED
  BY <1>1, <1>2, PTL DEF TeardownSpec, Spec

\* Nobody but a handler that was running when the io_context stopped calls the
\* database after close(), and its thread is over when it has been joined.
TeardownOrder ==
    /\ main \in {"running", "stopped", "closed", "joined", "destroyed", "ended"}
    /\ main \in {"running", "stopped"} <=> ~closed
    /\ main # "running" /\ network = "handler" => busyAtStop
    /\ late # <<>> => busyAtStop
    /\ main \in {"joined", "destroyed", "ended"} => dbThread \in {"stopped", "failed"}
    /\ fault => busyAtStop

TeardownInv == StopInv /\ TeardownOrder

\* A thread that is over stays over until the process is started again.
LEMMA ThreadStaysOver ==
  ASSUME RunDatabase, dbThread \in {"stopped", "failed"} PROVE FALSE
  BY DEF RunDatabase, DatabaseThread, Start, Serve

LEMMA TeardownOrderStep ==
  ASSUME StopInv, TeardownOrder, [TeardownNext]_teardownVars PROVE TeardownOrder'
<1> USE DEF TeardownOrder
<1>1. CASE DbStep
  BY <1>1, ThreadStaysOver DEF DbStep, RunDatabase, threadVars
<1>2. CASE HandlerBegins \/ HandlerCallsLate \/ NetworkReturns
  BY <1>2 DEF HandlerBegins, HandlerCallsLate, NetworkReturns, HandlerEnds, RunReturns,
     Destroyed, serviceVars, dbVars
<1>3. CASE HandlerCalls
  <2>1. PICK request \in Request : Call(request)
    <3>1. RequestUserLogin \/ RequestUserRegister \/ RequestProfilePictureSave
      BY <1>3 DEF HandlerCalls
    <3> QED
      BY <3>1, Calls DEF StopInv
  <2>2. UNCHANGED <<dbThread, closed>> /\ (~closed => late' = late)
    BY <2>1 DEF Call
  <2>3. network = "handler" /\ UNCHANGED threadVars
    BY <1>3 DEF HandlerCalls
  <2> QED
    BY <2>2, <2>3 DEF threadVars
<1>4. CASE Updates
  <2>1. UNCHANGED threadVars /\ main = "running" /\ ~closed
    BY <1>4 DEF Updates
  <2>2. UNCHANGED <<dbThread, closed, late>>
    <3>1. CASE TakeResponse
      BY <3>1 DEF TakeResponse
    <3>2. CASE ~TakeResponse
      <4>1. RequestMessageSave \/ RequestUserProfilePicture
        BY <1>4, <3>2 DEF Updates
      <4>2. PICK request \in Request : Call(request)
        BY <4>1, Calls DEF StopInv
      <4> QED
        BY <2>1, <4>2 DEF Call
    <3> QED
      BY <3>1, <3>2
  <2> QED
    BY <2>1, <2>2 DEF threadVars
<1>5. CASE Stops /\ ~fault
  <2>1. /\ UNCHANGED <<dbThread, closed, late, network, fault>>
        /\ main = "running" /\ main' = "stopped"
        /\ busyAtStop' = (network = "handler")
    BY <1>5 DEF Stops, serviceVars, dbVars
  <2>2. late' = <<>>
    BY <2>1 DEF StopInv, StopInOrder
  <2> QED
    BY <1>5, <2>1, <2>2, Zenon
<1>6. CASE Closes
  BY <1>6 DEF Closes, CallClose
<1>7. CASE JoinsDbThread \/ DestroysDatabase \/ JoinsNetworkThread
  BY <1>7 DEF JoinsDbThread, DestroysDatabase, JoinsNetworkThread, serviceVars, dbVars
<1>8. CASE StartsAgain /\ ~fault
  BY <1>8 DEF StartsAgain, Restart
<1>9. CASE UNCHANGED teardownVars
  BY <1>9 DEF teardownVars, threadVars, serviceVars, dbVars
<1> QED
  BY <1>1, <1>2, <1>3, <1>4, <1>5, <1>6, <1>7, <1>8, <1>9 DEF TeardownNext, MainGoesOn

\* The process is torn down in an order that keeps what its threads use: the
\* database is destroyed when its thread is over, and nothing asked of it is
\* dropped, and nobody asks it any more, unless a handler was at work in the
\* moment the io_context was stopped.
THEOREM TornDownInOrder == TeardownSpec => []OnlyBusyStopHarms
<1>1. TeardownInit => TeardownInv
  BY StopInit
  DEF TeardownInit, TeardownInv, TeardownOrder, Init, DatabaseInit
<1>2. TeardownInv /\ [TeardownNext]_teardownVars => TeardownInv'
  BY TeardownCalls, StopStep, TeardownOrderStep DEF TeardownInv, StopInv
<1>3. TeardownInv => OnlyBusyStopHarms
  <2> SUFFICES ASSUME TeardownInv, Destroyed PROVE
         /\ dbThread \in {"stopped", "failed"}
         /\ fault => busyAtStop
         /\ dbThread = "stopped" /\ OfType(requests, Owing) # <<>> => busyAtStop
    BY DEF OnlyBusyStopHarms
  <2>1. dbThread \in {"stopped", "failed"} /\ (fault => busyAtStop)
    BY DEF TeardownInv, TeardownOrder, Destroyed
  <2>2. ASSUME dbThread = "stopped", OfType(requests, Owing) # <<>> PROVE busyAtStop
    <3>1. OfType(late, Owing) # <<>>
      BY <2>2 DEF TeardownInv, StopInv, StopDrainsQueue
    <3>2. late # <<>>
      BY <3>1, OfTypeEmpty
    <3> QED
      BY <3>2 DEF TeardownInv, TeardownOrder
  <2> QED
    BY <2>1, <2>2
<1> QED
  BY <1>1, <1>2, <1>3, PTL DEF TeardownSpec

=============================================================================
