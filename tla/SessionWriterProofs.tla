------------------------ MODULE SessionWriterProofs ------------------------
(* Proofs about SessionWriter and about Connection, of which it is a part, *)
(* for any lines and any number of calls.                                  *)
EXTENDS Connection, SequenceTheorems, TLAPS

Task == Lines \cup {Bye}

\* The order to close is the last handler ever posted.
ByeIsLast ==
    /\ \A i \in 1 .. Len(posted) : posted[i] = Bye => i = Len(posted)
    /\ disconnectAfter => leaving /\ posted = <<>>
    /\ leaving /\ ~disconnectAfter => posted # <<>> /\ posted[Len(posted)] = Bye
    /\ ~leaving => \A i \in 1 .. Len(posted) : posted[i] # Bye

\* Every line sent is in one place.
LinesAccounted ==
    calls = Len(wire) + Len(queue) + Len(posted)
              - (IF leaving /\ ~disconnectAfter THEN 1 ELSE 0)

\* The socket is closed as soon as the order to close has been read and there
\* is nothing left to write.
ClosedInTime ==
    /\ disconnectAfter /\ queue = <<>> => ~open
    /\ ~open => disconnectAfter /\ queue = <<>>

\* The line whose write failed stays in the queue.
StuckBehindLine == failed => queue # <<>>

Inv ==
    /\ TypeOK
    /\ OneWriteAtATime
    /\ StuckBehindLine
    /\ ByeIsLast
    /\ LinesAccounted
    /\ ClosedInTime

-----------------------------------------------------------------------------

LEMMA InvInit == Init => Inv
<1> SUFFICES ASSUME Init PROVE Inv
  OBVIOUS
<1>1. Len(<<>>) = 0 /\ <<>> \in Seq(Lines) /\ <<>> \in Seq(Lines \cup {Bye})
  BY EmptySeq
<1>2. TypeOK
  <2>1. 0 \in 0 .. MaxCalls
    BY WriterAssumption
  <2> QED
    BY <1>1, <2>1 DEF Init, TypeOK
<1>3. OneWriteAtATime /\ StuckBehindLine /\ ClosedInTime
  BY DEF Init, OneWriteAtATime, StuckBehindLine, ClosedInTime
<1>4. ByeIsLast
  BY <1>1 DEF Init, ByeIsLast
<1>5. LinesAccounted
  BY <1>1 DEF Init, LinesAccounted
<1> QED
  BY <1>2, <1>3, <1>4, <1>5 DEF Inv

\* What a call adds at the end of the posted handlers.
LEMMA PostedAppend ==
  ASSUME posted \in Seq(Task), NEW x \in Task, posted' = Append(posted, x)
  PROVE  /\ posted' \in Seq(Task)
         /\ posted' # <<>>
         /\ Len(posted') = Len(posted) + 1
         /\ \A i \in 1 .. Len(posted) : posted'[i] = posted[i]
         /\ posted'[Len(posted) + 1] = x
  BY AppendProperties

\* What a handler takes from their front.
LEMMA PostedTail ==
  ASSUME posted \in Seq(Task), posted # <<>>, posted' = Tail(posted)
  PROVE  /\ posted' \in Seq(Task)
         /\ Len(posted') = Len(posted) - 1
         /\ \A i \in 1 .. Len(posted) - 1 : posted'[i] = posted[i + 1]
         /\ Head(posted) = posted[1]
         /\ Head(posted) \in Task
         /\ Len(posted) \in Nat \ {0}
  BY HeadTailProperties, EmptySeq, LenProperties

LEMMA SendStep ==
  ASSUME Inv, NEW line \in Lines, Send(line) PROVE Inv'
<1> USE WriterAssumption DEF Inv, TypeOK, Task
<1>1. posted' = Append(posted, line)
  BY DEF Send
<1>2. Len(posted) \in Nat
  BY LenProperties
<1>3. TypeOK'
  BY <1>1, PostedAppend DEF Send
<1>4. OneWriteAtATime' /\ StuckBehindLine' /\ ClosedInTime'
  BY DEF Send, OneWriteAtATime, StuckBehindLine, ClosedInTime
<1>5. ByeIsLast'
  BY <1>1, <1>2, PostedAppend DEF Send, ByeIsLast
<1>6. LinesAccounted'
  BY <1>1, <1>2, PostedAppend, LenProperties DEF Send, LinesAccounted
<1> QED
  BY <1>3, <1>4, <1>5, <1>6

LEMMA DisconnectAfterWriteStep ==
  ASSUME Inv, DisconnectAfterWrite PROVE Inv'
<1> USE WriterAssumption DEF Inv, TypeOK, Task
<1>1. posted' = Append(posted, Bye)
  BY DEF DisconnectAfterWrite
<1>2. Len(posted) \in Nat
  BY LenProperties
<1>3. TypeOK'
  BY <1>1, PostedAppend DEF DisconnectAfterWrite
<1>4. OneWriteAtATime' /\ StuckBehindLine' /\ ClosedInTime'
  BY DEF DisconnectAfterWrite, OneWriteAtATime, StuckBehindLine, ClosedInTime
<1>5. ByeIsLast'
  BY <1>1, <1>2, PostedAppend DEF DisconnectAfterWrite, ByeIsLast
<1>6. LinesAccounted'
  BY <1>1, <1>2, PostedAppend, LenProperties
  DEF DisconnectAfterWrite, LinesAccounted, ByeIsLast
<1> QED
  BY <1>3, <1>4, <1>5, <1>6

LEMMA RunSendStep ==
  ASSUME Inv, RunSend PROVE Inv'
<1> USE WriterAssumption DEF Inv, TypeOK, Task
<1>1. /\ posted # <<>> /\ posted' = Tail(posted)
      /\ posted \in Seq(Task)
  BY DEF RunSend
<1>2. Head(posted) \in Lines
  BY <1>1, PostedTail DEF RunSend
<1>3. /\ queue' = Append(queue, Head(posted))
      /\ queue' \in Seq(Lines)
      /\ queue' # <<>>
      /\ Len(queue') = Len(queue) + 1
  BY <1>2, AppendProperties DEF RunSend
<1>4. ~disconnectAfter
  BY <1>1 DEF ByeIsLast
<1>5. open
  BY <1>4 DEF ClosedInTime
<1>6. TypeOK'
  BY <1>1, <1>3, PostedTail DEF RunSend
<1>7. OneWriteAtATime' /\ StuckBehindLine'
  BY <1>3 DEF RunSend, OneWriteAtATime, StuckBehindLine
<1>8. ByeIsLast'
  <2>1. /\ Len(posted') = Len(posted) - 1
        /\ \A i \in 1 .. Len(posted) - 1 : posted'[i] = posted[i + 1]
        /\ posted[1] # Bye
        /\ Len(posted) \in Nat \ {0}
    BY <1>1, PostedTail DEF RunSend
  <2>2. ASSUME leaving PROVE posted' # <<>> /\ posted'[Len(posted')] = Bye
    <3>1. posted[Len(posted)] = Bye
      BY <1>4, <2>2 DEF ByeIsLast
    <3>2. Len(posted) - 1 \in 1 .. Len(posted) - 1
      BY <2>1, <3>1
    <3>3. posted' # <<>>
      BY <2>1, <3>2
    <3> QED
      BY <2>1, <3>1, <3>2, <3>3
  <2>3. ASSUME NEW i \in 1 .. Len(posted')
        PROVE  /\ posted'[i] = Bye => i = Len(posted')
               /\ ~leaving => posted'[i] # Bye
    <3>1. i + 1 \in 1 .. Len(posted) /\ posted'[i] = posted[i + 1]
      BY <2>1
    <3> QED
      BY <2>1, <3>1 DEF ByeIsLast
  <2> QED
    BY <1>4, <2>2, <2>3 DEF RunSend, ByeIsLast
<1>9. LinesAccounted'
  BY <1>1, <1>3, <1>4, PostedTail, LenProperties DEF RunSend, LinesAccounted
<1>10. ClosedInTime'
  BY <1>4, <1>5 DEF RunSend, ClosedInTime
<1> QED
  BY <1>6, <1>7, <1>8, <1>9, <1>10

LEMMA RunDisconnectStep ==
  ASSUME Inv, RunDisconnect PROVE Inv'
<1> USE WriterAssumption DEF Inv, TypeOK, Task
<1>1. /\ posted # <<>> /\ posted' = Tail(posted)
      /\ posted \in Seq(Task)
  BY DEF RunDisconnect
<1>2. Len(posted) = 1
  <2>1. posted[1] = Bye /\ 1 \in 1 .. Len(posted)
    BY <1>1, PostedTail DEF RunDisconnect
  <2> QED
    BY <2>1 DEF ByeIsLast
<1>3. posted' = <<>>
  BY <1>1, <1>2, PostedTail, EmptySeq
<1>4. leaving /\ ~disconnectAfter
  BY <1>1, <1>2, PostedTail DEF RunDisconnect, ByeIsLast
<1>5. TypeOK'
  BY <1>3, EmptySeq DEF RunDisconnect
<1>6. OneWriteAtATime' /\ StuckBehindLine'
  BY DEF RunDisconnect, OneWriteAtATime, StuckBehindLine
<1>7. ByeIsLast'
  BY <1>3, <1>4, EmptySeq DEF RunDisconnect, ByeIsLast
<1>8. LinesAccounted'
  <2>1. Len(posted') = 0
    BY <1>3
  <2>2. calls = Len(wire) + Len(queue)
    BY <1>2, <1>4, LenProperties DEF LinesAccounted
  <2> QED
    BY <1>4, <2>1, <2>2, LenProperties DEF RunDisconnect, LinesAccounted
<1>9. ClosedInTime'
  BY <1>4 DEF RunDisconnect, ClosedInTime
<1> QED
  BY <1>5, <1>6, <1>7, <1>8, <1>9

LEMMA WriteCompletesStep ==
  ASSUME Inv, WriteCompletes PROVE Inv'
<1> USE WriterAssumption DEF Inv, TypeOK, Task
<1>1. queue # <<>> /\ writes = 1 /\ ~failed
  BY DEF WriteCompletes, OneWriteAtATime, StuckBehindLine
<1>2. /\ queue' = Tail(queue) /\ queue' \in Seq(Lines)
      /\ Len(queue') = Len(queue) - 1
      /\ Head(queue) \in Lines
  BY <1>1, HeadTailProperties DEF WriteCompletes
<1>3. /\ wire' \in Seq(Lines)
      /\ Len(wire') = Len(wire) + 1
  BY <1>2, AppendProperties DEF WriteCompletes
<1>4. TypeOK'
  BY <1>1, <1>2, <1>3 DEF WriteCompletes
<1>5. OneWriteAtATime' /\ StuckBehindLine'
  BY <1>1, <1>2 DEF WriteCompletes, OneWriteAtATime, StuckBehindLine
<1>6. ByeIsLast'
  BY DEF WriteCompletes, ByeIsLast
<1>7. LinesAccounted'
  BY <1>2, <1>3, LenProperties DEF WriteCompletes, LinesAccounted
<1>8. ClosedInTime'
  BY <1>1, <1>2 DEF WriteCompletes, ClosedInTime
<1> QED
  BY <1>4, <1>5, <1>6, <1>7, <1>8

LEMMA WriteFailsStep ==
  ASSUME Inv, WriteFails PROVE Inv'
<1> USE DEF Inv, TypeOK
<1>1. TypeOK'
  BY DEF WriteFails, OneWriteAtATime, StuckBehindLine
<1>2. OneWriteAtATime' /\ StuckBehindLine'
  BY DEF WriteFails, OneWriteAtATime, StuckBehindLine
<1>3. ByeIsLast' /\ LinesAccounted' /\ ClosedInTime'
  BY DEF WriteFails, ByeIsLast, LinesAccounted, ClosedInTime
<1> QED
  BY <1>1, <1>2, <1>3

LEMMA InvStep == Inv /\ [Next]_vars => Inv'
<1> SUFFICES ASSUME Inv, [Next]_vars PROVE Inv'
  OBVIOUS
<1>1. CASE UNCHANGED vars
  BY <1>1 DEF vars, Inv, TypeOK, OneWriteAtATime, StuckBehindLine, ByeIsLast,
     LinesAccounted, ClosedInTime
<1> QED
  BY <1>1, SendStep, DisconnectAfterWriteStep, RunSendStep, RunDisconnectStep,
     WriteCompletesStep, WriteFailsStep
  DEF Next, Handlers

THEOREM WriterInvariant == Spec => []Inv
  BY InvInit, InvStep, PTL DEF Spec

\* A session never has two writes in flight on its socket, and it has one as
\* long as there is something to write and no write has failed (onWrite and
\* the "idle" test of send, Session.cpp:37-52 and 97-112).
THEOREM NeverTwoWrites == Spec => []OneWriteAtATime
<1>1. Inv => OneWriteAtATime
  BY DEF Inv
<1> QED
  BY <1>1, WriterInvariant, PTL

\* disconnectAfterWrite closes the socket behind the last line sent, not
\* before.
THEOREM ClosedBehindLastLine == Spec => []ClosedWhenAllWritten
<1>1. Inv => ClosedWhenAllWritten
  <2> SUFFICES ASSUME Inv, ~open PROVE ClosedWhenAllWritten
    BY DEF ClosedWhenAllWritten
  <2>1. disconnectAfter /\ queue = <<>> /\ posted = <<>>
    BY DEF Inv, ClosedInTime, ByeIsLast
  <2>2. calls = Len(wire)
    BY <2>1, EmptySeq, LenProperties DEF Inv, TypeOK, LinesAccounted
  <2> QED
    BY <2>1, <2>2 DEF ClosedWhenAllWritten
<1> QED
  BY <1>1, WriterInvariant, PTL

-----------------------------------------------------------------------------
(* The writer implements its outbox.                                       *)

\* What is appended to the second of two sequences is appended to both.
LEMMA ConcatAppend ==
  ASSUME NEW S, NEW s \in Seq(S), NEW t \in Seq(S), NEW x \in S
  PROVE  s \o Append(t, x) = Append(s \o t, x)
<1>1. /\ Append(t, x) = t \o <<x>>
      /\ Append(s \o t, x) = (s \o t) \o <<x>>
      /\ <<x>> \in Seq(S)
  BY AppendIsConcat, ConcatProperties
<1> QED
  BY <1>1, ConcatAssociative

\* A sequence is its head and its tail.
LEMMA HeadThenTail ==
  ASSUME NEW S, NEW t \in Seq(S), t # <<>>
  PROVE  t = <<Head(t)>> \o Tail(t)
<1>1. /\ Head(t) \in S /\ Tail(t) \in Seq(S) /\ <<Head(t)>> \in Seq(S)
      /\ Head(t) = t[1]
      /\ Len(Tail(t)) = Len(t) - 1
      /\ \A i \in 1 .. Len(Tail(t)) : Tail(t)[i] = t[i + 1]
      /\ Len(t) \in Nat \ {0}
  BY HeadTailProperties, EmptySeq
<1> DEFINE u == <<Head(t)>> \o Tail(t)
<1>2. /\ u \in Seq(S)
      /\ Len(u) = 1 + Len(Tail(t))
      /\ \A i \in 1 .. 1 + Len(Tail(t)) :
           u[i] = IF i <= 1 THEN <<Head(t)>>[i] ELSE Tail(t)[i - 1]
  BY <1>1, ConcatProperties, Len(<<Head(t)>>) = 1
<1>3. \A i \in 1 .. Len(t) : t[i] = u[i]
  BY <1>1, <1>2
<1>4. Len(t) = Len(u)
  BY <1>1, <1>2
<1> QED
  BY <1>2, <1>3, <1>4, SeqEqual

\* The head of the second sequence may be moved behind the first.
LEMMA ConcatShift ==
  ASSUME NEW S, NEW s \in Seq(S), NEW t \in Seq(S), t # <<>>
  PROVE  Append(s, Head(t)) \o Tail(t) = s \o t
<1>1. Head(t) \in S /\ Tail(t) \in Seq(S) /\ <<Head(t)>> \in Seq(S)
  BY HeadTailProperties
<1>2. Append(s, Head(t)) = s \o <<Head(t)>>
  BY <1>1, AppendIsConcat
<1>3. (s \o <<Head(t)>>) \o Tail(t) = s \o (<<Head(t)>> \o Tail(t))
  BY <1>1, ConcatAssociative
<1> QED
  BY <1>2, <1>3, HeadThenTail

\* Taking from the first sequence is taking from both.
LEMMA ConcatTail ==
  ASSUME NEW S, NEW s \in Seq(S), NEW t \in Seq(S), s # <<>>
  PROVE  /\ s \o t # <<>>
         /\ Head(s \o t) = Head(s)
         /\ Tail(s \o t) = Tail(s) \o t
<1>1. /\ s \o t \in Seq(S)
      /\ Len(s \o t) = Len(s) + Len(t)
      /\ \A i \in 1 .. Len(s) + Len(t) :
           (s \o t)[i] = IF i <= Len(s) THEN s[i] ELSE t[i - Len(s)]
  BY ConcatProperties
<1>2. Len(s) \in Nat \ {0} /\ Len(t) \in Nat
  BY EmptySeq, LenProperties
<1>3. s \o t # <<>>
  BY ConcatEqualIffEmpty
<1>4. Head(s \o t) = Head(s)
  BY <1>1, <1>2, <1>3
<1>5. /\ Tail(s \o t) \in Seq(S)
      /\ Len(Tail(s \o t)) = Len(s) + Len(t) - 1
      /\ \A i \in 1 .. Len(s) + Len(t) - 1 : Tail(s \o t)[i] = (s \o t)[i + 1]
  BY <1>1, <1>3, HeadTailProperties
<1>6. /\ Tail(s) \in Seq(S)
      /\ Len(Tail(s)) = Len(s) - 1
      /\ \A i \in 1 .. Len(s) - 1 : Tail(s)[i] = s[i + 1]
  BY HeadTailProperties
<1>7. /\ Tail(s) \o t \in Seq(S)
      /\ Len(Tail(s) \o t) = Len(s) - 1 + Len(t)
      /\ \A i \in 1 .. Len(s) - 1 + Len(t) :
           (Tail(s) \o t)[i] = IF i <= Len(s) - 1 THEN Tail(s)[i] ELSE t[i - (Len(s) - 1)]
  BY <1>6, ConcatProperties
<1>8. \A i \in 1 .. Len(s) + Len(t) - 1 : Tail(s \o t)[i] = (Tail(s) \o t)[i]
  <2> SUFFICES ASSUME NEW i \in 1 .. Len(s) + Len(t) - 1
               PROVE  Tail(s \o t)[i] = (Tail(s) \o t)[i]
    OBVIOUS
  <2>1. Tail(s \o t)[i] = IF i + 1 <= Len(s) THEN s[i + 1] ELSE t[i + 1 - Len(s)]
    BY <1>1, <1>2, <1>5
  <2>2. (Tail(s) \o t)[i] = IF i <= Len(s) - 1 THEN s[i + 1] ELSE t[i - (Len(s) - 1)]
    BY <1>2, <1>6, <1>7
  <2>3. i + 1 - Len(s) = i - (Len(s) - 1) /\ (i + 1 <= Len(s) <=> i <= Len(s) - 1)
    BY <1>2
  <2> QED
    BY <2>1, <2>2, <2>3
<1>9. Tail(s \o t) = Tail(s) \o t
  BY <1>2, <1>5, <1>7, <1>8, SeqEqual
<1> QED
  BY <1>3, <1>4, <1>9

\* A line and the order to close, one behind the other.
LEMMA LineThenBye ==
  ASSUME NEW line \in Lines PROVE <<line>> \o <<Bye>> = <<line, Bye>>
<1>1. <<line>> \in Seq(Task) /\ Bye \in Task
  BY DEF Task
<1>2. Append(<<line>>, Bye) = <<line>> \o <<Bye>>
  BY <1>1, AppendIsConcat
<1>3. Append(<<line>>, Bye) = <<line, Bye>>
  <2> DEFINE u == Append(<<line>>, Bye)
             v == <<line, Bye>>
  <2>1. u \in Seq(Task) /\ Len(u) = 2 /\ u[1] = line /\ u[2] = Bye
    BY <1>1, AppendProperties, Len(<<line>>) = 1, <<line>>[1] = line
  <2>2. v \in Seq(Task) /\ Len(v) = 2 /\ v[1] = line /\ v[2] = Bye
    BY <1>1 DEF Task
  <2>3. \A i \in 1 .. Len(u) : u[i] = v[i]
    BY <2>1, <2>2
  <2> HIDE DEF u, v
  <2>4. u = v
    BY <2>1, <2>2, <2>3, SeqEqual
  <2> QED
    BY <2>4 DEF u, v
<1> QED
  BY <1>2, <1>3

\* The outbox of the refinement mapping.
Mark == IF disconnectAfter /\ open THEN <<Bye>> ELSE <<>>
Given == queue \o Mark \o posted
Wire == IF open THEN wire ELSE Append(wire, Bye)

LEMMA GivenType ==
  ASSUME Inv
  PROVE  /\ queue \in Seq(Task) /\ posted \in Seq(Task) /\ Mark \in Seq(Task)
         /\ queue \o Mark \in Seq(Task)
         /\ Given \in Seq(Task)
<1>1. queue \in Seq(Task) /\ posted \in Seq(Task)
  BY SeqMonotonic DEF Inv, TypeOK, Task
<1>2. Mark \in Seq(Task)
  BY EmptySeq DEF Mark, Task
<1> QED
  BY <1>1, <1>2, ConcatProperties DEF Given

\* A call puts its line, or the order to close, at the end.
LEMMA CallGives ==
  ASSUME Inv, NEW x \in Task, posted' = Append(posted, x),
         UNCHANGED <<queue, disconnectAfter, open>>
  PROVE  Given' = Append(Given, x)
<1>1. Given' = (queue \o Mark) \o Append(posted, x)
  BY DEF Given, Mark
<1>2. (queue \o Mark) \o Append(posted, x) = Append((queue \o Mark) \o posted, x)
  BY GivenType, ConcatAppend
<1> QED
  BY <1>1, <1>2 DEF Given

\* Handing a line on from the posted handlers to the queue changes nothing.
LEMMA RunSendKeeps ==
  ASSUME Inv, RunSend PROVE Given' = Given /\ Wire' = Wire
<1>1. posted # <<>> /\ ~disconnectAfter /\ open
  BY EmptySeq DEF RunSend, Inv, ByeIsLast, ClosedInTime, TypeOK
<1>2. /\ Given = queue \o posted
      /\ Given' = Append(queue, Head(posted)) \o Tail(posted)
  <2>1. Mark = <<>> /\ Mark' = <<>>
    BY <1>1 DEF Mark, RunSend
  <2>2. Head(posted) \in Task
    BY <1>1, GivenType, HeadTailProperties
  <2>3. /\ queue \o <<>> = queue
        /\ Append(queue, Head(posted)) \o <<>> = Append(queue, Head(posted))
    BY <2>2, GivenType, AppendProperties, ConcatEmptySeq
  <2> QED
    BY <2>1, <2>3 DEF Given, RunSend
<1>3. Given' = Given
  BY <1>1, <1>2, GivenType, ConcatShift
<1> QED
  BY <1>3 DEF RunSend, Wire

\* The order to close closes the socket at once, or marks the end of the queue.
LEMMA RunDisconnectTakes ==
  ASSUME Inv, RunDisconnect
  PROVE  \/ Given' = Given /\ Wire' = Wire
         \/ /\ Given # <<>> /\ Given' = Tail(Given)
            /\ Wire' = Append(Wire, Head(Given))
            /\ ~failed
<1>1. posted = <<Bye>> /\ posted' = <<>> /\ ~disconnectAfter /\ open
  <2>1. /\ posted \in Seq(Task) /\ posted # <<>>
        /\ posted[1] = Bye
        /\ Len(posted) \in Nat \ {0}
    BY GivenType, EmptySeq DEF RunDisconnect
  <2>2. Len(posted) = 1
    <3>1. 1 \in 1 .. Len(posted)
      BY <2>1
    <3> QED
      BY <2>1, <3>1 DEF Inv, ByeIsLast
  <2>3. posted = <<Bye>>
    BY <2>1, <2>2, SeqEqual DEF Task
  <2> QED
    BY <2>1, <2>3 DEF RunDisconnect, Inv, ByeIsLast, ClosedInTime
<1>2. Given = queue \o <<Bye>>
  BY <1>1, GivenType, ConcatEmptySeq DEF Given, Mark
<1>3. CASE queue = <<>>
  <2>1. Given = <<Bye>>
    BY <1>2, <1>3, ConcatEmptySeq, GivenType, <1>1
  <2>2. ~open' /\ Given' = <<>>
    BY <1>1, <1>3, EmptySeq, ConcatEmptySeq DEF RunDisconnect, Given, Mark
  <2> QED
    BY <1>1, <1>3, <2>1, <2>2 DEF RunDisconnect, Wire, Inv, StuckBehindLine
<1>4. CASE queue # <<>>
  <2>1. open' /\ disconnectAfter' /\ UNCHANGED <<queue, wire>>
    BY <1>1, <1>4 DEF RunDisconnect
  <2>2. Given' = (queue \o <<Bye>>) \o <<>>
    BY <1>1, <2>1 DEF Given, Mark
  <2>3. (queue \o <<Bye>>) \o <<>> = queue \o <<Bye>>
    BY <1>1, GivenType, ConcatProperties, ConcatEmptySeq
  <2> QED
    BY <1>1, <1>2, <2>1, <2>2, <2>3 DEF Wire
<1> QED
  BY <1>3, <1>4

\* What is queued is the first that was given.
LEMMA QueueFirst ==
  ASSUME Inv, queue # <<>>
  PROVE  Given # <<>> /\ Head(Given) = Head(queue)
<1>1. Given = queue \o (Mark \o posted)
  BY GivenType, ConcatAssociative DEF Given
<1>2. Mark \o posted \in Seq(Task)
  BY GivenType, ConcatProperties
<1> QED
  BY <1>1, <1>2, GivenType, ConcatTail

\* A completed write takes the first line, and the order to close with it when
\* there is nothing between them.
LEMMA WriteTakes ==
  ASSUME Inv, WriteCompletes
  PROVE  /\ ~failed /\ Given # <<>>
         /\ \/ /\ Given' = Tail(Given)
               /\ Wire' = Append(Wire, Head(Given))
            \/ /\ Len(Given) >= 2 /\ Given[1] # Bye /\ Given[2] = Bye
               /\ Wire' = Wire \o <<Given[1], Bye>>
               /\ Given' = Tail(Tail(Given))
<1>1. queue # <<>> /\ ~failed /\ open
  BY DEF WriteCompletes, Inv, OneWriteAtATime, TypeOK
<1>2. /\ Given = queue \o (Mark \o posted)
      /\ Mark \o posted \in Seq(Task)
  BY GivenType, ConcatAssociative, ConcatProperties DEF Given
<1>3. /\ Given # <<>> /\ Head(Given) = Head(queue)
      /\ Tail(Given) = Tail(queue) \o (Mark \o posted)
  BY <1>1, <1>2, GivenType, ConcatTail
<1>4. Tail(queue) \in Seq(Lines) /\ Head(queue) \in Lines /\ Head(queue) = queue[1]
  BY <1>1, HeadTailProperties DEF Inv, TypeOK
<1>5. CASE ~(Tail(queue) = <<>> /\ disconnectAfter)
  <2>1. UNCHANGED <<open, disconnectAfter, posted>> /\ queue' = Tail(queue)
    BY <1>5 DEF WriteCompletes
  <2>2. Given' = (Tail(queue) \o Mark) \o posted
    BY <2>1 DEF Given, Mark
  <2>3. Tail(queue) \in Seq(Task)
    BY <1>4, SeqMonotonic DEF Task
  <2>4. Given' = Tail(Given)
    <3>1. (Tail(queue) \o Mark) \o posted = Tail(queue) \o (Mark \o posted)
      BY <2>3, GivenType, ConcatAssociative
    <3> QED
      BY <1>3, <2>2, <3>1
  <2> QED
    BY <1>1, <1>3, <2>1, <2>4 DEF WriteCompletes, Wire
<1>6. CASE Tail(queue) = <<>> /\ disconnectAfter
  <2>1. posted = <<>> /\ Mark = <<Bye>>
    BY <1>1, <1>6 DEF Inv, ByeIsLast, Mark
  <2>2. Mark \o posted = <<Bye>>
    BY <2>1, ConcatEmptySeq, GivenType
  <2>3. Tail(Given) = <<Bye>>
    <3>1. Tail(Given) = <<>> \o <<Bye>>
      BY <1>3, <1>6, <2>2
    <3>2. <<Bye>> \in Seq(Task)
      BY DEF Task
    <3> QED
      BY <3>1, <3>2, ConcatEmptySeq
  <2>4. Given = <<queue[1], Bye>>
    <3>1. Given = <<Head(Given)>> \o Tail(Given)
      BY <1>3, GivenType, HeadThenTail
    <3>2. <<queue[1]>> \o <<Bye>> = <<queue[1], Bye>>
      BY <1>4, LineThenBye
    <3> QED
      BY <1>3, <1>4, <2>3, <3>1, <3>2
  <2>5. ~open' /\ queue' = <<>> /\ UNCHANGED posted
    BY <1>6 DEF WriteCompletes
  <2>6. Given' = <<>>
    BY <2>1, <2>5, EmptySeq, ConcatEmptySeq DEF Given, Mark
  <2>7. Wire' = Append(Append(wire, queue[1]), Bye)
    BY <1>4, <2>5 DEF WriteCompletes, Wire
  <2>8. Append(Append(wire, queue[1]), Bye) = wire \o <<queue[1], Bye>>
    <3>1. wire \in Seq(Task) /\ queue[1] \in Task /\ Bye \in Task
      BY <1>4, SeqMonotonic DEF Inv, TypeOK, Task
    <3>2. <<queue[1]>> \in Seq(Task) /\ <<Bye>> \in Seq(Task)
      BY <3>1
    <3>3. Append(Append(wire, queue[1]), Bye) = (wire \o <<queue[1]>>) \o <<Bye>>
      BY <3>1, AppendIsConcat, AppendProperties
    <3>4. (wire \o <<queue[1]>>) \o <<Bye>> = wire \o (<<queue[1]>> \o <<Bye>>)
      BY <3>1, <3>2, ConcatAssociative
    <3>5. <<queue[1]>> \o <<Bye>> = <<queue[1], Bye>>
      BY <1>4, LineThenBye
    <3> QED
      BY <3>3, <3>4, <3>5
  <2>9. queue[1] # Bye
    BY <1>4, WriterAssumption
  <2>10. Tail(Tail(Given)) = <<>>
    BY <2>3
  <2> QED
    BY <1>1, <1>3, <2>4, <2>6, <2>7, <2>8, <2>9, <2>10 DEF Wire
<1> QED
  BY <1>5, <1>6

\* The writer of a session, with its handlers, its queue and its write in
\* flight, implements the outbox that module Session takes it for: every line
\* is written once, in the order of the calls, and the socket is closed behind
\* the last one.
THEOREM WriterImplementsOutbox == Spec => OutboxSpec
<1>1. Init => Outbox!Init
  BY EmptySeq, ConcatEmptySeq DEF Init, Outbox!Init
<1>2. Inv /\ [Next]_vars => [Outbox!Next]_Outbox!outboxVars
  <2> SUFFICES ASSUME Inv, [Next]_vars
               PROVE  [Outbox!Next]_Outbox!outboxVars
    OBVIOUS
  <2> USE DEF Outbox!Next, Outbox!outboxVars, Given, Wire, Mark
  <2>1. ASSUME NEW line \in Lines, Send(line) PROVE Outbox!Give(line)
    <3>1. Given' = Append(Given, line)
      BY <2>1, CallGives DEF Send, Task
    <3> QED
      BY <2>1, <3>1 DEF Send, Outbox!Give
  <2>2. CASE DisconnectAfterWrite
    <3>1. Given' = Append(Given, Bye)
      BY <2>2, CallGives DEF DisconnectAfterWrite, Task
    <3> QED
      BY <2>2, <3>1 DEF DisconnectAfterWrite, Outbox!Give
  <2>3. CASE RunSend
    BY <2>3, RunSendKeeps DEF RunSend
  <2>4. CASE RunDisconnect
    BY <2>4, RunDisconnectTakes DEF RunDisconnect, Outbox!Take
  <2>5. CASE WriteCompletes
    BY <2>5, WriteTakes DEF WriteCompletes, Outbox!Take, Outbox!TakeAndClose
  <2>6. CASE WriteFails
    <3>1. queue # <<>> /\ ~failed /\ Head(queue) \in Lines
      BY <2>6, HeadTailProperties DEF WriteFails, Inv, OneWriteAtATime, TypeOK
    <3>2. Given # <<>> /\ Head(Given) = Head(queue)
      BY <3>1, QueueFirst
    <3>3. UNCHANGED <<Given, Wire>>
      BY <2>6 DEF WriteFails
    <3> QED
      BY <2>6, <3>1, <3>2, <3>3, WriterAssumption DEF WriteFails, Outbox!Fail
  <2>7. CASE UNCHANGED vars
    BY <2>7 DEF vars
  <2> QED
    BY <2>1, <2>2, <2>3, <2>4, <2>5, <2>6, <2>7 DEF Next, Handlers
<1> QED
  BY <1>1, <1>2, WriterInvariant, PTL DEF Spec, OutboxSpec, Outbox!Spec

-----------------------------------------------------------------------------
(* The connection.  Its writer is the one of SessionWriter: what is proved  *)
(* of that holds of it.                                                     *)

THEOREM ConnectionHasWriter == ConnectionSpec => Spec
<1>1. ConnectionInit => Init
  BY DEF ConnectionInit
<1>2. [ConnectionNext]_connectionVars => [Next]_vars
  BY DEF ConnectionNext, WriterStep, ReaderStep, Calls, Next, connectionVars
<1> QED
  BY <1>1, <1>2, PTL DEF ConnectionSpec, Spec

\* What onWrite and send promise, next to the reader.
THEOREM ConnectionNeverTwoWrites == ConnectionSpec => []OneWriteAtATime
  BY ConnectionHasWriter, NeverTwoWrites, PTL

THEOREM ConnectionImplementsOutbox == ConnectionSpec => OutboxSpec
  BY ConnectionHasWriter, WriterImplementsOutbox, PTL

\* The bytes that arrive are the first of those that were sent.
BytesInOrder ==
    /\ bytes <= LineSize * lines
    /\ taken <= received /\ received <= bytes

\* What was taken are the lines handled, but perhaps for the last newline.
TakenIsHandled ==
    ~crashed => \/ taken = LineSize * Len(handled)
                \/ taken = LineSize * Len(handled) - 1

\* As long as the client waits for each line to be handled, there is at most
\* one, and a completed read has all of it.
OneLineOnTheWay ==
    ~pipelined /\ ~crashed =>
        /\ taken = LineSize * Len(handled)
        /\ lines <= Len(handled) + 1
        /\ read \in {"ready", "handling"} /\ taken < received
             => received = LineSize * lines

RInv ==
    /\ ReaderTypeOK
    /\ BytesInOrder
    /\ HandledInOrder
    /\ TakenIsHandled
    /\ OneLineOnTheWay
    /\ CrashNeedsPipelining

LEMMA ReaderInitial == ReaderInit => RInv
<1> SUFFICES ASSUME ReaderInit PROVE RInv
  OBVIOUS
<1>1. Len(<<>>) = 0 /\ <<>> \in Seq(1 .. MaxLines)
  BY EmptySeq
<1>2. 0 \in 0 .. MaxLines
  BY ReaderAssumption
<1>3. ReaderTypeOK
  <2>1. /\ lines \in 0 .. MaxLines
        /\ bytes \in Nat /\ received \in Nat /\ taken \in Nat
        /\ taken <= received /\ received <= bytes
        /\ handled \in Seq(1 .. MaxLines)
    BY <1>1, <1>2 DEF ReaderInit
  <2>2. read \in {"pending", "ready", "handling", "ended"}
    BY DEF ReaderInit
  <2>3. /\ peer \in BOOLEAN /\ told \in BOOLEAN /\ pipelined \in BOOLEAN
        /\ timedOut \in BOOLEAN /\ crashed \in BOOLEAN
    BY DEF ReaderInit
  <2> QED
    BY <2>1, <2>2, <2>3 DEF ReaderTypeOK
<1>4. BytesInOrder /\ HandledInOrder
  <2>1. lines = 0 /\ bytes = 0 /\ taken = 0 /\ received = 0 /\ Len(handled) = 0
    BY <1>1 DEF ReaderInit
  <2> QED
    BY <2>1 DEF BytesInOrder, HandledInOrder, LineSize
<1>5. TakenIsHandled /\ OneLineOnTheWay
  <2>1. lines = 0 /\ taken = 0 /\ received = 0 /\ Len(handled) = 0
    BY <1>1 DEF ReaderInit
  <2> QED
    BY <2>1 DEF TakenIsHandled, OneLineOnTheWay, LineSize
<1>6. CrashNeedsPipelining
  BY DEF ReaderInit, CrashNeedsPipelining
<1> QED
  BY <1>3, <1>4, <1>5, <1>6 DEF RInv

\* An interval of two numbers has its ends.
LEMMA TwoNumbers ==
  ASSUME NEW a \in Int, NEW b \in Int, NEW c \in Int, a .. b = c .. c + 1
  PROVE  a = c /\ b = c + 1
<1>1. c \in a .. b /\ c + 1 \in a .. b
  OBVIOUS
<1>2. a \in c .. c + 1 /\ b \in c .. c + 1
  BY <1>1
<1> QED
  BY <1>1, <1>2

LEMMA ClientSendsStep ==
  ASSUME RInv, ClientSends PROVE RInv'
<1> USE ReaderAssumption
    DEF RInv, ReaderTypeOK, ClientSends, LineSize
<1>1. Len(handled) \in Nat
  BY LenProperties
<1>2. ReaderTypeOK' /\ BytesInOrder'
  BY DEF BytesInOrder
<1>3. HandledInOrder' /\ TakenIsHandled'
  BY <1>1 DEF HandledInOrder, TakenIsHandled
<1>4. OneLineOnTheWay'
  <2> SUFFICES ASSUME ~pipelined', ~crashed'
               PROVE  /\ taken' = 3 * Len(handled')
                      /\ lines' <= Len(handled') + 1
                      /\ ~(taken' < received')
    BY DEF OneLineOnTheWay
  <2>1. ~pipelined /\ ~(Len(handled) < lines) /\ ~crashed
    OBVIOUS
  <2>2. /\ taken = 3 * Len(handled) /\ lines <= Len(handled) + 1
        /\ UNCHANGED <<taken, received, handled>> /\ lines' = lines + 1
    BY <2>1 DEF OneLineOnTheWay
  <2>3. received <= 3 * lines
    BY DEF BytesInOrder
  <2> QED
    BY <1>1, <2>1, <2>2, <2>3
<1>5. CrashNeedsPipelining'
  BY DEF CrashNeedsPipelining
<1> QED
  BY <1>2, <1>3, <1>4, <1>5

LEMMA ClientLeavesStep ==
  ASSUME RInv, ClientLeaves PROVE RInv'
<1> USE DEF RInv, ReaderTypeOK, ClientLeaves, LineSize
<1>1. /\ bytes' \in Nat /\ received <= bytes' /\ bytes' <= bytes
      /\ UNCHANGED <<lines, received, taken>>
  OBVIOUS
<1>2. BytesInOrder'
  BY <1>1 DEF BytesInOrder
<1>3. ReaderTypeOK'
  BY <1>1 DEF BytesInOrder
<1>4. HandledInOrder' /\ TakenIsHandled' /\ OneLineOnTheWay' /\ CrashNeedsPipelining'
  BY DEF HandledInOrder, TakenIsHandled, OneLineOnTheWay, CrashNeedsPipelining
<1> QED
  BY <1>2, <1>3, <1>4

LEMMA ReceiveStep ==
  ASSUME RInv, ~crashed, Receive PROVE RInv'
<1> USE DEF RInv, ReaderTypeOK, Receive, LineSize
<1>1. Len(handled) \in Nat
  BY LenProperties
<1>2. ReaderTypeOK' /\ BytesInOrder'
  BY DEF BytesInOrder
<1>3. HandledInOrder' /\ TakenIsHandled' /\ CrashNeedsPipelining'
  BY DEF HandledInOrder, TakenIsHandled, CrashNeedsPipelining
<1>4. OneLineOnTheWay'
  <2> SUFFICES ASSUME ~pipelined, read' = "ready"
               PROVE  received' = 3 * lines
    BY DEF OneLineOnTheWay
  <2>1. PICK n \in 1 .. lines : 3 * n \in taken + 1 .. received'
    BY DEF Newlines, Newline
  <2>2. taken = 3 * Len(handled) /\ lines <= Len(handled) + 1
    BY DEF OneLineOnTheWay
  <2>3. n = lines
    BY <1>1, <2>1, <2>2
  <2> QED
    BY <2>1, <2>3 DEF BytesInOrder
<1> QED
  BY <1>2, <1>3, <1>4

LEMMA HandleLineStep ==
  ASSUME RInv, ~crashed, HandleLine PROVE RInv'
<1> USE DEF RInv, ReaderTypeOK, LineSize
<1>1. Len(handled) \in Nat
  BY LenProperties
<1>2. PICK end \in Buffer :
        /\ LineEnd(end)
        /\ taken' = end
        /\ \/ \E n \in 1 .. lines :
                /\ TextTo(end) = Text(n)
                /\ handled' = Append(handled, n)
                /\ UNCHANGED crashed
           \/ /\ \A n \in 1 .. lines : TextTo(end) # Text(n)
              /\ crashed' = TRUE
              /\ UNCHANGED handled
  BY DEF HandleLine
<1>3. /\ end \in taken + 1 .. received
      /\ UNCHANGED <<lines, bytes, peer, received, read, told, pipelined, timedOut>>
      /\ read = "handling"
  BY <1>2 DEF Buffer, HandleLine
<1>4. BytesInOrder'
  BY <1>2, <1>3 DEF BytesInOrder
<1>5. CASE \E n \in 1 .. lines :
             /\ TextTo(end) = Text(n)
             /\ handled' = Append(handled, n)
             /\ UNCHANGED crashed
  <2>1. PICK n \in 1 .. lines :
          TextTo(end) = Text(n) /\ handled' = Append(handled, n) /\ crashed' = crashed
    BY <1>5
  <2> DEFINE last == IF end \in Newlines THEN end - 1 ELSE end
  <2>2. taken + 1 = 3 * n - 2 /\ last = 3 * n - 1
    <3>1. taken + 1 .. last = 3 * n - 2 .. (3 * n - 2) + 1
      BY <2>1 DEF TextTo, Text, Newline
    <3>2. taken + 1 \in Int /\ last \in Int /\ 3 * n - 2 \in Int
      BY <1>3
    <3> HIDE DEF last
    <3>3. taken + 1 = 3 * n - 2 /\ last = (3 * n - 2) + 1
      BY <3>1, <3>2, TwoNumbers
    <3> QED
      BY <3>2, <3>3
  <2>3. n = Len(handled) + 1
    BY <1>1, <2>2 DEF TakenIsHandled
  <2>4. /\ Len(handled') = Len(handled) + 1
        /\ \A i \in 1 .. Len(handled) : handled'[i] = handled[i]
        /\ handled'[Len(handled) + 1] = n
        /\ handled' \in Seq(1 .. MaxLines)
    <3>1. n \in 1 .. MaxLines
      BY ReaderAssumption
    <3> QED
      BY <2>1, <3>1, AppendProperties
  <2>5. HandledInOrder'
    <3> SUFFICES ASSUME NEW i \in 1 .. Len(handled) + 1
                 PROVE  handled'[i] = i /\ Len(handled) + 1 <= lines
      BY <1>3, <2>4 DEF HandledInOrder
    <3>1. CASE i \in 1 .. Len(handled)
      BY <2>3, <2>4, <3>1 DEF HandledInOrder
    <3>2. CASE i = Len(handled) + 1
      BY <2>3, <2>4, <3>2
    <3> QED
      BY <1>1, <3>1, <3>2
  <2>6. \/ end = 3 * Len(handled')
        \/ end = 3 * Len(handled') - 1 /\ end \notin Newlines
    BY <1>1, <1>3, <2>2, <2>3, <2>4
  <2>7. TakenIsHandled'
    BY <1>2, <2>6 DEF TakenIsHandled
  <2>8. OneLineOnTheWay'
    <3> SUFFICES ASSUME ~pipelined
                 PROVE  /\ end = 3 * Len(handled')
                        /\ lines <= Len(handled') + 1
                        /\ end < received => received = 3 * lines
      BY <1>2, <1>3 DEF OneLineOnTheWay
    <3>1. /\ taken = 3 * Len(handled) /\ lines <= Len(handled) + 1
          /\ received = 3 * lines
      BY <1>3 DEF OneLineOnTheWay
    <3>2. n = lines
      BY <1>1, <2>3, <3>1
    <3>3. received \in Buffer \cap Newlines
      BY <1>1, <1>3, <3>1, <3>2 DEF Buffer, Newlines, Newline
    <3>4. end \in Newlines
      BY <1>2, <3>3 DEF LineEnd, Unread
    <3>5. end = 3 * Len(handled')
      BY <2>6, <3>4
    <3> QED
      BY <1>1, <2>3, <2>4, <3>1, <3>5
  <2>9. ReaderTypeOK'
    BY <1>2, <1>3, <2>1, <2>4 DEF BytesInOrder
  <2> QED
    BY <1>3, <1>4, <2>1, <2>5, <2>7, <2>8, <2>9 DEF CrashNeedsPipelining
<1>6. CASE /\ \A n \in 1 .. lines : TextTo(end) # Text(n)
           /\ crashed' = TRUE
           /\ UNCHANGED handled
  <2>1. pipelined
    <3> SUFFICES ASSUME ~pipelined PROVE FALSE
      OBVIOUS
    <3>1. /\ taken = 3 * Len(handled) /\ lines <= Len(handled) + 1
          /\ received = 3 * lines
      BY <1>3 DEF OneLineOnTheWay
    <3>2. lines = Len(handled) + 1
      BY <1>1, <1>3, <3>1
    <3>3. received \in Buffer \cap Newlines
      BY <1>1, <1>3, <3>1, <3>2 DEF Buffer, Newlines, Newline
    <3>4. end \in Newlines
      BY <1>2, <3>3 DEF LineEnd, Unread
    <3>5. end = 3 * lines
      <4>1. PICK n \in 1 .. lines : end = 3 * n
        BY <3>4 DEF Newlines, Newline
      <4> QED
        BY <1>1, <1>3, <3>1, <3>2, <4>1
    <3>6. TextTo(end) = Text(lines)
      BY <1>1, <3>1, <3>2, <3>4, <3>5 DEF TextTo, Text, Newline
    <3> QED
      BY <1>1, <1>6, <3>2, <3>6
  <2>2. ReaderTypeOK'
    BY <1>2, <1>3, <1>6
  <2> QED
    BY <1>3, <1>4, <1>6, <2>1, <2>2
    DEF HandledInOrder, TakenIsHandled, OneLineOnTheWay, CrashNeedsPipelining
<1> QED
  BY <1>2, <1>5, <1>6

LEMMA OtherReadSteps ==
  ASSUME RInv, RunRead \/ ReadAgain \/ ReadEnds \/ ReadAborted \/ ReadTimesOut
  PROVE  RInv'
<1> USE DEF RInv, ReaderTypeOK, BytesInOrder, HandledInOrder, TakenIsHandled,
        OneLineOnTheWay, CrashNeedsPipelining
<1>1. CASE RunRead
  BY <1>1 DEF RunRead
<1>2. CASE ReadAgain
  BY <1>2 DEF ReadAgain
<1>3. CASE ReadEnds
  BY <1>3 DEF ReadEnds
<1>4. CASE ReadAborted
  BY <1>4 DEF ReadAborted
<1>5. CASE ReadTimesOut
  BY <1>5 DEF ReadTimesOut
<1> QED
  BY <1>1, <1>2, <1>3, <1>4, <1>5

THEOREM ReaderInvariant == ConnectionSpec => []RInv
<1>1. ConnectionInit => RInv
  BY ReaderInitial DEF ConnectionInit
<1>2. RInv /\ [ConnectionNext]_connectionVars => RInv'
  <2> SUFFICES ASSUME RInv, [ConnectionNext]_connectionVars PROVE RInv'
    OBVIOUS
  <2>1. CASE UNCHANGED readerVars
    BY <2>1 DEF readerVars, RInv, ReaderTypeOK, BytesInOrder, HandledInOrder,
       TakenIsHandled, OneLineOnTheWay, CrashNeedsPipelining
  <2>2. CASE ReaderStep
    BY <2>2, ClientSendsStep, ClientLeavesStep, ReceiveStep, HandleLineStep,
       OtherReadSteps
    DEF ReaderStep, ReadHandlers
  <2> QED
    BY <2>1, <2>2 DEF ConnectionNext, WriterStep, connectionVars
<1> QED
  BY <1>1, <1>2, PTL DEF ConnectionSpec

\* However the bytes of the client are cut, its lines are handled in order,
\* none twice and none left out.
THEOREM LinesHandledInOrder == ConnectionSpec => []HandledInOrder
<1>1. RInv => HandledInOrder
  BY DEF RInv
<1> QED
  BY <1>1, ReaderInvariant, PTL

\* A client that sends a line only when the one before was handled does not
\* make deserialize throw.
THEOREM WaitingClientIsSafe == ConnectionSpec => []CrashNeedsPipelining
<1>1. RInv => CrashNeedsPipelining
  BY DEF RInv
<1> QED
  BY <1>1, ReaderInvariant, PTL

=============================================================================
