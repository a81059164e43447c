------------------------------ MODULE Protocol ------------------------------
(***************************************************************************)
(* The lines the client and the server exchange, as far as the components  *)
(* tell them apart (common/protocol, common/message): one constructor per  *)
(* protocol::Command that the server sends, and the chat message.          *)
(***************************************************************************)
EXTENDS Naturals, Sequences

CONSTANTS
    Users,      \* user names
    Texts,      \* chat texts
    Sessions,   \* connections to the server, each used once
    None        \* no session, no user name

ASSUME ProtocolAssumption == None \notin Sessions \cup Users

\* The chat message of a sender (message::Message with its content).
Chat == [sender : Users, text : Texts]

\* What the writer of a session is given: LOGIN_RESPONSE_ACCEPT and _REJECT
\* ("for" is a ghost: the session whose join request was answered), ...
Accept(s) == [type |-> "accept", for |-> s]
Reject(s) == [type |-> "reject", for |-> s]

\* ... CHAT_MESSAGE, PROFILE_PICTURE, SERVER_KICK_REQUEST, ...
ChatLine(c) == [type |-> "chat", chat |-> c]
PictureLine(u) == [type |-> "picture", name |-> u]
Kick == [type |-> "kick"]

\* ... and the order to close the connection, which is not a line.
Bye == [type |-> "bye"]

Out == [type : {"accept", "reject"}, for : Sessions]
         \cup [type : {"chat"}, chat : Chat]
         \cup [type : {"picture"}, name : Users]
         \cup [type : {"kick", "bye"}]

-----------------------------------------------------------------------------

\* The elements of a queue that are of the given types, in their order.
OfType(seq, types) ==
    LET kept[n \in 0 .. Len(seq)] ==
            IF n = 0 THEN <<>>
            ELSE IF seq[n].type \in types THEN Append(kept[n - 1], seq[n])
            ELSE kept[n - 1]
    IN  kept[Len(seq)]

=============================================================================
