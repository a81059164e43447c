------------------------------ MODULE MCServer ------------------------------
(* Values for the runs of Server.                                          *)
EXTENDS Server

CONSTANTS u1, u2, p1, p2, s1, s2

\* A file in which one account exists already.
OneAccount == <<[name |-> u1, password |-> p1]>>

\* Both accounts exist already.
TwoAccounts == <<[name |-> u1, password |-> p1], [name |-> u2, password |-> p1]>>

\* With OneAccount: a login that is granted, or a registration of the other
\* name, next to the same, or to a registration that is refused.
MixedJoins == {LoginRequest(u1, p1, s1), RegisterRequest(u2, p1, s1),
               LoginRequest(u1, p1, s2), RegisterRequest(u2, p1, s2),
               RegisterRequest(u1, p1, s2)}

\* With TwoAccounts: each client has its own account.
OwnLogins == {LoginRequest(u1, p1, s1), LoginRequest(u2, p1, s2)}

\* With OneAccount: both connections log in to it.
SameLogins == {LoginRequest(u1, p1, s1), LoginRequest(u1, p1, s2)}

=============================================================================
