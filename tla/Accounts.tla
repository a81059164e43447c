------------------------------ MODULE Accounts ------------------------------
(***************************************************************************)
(* The account book the database thread stands for: a name has no account, *)
(* or one account with one password, opened once and never changed.        *)
(***************************************************************************)
CONSTANTS Users, Passwords

VARIABLE account    \* the passwords of a name: none or one

TypeOK == account \in [Users -> SUBSET Passwords]

\* The book may hold accounts from before.
Init == account \in [Users -> {{}} \cup {{p} : p \in Passwords}]

Open(u, p) ==
    /\ account[u] = {}
    /\ account' = [account EXCEPT ![u] = {p}]

Next == \E u \in Users, p \in Passwords : Open(u, p)

Spec == Init /\ [][Next]_account

=============================================================================
