------------------------------ MODULE Directory ------------------------------
(***************************************************************************)
(* What the user accounts promise to a client who sees only table users:   *)
(* an account appears, or changes its name, address and phone, at once;    *)
(* no two accounts share a name or an address; nobody's role or password   *)
(* is ever changed.                                                        *)
(***************************************************************************)
CONSTANTS Ids, Usernames, Emails, Phones, Passwords, NoRow

Account ==
  [ username : Usernames, email : Emails, phone_number : Phones,
    password_hash : Passwords, role : {"guest", "admin"} ]

VARIABLE users       \* table users

(* Columns that the database keeps unique.                                 *)
Keys == {"username", "email"}

(* No other account than i has the name or the address of this row.        *)
Free(i, row) ==
  \A j \in Ids \ {i} : users[j] # NoRow => \A c \in Keys : users[j][c] # row[c]

Unique == \A i \in Ids : users[i] # NoRow => Free(i, users[i])

Put(i, row) == Free(i, row) /\ users' = [users EXCEPT ![i] = row]

Register(i) ==
  /\ users[i] = NoRow
  /\ \E row \in Account : row.role = "guest" /\ Put(i, row)

Change(i) ==
  /\ users[i] # NoRow
  /\ \E row \in Account : /\ row.role = users[i].role
                          /\ row.password_hash = users[i].password_hash
                          /\ Put(i, row)

DirectoryInit == users \in [Ids -> Account \cup {NoRow}] /\ Unique

DirectoryNext == \E i \in Ids : Register(i) \/ Change(i)

DirectorySpec == DirectoryInit /\ [][DirectoryNext]_users
=============================================================================
