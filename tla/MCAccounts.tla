----------------------------- MODULE MCAccounts -----------------------------
(***************************************************************************)
(* Instances of Accounts for TLC.                                          *)
(***************************************************************************)
EXTENDS Accounts, TLC

CONSTANTS ann, bob, p

(* Two names, each with its address, one phone number.                     *)
Row(u, mail, role) ==
  [ username |-> u, email |-> mail, phone_number |-> p, password_hash |-> u, role |-> role ]

Registers ==
  { [op |-> "register", username |-> u, email |-> e, password_hash |-> ann] :
    u \in Usernames, e \in Emails }

Updates ==
  { [op |-> "update", user_id |-> i, username |-> u, email |-> e, phone_number |-> NoPhone] :
    i \in {1, 2}, u \in Usernames, e \in Emails }

Reads == [op : {"login"}, email : Emails, password_hash : {ann}] \cup [op : {"read"}, user_id : {1}]

(* Everybody wants the same two names.                                     *)
All == Registers \cup Updates \cup Reads

Tables ==
  { [i \in Ids |-> CASE i = 1 -> Row(ann, ann, "admin") [] i = 2 -> second [] OTHER -> NoRow] :
    second \in {NoRow, Row(bob, bob, "guest")} }
=============================================================================
