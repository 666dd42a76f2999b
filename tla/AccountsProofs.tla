--------------------------- MODULE AccountsProofs ---------------------------
(***************************************************************************)
(* Theorems about Accounts and Directory, for every number of workers,     *)
(* accounts and names.                                                     *)
(***************************************************************************)
EXTENDS Accounts, TLAPS

LEMMA RequestShape ==
  ASSUME NEW r \in Requests \cup {NoRequest}
  PROVE  /\ r.op \in {"none", "register", "update", "login", "read"}
         /\ r \in Requests => r.op # "none"
         /\ r.op \in {"register", "update"} => r.username \in Usernames /\ r.email \in Emails
         /\ r.op \in {"register", "login"} => r.password_hash \in Passwords
         /\ r.op = "update" => r.user_id \in Ids /\ r.phone_number \in Phones
  BY RequestsAssumption
     DEF RegisterRequest, UpdateRequest, LoginRequest, ReadRequest, NoRequest

LEMMA NothingIsEmpty == DOMAIN Nothing = {} /\ Nothing \in [{} -> Account]
  BY DEF Nothing

LEMMA InitInv == Init => Inv
<1> SUFFICES ASSUME Init PROVE Inv
  OBVIOUS
<1>1. users \in [Ids -> Account \cup {NoRow}] /\ Unique
  BY UsersAssumption DEF Init, Unique, Free
<1>2. TypeOK
  BY <1>1, NothingIsEmpty DEF Init, TypeOK, Silence, Codes
<1> QED BY <1>1, <1>2, NothingIsEmpty DEF Init, Inv, Session, NoRequest

(* The end of a transaction takes nothing from another one, whether its    *)
(* row was installed or not.                                               *)
LEMMA AnswerInv ==
  ASSUME Inv, NEW w \in Workers, NEW code \in Codes, NEW id \in Ids \cup {NoRow},
         NEW role \in {"guest", "admin", NoRow}, Answer(w, code, id, role),
         UNCHANGED unused, Unique',
         users' \in [Ids -> Account \cup {NoRow}],
         \A i \in Ids \ DOMAIN pending[w] : users'[i] = users[i],
         \A v \in Workers \ {w} : \A c \in entered[v], k \in DOMAIN pending[v] :
           \A j \in Ids \ {k} : users'[j] # NoRow => users'[j][c] # pending[v][k][c]
  PROVE  Inv'
<1> USE NothingIsEmpty DEF Answer, GoTo
<1>1. TypeOK'
  BY DEF Inv, Session, TypeOK
<1>2. ASSUME NEW v \in Workers PROVE Session(v)'
  <2>1. CASE v = w
    BY <2>1 DEF Inv, Session, TypeOK
  <2>2. CASE v # w
    <3>1. /\ pc'[v] = pc[v] /\ req'[v] = req[v] /\ pending'[v] = pending[v]
          /\ entered'[v] = entered[v]
      BY <2>2 DEF Inv, Session, TypeOK
    <3>2. ASSUME NEW i \in DOMAIN pending[v] PROVE HeldAccount(v, i)'
      <4>1. i \in Ids /\ i \notin DOMAIN pending[w] /\ HeldAccount(v, i)
        BY <2>2 DEF Inv, Session, TypeOK
      <4>2. users'[i] = users[i]
        BY <4>1
      <4>3. \A x \in Workers \ {v} :
              entered'[x] \subseteq entered[x] /\ DOMAIN pending'[x] \subseteq DOMAIN pending[x]
              /\ \A j \in DOMAIN pending'[x] : pending'[x][j] = pending[x][j]
        BY DEF Inv, Session, TypeOK
      <4>4. \A c \in entered[v] :
              \A x \in Workers \ {v} : c \in entered'[x] =>
                \A j \in DOMAIN pending'[x] : pending'[x][j][c] # pending[v][i][c]
        BY <4>1, <4>3 DEF HeldAccount
      <4> QED BY <2>2, <3>1, <4>1, <4>2, <4>4 DEF HeldAccount, Updated
    <3> QED BY <2>2, <3>1, <3>2 DEF Inv, Session, TypeOK
  <2> QED BY <2>1, <2>2
<1> QED BY <1>1, <1>2 DEF Inv, Session

LEMMA AbortInv ==
  ASSUME Inv, NEW w \in Workers, NEW code \in Codes, NEW id \in Ids \cup {NoRow},
         NEW role \in {"guest", "admin", NoRow}, Answer(w, code, id, role),
         UNCHANGED <<users, unused>>
  PROVE  Inv'
<1>1. Unique'
  BY DEF Inv, Session, Unique, Free
<1>2. users' \in [Ids -> Account \cup {NoRow}]
  BY DEF Inv, Session, TypeOK
<1>3. \A v \in Workers \ {w} : \A c \in entered[v], k \in DOMAIN pending[v] :
        \A j \in Ids \ {k} : users'[j] # NoRow => users'[j][c] # pending[v][k][c]
  BY DEF Inv, Session, HeldAccount
<1> QED BY <1>1, <1>2, <1>3, AnswerInv

LEMMA SelectInv == ASSUME Inv, NEW w \in Workers, Select(w) PROVE Inv'
<1>1. PICK code \in Codes, id \in Ids \cup {NoRow}, role \in {"guest", "admin", NoRow} :
        Answer(w, code, id, role)
  BY DEF Select, NotSelected, Codes, IsMeant, Inv, Session, TypeOK, Account
<1> QED BY <1>1, AbortInv DEF Select

LEMMA FailInv ==
  ASSUME Inv, NEW w \in Workers, Fail(w) \/ \E c \in Keys : IsRefused(w, c) PROVE Inv'
<1>1. PICK code \in Codes : Answer(w, code, NoRow, NoRow) /\ UNCHANGED <<users, unused>>
  BY DEF Fail, IsRefused, Failure, NotSelected, Codes
<1> QED BY <1>1, AbortInv

(* The database installs a row whose keys nobody else has.                 *)
LEMMA InstallFacts ==
  ASSUME Inv, NEW w \in Workers, pc[w] = "commit", Install(w)
  PROVE  /\ users' \in [Ids -> Account \cup {NoRow}]
         /\ \A i \in Ids \ DOMAIN pending[w] : users'[i] = users[i]
         /\ \A i \in DOMAIN pending[w] : Free(i, pending[w][i])
         /\ Unique'
         /\ \A v \in Workers \ {w} : \A c \in entered[v], k \in DOMAIN pending[v] :
              \A j \in Ids \ {k} : users'[j] # NoRow => users'[j][c] # pending[v][k][c]
<1>1. /\ users' \in [Ids -> Account \cup {NoRow}]
      /\ \A i \in Ids \ DOMAIN pending[w] : users'[i] = users[i]
      /\ \A i \in DOMAIN pending[w] : users'[i] = pending[w][i]
  BY DEF Install, Inv, Session, TypeOK
<1>2. \A i \in DOMAIN pending[w] : HeldAccount(w, i) /\ entered[w] = Keys
  BY DEF Inv, Session, HeldAccount
<1>3. \A i \in DOMAIN pending[w] : Free(i, pending[w][i])
  BY <1>2 DEF HeldAccount, Free
<1>4. ASSUME NEW i \in Ids, users'[i] # NoRow, NEW j \in Ids \ {i}, users'[j] # NoRow,
             NEW c \in Keys
      PROVE  users'[j][c] # users'[i][c]
  <2>1. \A k, m \in DOMAIN pending[w] : k = m
    BY DEF Inv, Session
  <2>2. CASE i \in DOMAIN pending[w]
    BY <1>1, <1>3, <1>4, <2>1, <2>2 DEF Free
  <2>3. CASE j \in DOMAIN pending[w]
    BY <1>1, <1>3, <1>4, <2>1, <2>3 DEF Free
  <2>4. CASE i \notin DOMAIN pending[w] /\ j \notin DOMAIN pending[w]
    BY <1>1, <1>4, <2>4 DEF Inv, Session, Unique, Free
  <2> QED BY <2>2, <2>3, <2>4
<1>5. Unique'
  BY <1>4 DEF Unique, Free
<1>6. ASSUME NEW v \in Workers \ {w}, NEW c \in entered[v], NEW k \in DOMAIN pending[v],
             NEW j \in Ids \ {k}, users'[j] # NoRow
      PROVE  users'[j][c] # pending[v][k][c]
  <2>1. HeldAccount(v, k) /\ c \in Keys
    BY DEF Inv, Session, TypeOK
  <2>2. CASE j \in DOMAIN pending[w]
    BY <1>1, <1>2, <2>1, <2>2 DEF HeldAccount
  <2>3. CASE j \notin DOMAIN pending[w]
    BY <1>1, <1>6, <2>1, <2>3 DEF HeldAccount
  <2> QED BY <2>2, <2>3
<1> QED BY <1>1, <1>3, <1>5, <1>6

LEMMA CommitInv ==
  ASSUME Inv, NEW w \in Workers, Commit(w) \/ CommitInDoubt(w) PROVE Inv'
<1>1. pc[w] = "commit" /\ Install(w) /\ UNCHANGED unused
  BY DEF Commit, CommitInDoubt, Install
<1>2. PICK code \in Codes, id \in Ids \cup {NoRow}, role \in {"guest", "admin", NoRow} :
        Answer(w, code, id, role)
  BY DEF Commit, CommitInDoubt, Success, Failure, NotSelected, Codes, Inv, TypeOK
<1> QED BY <1>1, <1>2, InstallFacts, AnswerInv

-----------------------------------------------------------------------------
(* Steps inside a transaction.                                             *)

(* Where only worker w moves, and enters no key, the others keep what they *)
(* hold.                                                                   *)
LEMMA OthersKeep ==
  ASSUME Inv, NEW w \in Workers, NEW v \in Workers \ {w},
         pc'[v] = pc[v], req'[v] = req[v], pending'[v] = pending[v],
         entered'[v] = entered[v], UNCHANGED users,
         \A x \in Workers \ {w} : entered'[x] = entered[x] /\ pending'[x] = pending[x],
         DOMAIN pending'[w] \cap DOMAIN pending[v] = {},
         \A c \in entered'[w] : c \in entered[v] =>
           \A i \in DOMAIN pending[v], j \in DOMAIN pending'[w] :
             pending'[w][j][c] # pending[v][i][c]
  PROVE  Session(v)'
<1>1. ASSUME NEW i \in DOMAIN pending[v] PROVE HeldAccount(v, i)'
  <2>1. HeldAccount(v, i)
    BY DEF Inv, Session
  <2>2. ASSUME NEW c \in entered[v], NEW x \in Workers \ {v}, c \in entered'[x],
               NEW j \in DOMAIN pending'[x]
        PROVE  pending'[x][j][c] # pending[v][i][c]
    BY <2>1, <2>2 DEF HeldAccount
  <2> QED BY <2>1, <2>2 DEF HeldAccount, Updated
<1> QED BY <1>1 DEF Inv, Session

LEMMA ReceiveInv == ASSUME Inv, NEW w \in Workers, Receive(w) PROVE Inv'
<1>1. DOMAIN pending[w] = {} /\ entered[w] = {}
  BY DEF Inv, Session, HeldAccount, Receive
<1>2. PICK r \in Requests :
        /\ req' = [req EXCEPT ![w] = r]
        /\ pc' = [pc EXCEPT ![w] = IF r.op = "register" THEN "insert"
                                  ELSE IF r.op = "update" THEN "update" ELSE "select"]
  BY DEF Receive, GoTo
<1>3. TypeOK'
  BY <1>2 DEF Inv, TypeOK, Receive, Silence, Codes
<1>4. ASSUME NEW v \in Workers PROVE Session(v)'
  <2>1. CASE v = w
    BY <1>1, <1>2, <2>1 DEF Inv, TypeOK, Receive, Session
  <2>2. CASE v # w
    BY <1>1, <1>2, <2>2, OthersKeep DEF Inv, TypeOK, Receive
  <2> QED BY <2>1, <2>2
<1> QED BY <1>3, <1>4 DEF Inv, Receive, Unique, Free

(* A worker takes a row that nobody else has, before it enters a key.      *)
LEMMA HoldInv ==
  ASSUME Inv, NEW w \in Workers, NEW i \in Ids, NEW row \in Account,
         pc[w] \in {"insert", "update"}, DOMAIN pending[w] = {}, entered[w] = {},
         pc' = [pc EXCEPT ![w] = "enter"],
         pending' = [pending EXCEPT ![w] = [x \in {i} |-> row]],
         UNCHANGED <<users, req, entered, reply>>,
         unused' \subseteq unused \ {i},
         \A v \in Workers : i \notin DOMAIN pending[v],
         IF req[w].op = "register" THEN users[i] = NoRow /\ row = Asked(req[w])
         ELSE /\ req[w].op = "update" /\ i = req[w].user_id
              /\ users[i] # NoRow /\ row = Updated(req[w], users[i])
  PROVE  Inv'
<1>1. pending'[w] = [x \in {i} |-> row] /\ \A v \in Workers \ {w} : pending'[v] = pending[v]
  BY DEF Inv, TypeOK
<1>2. TypeOK'
  BY <1>1 DEF Inv, TypeOK
<1>3. ASSUME NEW v \in Workers PROVE Session(v)'
  <2>1. CASE v = w
    <3>1. HeldAccount(w, i)'
      <4>1. /\ pc'[w] = "enter" /\ req'[w] = req[w] /\ users' = users
            /\ pending'[w][i] = row /\ entered'[w] = {}
        BY <1>1 DEF Inv, TypeOK
      <4> QED BY <4>1 DEF HeldAccount
    <3> QED BY <1>1, <2>1, <3>1 DEF Inv, TypeOK, Session
  <2>2. CASE v # w
    <3>1. entered'[w] = {} /\ DOMAIN pending'[w] \cap DOMAIN pending[v] = {}
      BY <1>1, <2>2
    <3>2. pc'[v] = pc[v]
      BY <2>2 DEF Inv, TypeOK
    <3> QED BY <1>1, <2>2, <3>1, <3>2, OthersKeep
  <2> QED BY <2>1, <2>2
<1> QED BY <1>2, <1>3 DEF Inv, Unique, Free

LEMMA InsertInv == ASSUME Inv, NEW w \in Workers, Insert(w) PROVE Inv'
<1> DEFINE row == Asked(req[w])
<1>1. PICK i \in unused :
        /\ unused' = unused \ {i}
        /\ pending' = [pending EXCEPT ![w] = [x \in {i} |-> row]]
  BY DEF Insert
<1>2. pc[w] = "insert" /\ req[w].op = "register" /\ req[w] \in Requests \cup {NoRequest}
  BY DEF Insert, Inv, TypeOK, Session
<1>3. row \in Account
  BY <1>2, RequestShape, NamesAssumption DEF Account, Asked
<1>4. DOMAIN pending[w] = {} /\ entered[w] = {}
  BY <1>2 DEF Inv, Session, HeldAccount
<1>5. /\ i \in Ids /\ users[i] = NoRow /\ \A v \in Workers : i \notin DOMAIN pending[v]
      /\ unused' \subseteq unused \ {i}
  BY <1>1 DEF Inv, TypeOK
<1>6. pc' = [pc EXCEPT ![w] = "enter"] /\ UNCHANGED <<users, req, entered, reply>>
  BY DEF Insert, GoTo
<1>7. row = Asked(req[w])
  OBVIOUS
<1> HIDE DEF row
<1> QED BY <1>1, <1>2, <1>3, <1>4, <1>5, <1>6, <1>7, HoldInv

LEMMA UpdateInv == ASSUME Inv, NEW w \in Workers, Update(w) PROVE Inv'
<1> DEFINE i == req[w].user_id
           row == Updated(req[w], users[i])
<1>1. pc[w] = "update" /\ req[w].op = "update" /\ req[w] \in Requests \cup {NoRequest}
  BY DEF Update, Inv, TypeOK, Session
<1>2. DOMAIN pending[w] = {} /\ entered[w] = {} /\ i \in Ids
  BY <1>1, RequestShape DEF Inv, Session, HeldAccount
<1>3. CASE users[i] = NoRow
  <2>1. pc' = [pc EXCEPT ![w] = "commit"] /\ UNCHANGED <<users, unused, req, pending, entered, reply>>
    BY <1>3 DEF Update, GoTo
  <2>2. TypeOK'
    BY <2>1 DEF Inv, TypeOK
  <2>3. ASSUME NEW v \in Workers PROVE Session(v)'
    <3>1. CASE v = w
      BY <1>1, <1>2, <2>1, <3>1 DEF Inv, TypeOK, Session
    <3>2. CASE v # w
      BY <1>2, <2>1, <3>2, OthersKeep DEF Inv, TypeOK
    <3> QED BY <3>1, <3>2
  <2> QED BY <2>1, <2>2, <2>3 DEF Inv, Unique, Free
<1>4. CASE users[i] # NoRow
  <2>1. /\ pc' = [pc EXCEPT ![w] = "enter"]
        /\ pending' = [pending EXCEPT ![w] = [x \in {i} |-> row]]
        /\ UNCHANGED <<users, unused, req, entered, reply>>
    BY <1>4 DEF Update, GoTo
  <2>2. \A v \in Workers : i \notin DOMAIN pending[v]
    BY <1>1, <1>2, <1>4 DEF Update, WaitsForRow
  <2>3. row \in Account
    <3>1. users[i] \in Account
      BY <1>2, <1>4 DEF Inv, TypeOK
    <3>2. /\ req[w].username \in Usernames /\ req[w].email \in Emails
          /\ req[w].phone_number \in Phones
      BY <1>1, RequestShape
    <3> QED BY <3>1, <3>2 DEF Updated, Account
  <2>4. unused' \subseteq unused \ {i}
    BY <1>2, <1>4, <2>1 DEF Inv, TypeOK
  <2> HIDE DEF row
  <2>5. row = Updated(req[w], users[i])
    BY DEF row
  <2> QED BY <1>1, <1>2, <1>4, <2>1, <2>2, <2>3, <2>4, <2>5, HoldInv
<1> QED BY <1>3, <1>4

(* The key that a worker enters is no other's, and none waits for another  *)
(* transaction's outcome.                                                  *)
LEMMA EnterKeyInv ==
  ASSUME Inv, NEW w \in Workers, NEW c \in Keys, EnterKey(w, c) PROVE Inv'
<1>1. /\ entered' = [entered EXCEPT ![w] = @ \cup {c}]
      /\ pc' = [pc EXCEPT ![w] = IF entered[w] \cup {c} = Keys THEN "commit" ELSE "enter"]
      /\ UNCHANGED <<users, unused, req, pending, reply>>
      /\ pc[w] = "enter" /\ c \notin entered[w]
      /\ ~\E v \in Workers : WaitsForKey(w, v, c)
      /\ ~IsTaken(w, c)
  BY DEF EnterKey, GoTo
<1>2. TypeOK'
  BY <1>1 DEF Inv, TypeOK
<1>3. \A i \in DOMAIN pending[w] : \A j \in Ids \ {i} :
        users[j] # NoRow => users[j][c] # pending[w][i][c]
  BY <1>1 DEF IsTaken
<1>4. \A v \in Workers \ {w} : c \in entered[v] =>
        \A i \in DOMAIN pending[w], j \in DOMAIN pending[v] :
          pending[v][j][c] # pending[w][i][c]
  BY <1>1 DEF WaitsForKey
<1>5. ASSUME NEW v \in Workers PROVE Session(v)'
  <2>1. CASE v = w
    <3>1. ASSUME NEW i \in DOMAIN pending[w] PROVE HeldAccount(w, i)'
      <4>1. HeldAccount(w, i) /\ i \in Ids
        BY DEF Inv, TypeOK, Session
      <4>2. entered'[w] = entered[w] \cup {c} /\ \A v2 \in Workers \ {w} : entered'[v2] = entered[v2]
        BY <1>1 DEF Inv, TypeOK
      <4> QED BY <1>1, <1>3, <1>4, <4>1, <4>2 DEF HeldAccount, Inv, TypeOK
    <3> QED BY <1>1, <2>1, <3>1 DEF Inv, TypeOK, Session
  <2>2. CASE v # w
    <3>1. \A x \in entered[w] : x \in entered[v] =>
            \A i \in DOMAIN pending[v], j \in DOMAIN pending[w] :
              pending[w][j][x] # pending[v][i][x]
      BY <2>2 DEF Inv, Session, HeldAccount
    <3>2. entered'[w] = entered[w] \cup {c} /\ \A x \in Workers \ {w} : entered'[x] = entered[x]
      BY <1>1 DEF Inv, TypeOK
    <3>3. \A x \in entered'[w] : x \in entered[v] =>
            \A i \in DOMAIN pending[v], j \in DOMAIN pending'[w] :
              pending'[w][j][x] # pending[v][i][x]
      BY <1>1, <1>4, <2>2, <3>1, <3>2
    <3> QED BY <1>1, <2>2, <3>2, <3>3, OthersKeep DEF Inv, TypeOK, Session
  <2> QED BY <2>1, <2>2
<1> QED BY <1>1, <1>2, <1>5 DEF Inv, Unique, Free

LEMMA NextInv == Inv /\ [Next]_vars => Inv'
<1> SUFFICES ASSUME Inv, [Next]_vars PROVE Inv'
  OBVIOUS
<1>1. ASSUME NEW w \in Workers, Serve(w) PROVE Inv'
  BY <1>1, ReceiveInv, SelectInv, InsertInv, UpdateInv, EnterKeyInv, FailInv, CommitInv
     DEF Serve, Advance, Write
<1>2. CASE Crash
  <2>1. TypeOK'
    BY <1>2, NothingIsEmpty DEF Inv, TypeOK, Crash, Silence, Codes
  <2>2. \A w \in Workers : Session(w)'
    BY <1>2, NothingIsEmpty DEF Crash, Session, NoRequest
  <2> QED BY <1>2, <2>1, <2>2 DEF Crash, Inv, Unique, Free
<1>3. CASE UNCHANGED vars
  BY <1>3 DEF vars, Inv, TypeOK, Unique, Free, Session, HeldAccount
<1> QED BY <1>1, <1>2, <1>3 DEF Next

-----------------------------------------------------------------------------
(* The theorems.                                                           *)

(* Rows and keys in the making have one owner in every reachable state,    *)
(* and committed accounts never share a name or an address                 *)
(* (UserRepository.cpp:31, 76).                                            *)
THEOREM Invariance == Spec => []Inv
  BY InitInv, NextInv, PTL DEF Spec

(* Every step leaves the accounts alone or takes one step of the directory.*)
THEOREM Refinement == Spec => ImplementsDirectory
<1>1. Init => DirectoryInit
  BY InitInv DEF Inv, TypeOK, DirectoryInit
<1>2. ASSUME Inv, NEW w \in Workers, Commit(w) \/ CommitInDoubt(w)
      PROVE  [DirectoryNext]_users
  <2>1. pc[w] = "commit" /\ Install(w)
    BY <1>2 DEF Commit, CommitInDoubt
  <2>2. CASE DOMAIN pending[w] = {}
    <3>1. users' = [i \in Ids |-> users[i]]
      BY <2>1, <2>2 DEF Install
    <3> QED BY <1>2, <3>1 DEF Inv, TypeOK
  <2>3. CASE DOMAIN pending[w] # {}
    <3>1. PICK i \in DOMAIN pending[w] : TRUE
      BY <2>3
    <3>2. DOMAIN pending[w] = {i} /\ i \in Ids /\ pending[w][i] \in Account
      BY <1>2, <3>1 DEF Inv, TypeOK, Session
    <3>3. Put(i, pending[w][i])
      BY <1>2, <2>1, <3>2, InstallFacts DEF Put, Install, Inv, TypeOK
    <3>4. HeldAccount(w, i)
      BY <1>2, <3>1 DEF Inv, Session
    <3>5. CASE req[w].op = "register"
      BY <3>2, <3>3, <3>4, <3>5 DEF HeldAccount, Asked, DirectoryNext, Register
    <3>6. CASE req[w].op # "register"
      <4>1. users[i] \in Account /\ pending[w][i] = Updated(req[w], users[i])
        BY <1>2, <3>2, <3>4, <3>6 DEF HeldAccount, Inv, TypeOK
      <4>2. /\ pending[w][i].role = users[i].role
            /\ pending[w][i].password_hash = users[i].password_hash
        BY <4>1 DEF Updated, Account
      <4> QED BY <3>2, <3>3, <3>4, <3>6, <4>2 DEF HeldAccount, DirectoryNext, Change
    <3> QED BY <3>5, <3>6
  <2> QED BY <2>2, <2>3
<1>3. ASSUME Inv, [Next]_vars PROVE [DirectoryNext]_users
  BY <1>2, <1>3
     DEF Next, Serve, Advance, Write, Receive, Select, Insert, Update, EnterKey, IsRefused,
         Fail, Crash, vars
<1>4. Inv /\ [Next]_vars => [DirectoryNext]_users
  BY <1>3
<1> QED BY <1>1, <1>4, Invariance, PTL DEF Spec, ImplementsDirectory, DirectorySpec

(* A worker ends its request by a step of its own, or dies.                *)
LEMMA AnswersBySelf ==
  ASSUME Inv, [Next]_vars, NEW w \in Workers, pc[w] # "idle", pc'[w] = "idle",
         reply'[w].code # 0
  PROVE  \/ Select(w) \/ Commit(w) \/ CommitInDoubt(w) \/ Fail(w)
         \/ \E c \in Keys : IsRefused(w, c)
<1>1. PICK v \in Workers : Serve(v)
  BY DEF Next, Crash, vars, Silence
<1>2. v = w
  BY <1>1 DEF Serve, Advance, Write, Receive, Select, Insert, Update, EnterKey, IsRefused,
     Commit, CommitInDoubt, Success, Fail, Answer, GoTo, Inv, TypeOK
<1> QED BY <1>1, <1>2 DEF Serve, Advance, Write, Receive, Insert, Update, EnterKey, GoTo,
     Inv, TypeOK

(* "Username or email already exists" is true when it is said of an update *)
(* (UserController.cpp:159).                                               *)
THEOREM Conflict == Spec => ConflictIsReal
<1> DEFINE Step == \A w \in Workers : Answers(w, "update", 409) => HasNamesake(w)
<1>1. ASSUME Inv, [Next]_vars, NEW w \in Workers, Answers(w, "update", 409)
      PROVE  HasNamesake(w)
  <2>1. pc[w] # "idle" /\ pc'[w] = "idle" /\ req[w].op = "update" /\ reply'[w].code = 409
    BY <1>1 DEF Answers
  <2>2. PICK c \in Keys : IsRefused(w, c)
    BY <1>1, <2>1, AnswersBySelf
       DEF Select, NotSelected, Commit, CommitInDoubt, Success, Fail, Failure, Answer,
           Inv, TypeOK
  <2>3. PICK i \in DOMAIN pending[w] : \E j \in Ids \ {i} :
          users[j] # NoRow /\ users[j][c] = pending[w][i][c]
    BY <2>2 DEF IsRefused, IsTaken
  <2>4. HeldAccount(w, i)
    BY <1>1 DEF Inv, Session
  <2>5. i = req[w].user_id /\ pending[w][i] = Updated(req[w], users[i]) /\ users[i] \in Account
    BY <1>1, <2>1, <2>4 DEF HeldAccount, Inv, TypeOK
  <2>6. pending[w][i][c] = req[w][c]
    BY <2>5 DEF Updated, Account, Keys
  <2> QED BY <2>1, <2>3, <2>5, <2>6 DEF HasNamesake
<1>2. Inv /\ [Next]_vars => [Step]_vars
  BY <1>1
<1> QED BY <1>2, Invariance, PTL DEF Spec, ConflictIsReal

(* A login is answered with the one account that has the address           *)
(* (UserRepository.cpp:61).                                                *)
THEOREM Login == Spec => LoginIsOwn
<1> DEFINE Step ==
      \A w \in Workers, i \in Ids :
        Answers(w, "login", 200) /\ users[i] # NoRow /\ users[i].email = req[w].email
        => reply'[w].user_id = i /\ users[i].password_hash = req[w].password_hash
<1>1. ASSUME Inv, [Next]_vars, NEW w \in Workers, NEW i \in Ids,
             Answers(w, "login", 200), users[i] # NoRow, users[i].email = req[w].email
      PROVE  reply'[w].user_id = i /\ users[i].password_hash = req[w].password_hash
  <2>1. pc[w] # "idle" /\ pc'[w] = "idle" /\ req[w].op = "login" /\ reply'[w].code = 200
    BY <1>1 DEF Answers
  <2>2. Select(w)
    <3>1. pc[w] \notin {"enter", "commit"}
      BY <1>1, <2>1 DEF Inv, Session
    <3>2. ASSUME Fail(w) PROVE FALSE
      BY <1>1, <2>1, <3>2 DEF Fail, Failure, NotSelected, Answer, Inv, TypeOK
    <3> QED BY <1>1, <2>1, <3>1, <3>2, AnswersBySelf DEF Commit, CommitInDoubt, IsRefused
  <2>3. PICK j \in Ids : IsMeant(j, req[w]) /\ reply'[w].user_id = j
    BY <1>1, <2>1, <2>2 DEF Select, Answer, NotSelected, Inv, TypeOK
  <2>4. i = j
    BY <1>1, <2>1, <2>3 DEF IsMeant, Inv, Unique, Free, Keys
  <2> QED BY <2>1, <2>3, <2>4 DEF IsMeant
<1>2. Inv /\ [Next]_vars => [Step]_vars
  BY <1>1
<1>3. [][Step]_vars <=> LoginIsOwn
  BY DEF LoginIsOwn
<1> QED BY <1>2, <1>3, Invariance, PTL DEF Spec

(* What the install of worker w's row does to the accounts.                *)
LEMMA InstallsOwn ==
  ASSUME Inv, NEW w \in Workers, pc[w] = "commit", Install(w)
  PROVE  \/ DOMAIN pending[w] = {} /\ UNCHANGED users /\ req[w].op = "update"
         \/ \E i \in Ids :
              /\ DOMAIN pending[w] = {i}
              /\ users' = [users EXCEPT ![i] = pending[w][i]]
              /\ \/ /\ req[w].op = "register"
                    /\ users[i] = NoRow /\ pending[w][i] = Asked(req[w])
                 \/ /\ req[w].op = "update" /\ i = req[w].user_id
                    /\ users[i] # NoRow /\ pending[w][i] = Updated(req[w], users[i])
<1>1. CASE DOMAIN pending[w] = {}
  <2>1. users' = [i \in Ids |-> users[i]]
    BY <1>1 DEF Install
  <2>2. req[w].op = "update"
    BY <1>1 DEF Inv, Session
  <2> QED BY <1>1, <2>1, <2>2 DEF Inv, TypeOK
<1>2. CASE DOMAIN pending[w] # {}
  <2>1. PICK i \in DOMAIN pending[w] : TRUE
    BY <1>2
  <2>2. DOMAIN pending[w] = {i} /\ i \in Ids
    BY <2>1 DEF Inv, TypeOK, Session
  <2>3. users' = [users EXCEPT ![i] = pending[w][i]]
    BY <2>2 DEF Install, Inv, TypeOK
  <2>4. HeldAccount(w, i) /\ req[w].op \in {"register", "update"}
    BY <2>1 DEF Inv, Session
  <2> QED BY <2>2, <2>3, <2>4 DEF HeldAccount
<1> QED BY <1>1, <1>2

(* An answer about an account says what its step did                       *)
(* (UserController.cpp:67, 138, 141, 159).                                 *)
THEOREM Truth == Spec => AnswersTrue
<1> DEFINE
      registered(w, j) == users[j] = NoRow /\ users' = [users EXCEPT ![j] = Asked(req[w])]
      updated(w, j) == users[j] # NoRow
                       /\ users' = [users EXCEPT ![j] = Updated(req[w], users[j])]
      True(w) ==
        /\ Answers(w, "register", 201) => registered(w, reply'[w].user_id)
        /\ Answers(w, "update", 200) =>
             reply'[w].user_id = req[w].user_id /\ updated(w, reply'[w].user_id)
        /\ Answers(w, "update", 404) \/ Answers(w, "update", 409) => UNCHANGED users
        /\ Answers(w, "register", 409) => UNCHANGED users \/ \E j \in Ids : registered(w, j)
        /\ Answers(w, "update", 500) => UNCHANGED users \/ updated(w, req[w].user_id)
<1>1. ASSUME Inv, [Next]_vars, NEW w \in Workers, pc[w] # "idle", pc'[w] = "idle",
             reply'[w].code # 0
      PROVE  True(w)
  <2>1. CASE Select(w)
    <3>1. req[w].op \notin {"register", "update"}
      BY <1>1, <2>1, RequestShape DEF Select, Inv, Session
    <3> QED BY <3>1 DEF Answers
  <2>2. CASE \E c \in Keys : IsRefused(w, c)
    <3>1. UNCHANGED users /\ reply'[w].code = 409
      BY <1>1, <2>2 DEF IsRefused, Answer, Inv, TypeOK
    <3> QED BY <3>1 DEF Answers
  <2>3. CASE Fail(w)
    <3>1. UNCHANGED users /\ reply'[w].code = Failure(req[w].op)
      BY <1>1, <2>3 DEF Fail, Answer, Inv, TypeOK
    <3> QED BY <3>1 DEF Answers, Failure
  <2>4. CASE CommitInDoubt(w)
    <3>1. pc[w] = "commit" /\ Install(w) /\ reply'[w].code = Failure(req[w].op)
      BY <1>1, <2>4 DEF CommitInDoubt, Answer, Inv, TypeOK
    <3>2. reply'[w].code \notin {200, 201, 404} /\ (req[w].op = "update" => reply'[w].code = 500)
      BY <1>1, <3>1 DEF Failure, Inv, Session
    <3>3. req[w].op = "register" => UNCHANGED users \/ \E j \in Ids : registered(w, j)
      BY <1>1, <3>1, InstallsOwn
    <3>4. req[w].op = "update" => UNCHANGED users \/ updated(w, req[w].user_id)
      BY <1>1, <3>1, InstallsOwn
    <3> QED BY <3>2, <3>3, <3>4 DEF Answers
  <2>5. CASE Commit(w)
    <3>1. pc[w] = "commit" /\ Install(w) /\ Success(w)
      BY <2>5 DEF Commit
    <3>2. CASE DOMAIN pending[w] = {}
      <4>1. UNCHANGED users /\ req[w].op = "update"
        BY <1>1, <3>1, <3>2, InstallsOwn
      <4>2. reply'[w].code = 404
        BY <1>1, <3>1, <3>2, <4>1 DEF Success, Answer, Inv, TypeOK
      <4> QED BY <4>1, <4>2 DEF Answers
    <3>3. CASE DOMAIN pending[w] # {}
      <4>1. PICK i \in Ids :
              /\ DOMAIN pending[w] = {i}
              /\ users' = [users EXCEPT ![i] = pending[w][i]]
              /\ \/ /\ req[w].op = "register"
                    /\ users[i] = NoRow /\ pending[w][i] = Asked(req[w])
                 \/ /\ req[w].op = "update" /\ i = req[w].user_id
                    /\ users[i] # NoRow /\ pending[w][i] = Updated(req[w], users[i])
        BY <1>1, <3>1, <3>3, InstallsOwn
      <4>2. /\ reply'[w].user_id = i
            /\ reply'[w].code = IF req[w].op = "register" THEN 201 ELSE 200
        BY <1>1, <3>1, <4>1 DEF Success, Answer, Inv, TypeOK
      <4>3. CASE req[w].op = "register"
        <5>1. reply'[w].code = 201 /\ registered(w, reply'[w].user_id)
          BY <4>1, <4>2, <4>3
        <5> QED BY <4>3, <5>1 DEF Answers
      <4>4. CASE req[w].op = "update"
        <5>1. reply'[w].code = 200 /\ reply'[w].user_id = req[w].user_id
              /\ updated(w, reply'[w].user_id)
          BY <4>1, <4>2, <4>4
        <5> QED BY <4>4, <5>1 DEF Answers
      <4> QED BY <4>1, <4>3, <4>4
    <3> QED BY <3>2, <3>3
  <2> QED BY <1>1, <2>1, <2>2, <2>3, <2>4, <2>5, AnswersBySelf
<1>2. ASSUME Inv, [Next]_vars, NEW w \in Workers PROVE True(w)
  <2>1. CASE pc[w] # "idle" /\ pc'[w] = "idle" /\ reply'[w].code # 0
    BY <1>1, <1>2, <2>1
  <2> QED BY <2>1 DEF Answers
<1>3. Inv /\ [Next]_vars => [\A w \in Workers : True(w)]_vars
  BY <1>2
<1>4. [][\A w \in Workers : True(w)]_vars <=> AnswersTrue
  BY DEF AnswersTrue
<1> QED BY <1>3, <1>4, Invariance, PTL DEF Spec
=============================================================================
