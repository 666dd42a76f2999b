------------------------------ MODULE Accounts ------------------------------
(***************************************************************************)
(* UserController and UserRepository: registration, login, the profile and *)
(* its update.  A registration and an update enter their keys into two     *)
(* unique indexes, one after the other, and wait there for transactions    *)
(* that have the same key or are giving it up; two updates can so wait for *)
(* each other, until the database ends one of them.                        *)
(***************************************************************************)
EXTENDS Directory

CONSTANTS
  Workers,          \* threads of the Crow server
  Requests,         \* the requests that clients send
  InitialUsers,     \* tables the server may be started on
  NoPhone           \* a phone number that is NULL or empty

RegisterRequest ==
  [op : {"register"}, username : Usernames, email : Emails, password_hash : Passwords]
UpdateRequest ==
  [ op : {"update"}, user_id : Ids, username : Usernames, email : Emails,
    phone_number : Phones ]
LoginRequest == [op : {"login"}, email : Emails, password_hash : Passwords]
ReadRequest == [op : {"read"}, user_id : Ids]

NoRequest == [op |-> "none"]

ASSUME RequestsAssumption ==
  \A r \in Requests :
    r \in RegisterRequest \/ r \in UpdateRequest \/ r \in LoginRequest \/ r \in ReadRequest

ASSUME UsersAssumption ==
  \A t \in InitialUsers :
    /\ t \in [Ids -> Account \cup {NoRow}]
    /\ \A i, j \in Ids : i # j /\ t[i] # NoRow /\ t[j] # NoRow
                         => \A c \in Keys : t[i][c] # t[j][c]

ASSUME NamesAssumption == NoPhone \in Phones /\ NoRow \notin Account

VARIABLES
  unused,      \* ids the sequence behind users.user_id has not given out
  pc,          \* the statement a worker is executing
  req,         \* the request it serves
  pending,     \* its uncommitted row: a function on the ids written
  entered,     \* columns whose key it has entered into the index
  reply        \* the worker's last answer

vars == <<users, unused, pc, req, pending, entered, reply>>

Nothing == [i \in {} |-> NoRow]

Codes == {0, 200, 201, 401, 404, 409, 500}

Silence == [code |-> 0, user_id |-> NoRow, role |-> NoRow]

TypeOK ==
  /\ users \in [Ids -> Account \cup {NoRow}]
  /\ unused \subseteq {i \in Ids : users[i] = NoRow}
  /\ pc \in [Workers -> {"idle", "select", "insert", "update", "enter", "commit"}]
  /\ req \in [Workers -> Requests \cup {NoRequest}]
  /\ entered \in [Workers -> SUBSET Keys]
  /\ DOMAIN pending = Workers
  /\ \A w \in Workers : /\ DOMAIN pending[w] \subseteq Ids \ unused
                        /\ pending[w] \in [DOMAIN pending[w] -> Account]
  /\ reply \in [Workers -> [ code : Codes, user_id : Ids \cup {NoRow},
                             role : {"guest", "admin", NoRow} ]]

Init ==
  /\ users \in InitialUsers
  /\ unused = {i \in Ids : users[i] = NoRow}
  /\ pc = [w \in Workers |-> "idle"]
  /\ req = [w \in Workers |-> NoRequest]
  /\ pending = [w \in Workers |-> Nothing]
  /\ entered = [w \in Workers |-> {}]
  /\ reply = [w \in Workers |-> Silence]

-----------------------------------------------------------------------------

GoTo(w, statement) == pc' = [pc EXCEPT ![w] = statement]

Receive(w) ==
  /\ pc[w] = "idle"
  /\ \E r \in Requests :
       /\ req' = [req EXCEPT ![w] = r]
       /\ GoTo(w, CASE r.op = "register" -> "insert"
                    [] r.op = "update" -> "update"
                    [] OTHER -> "select")
  /\ reply' = [reply EXCEPT ![w] = Silence]
  /\ UNCHANGED <<users, unused, pending, entered>>

(* A controller that answers while the transaction is left open.           *)
AnswerKeepingRow(w, code, id, role) ==
  /\ GoTo(w, "idle")
  /\ req' = [req EXCEPT ![w] = NoRequest]
  /\ reply' = [reply EXCEPT ![w] = [code |-> code, user_id |-> id, role |-> role]]
  /\ UNCHANGED <<pending, entered>>

(* The repository returns or throws, its transaction goes out of scope.    *)
Answer(w, code, id, role) ==
  /\ GoTo(w, "idle")
  /\ req' = [req EXCEPT ![w] = NoRequest]
  /\ pending' = [pending EXCEPT ![w] = Nothing]
  /\ entered' = [entered EXCEPT ![w] = {}]
  /\ reply' = [reply EXCEPT ![w] = [code |-> code, user_id |-> id, role |-> role]]

(* A login without the password; and the WHERE of login and profile.       *)
IsMeantByAddress(i, r) ==
  users[i] # NoRow /\ IF r.op = "login" THEN users[i].email = r.email ELSE i = r.user_id

IsMeant(i, r) ==
  /\ users[i] # NoRow
  /\ IF r.op = "login"
     THEN users[i].email = r.email /\ users[i].password_hash = r.password_hash
     ELSE i = r.user_id

(* One SELECT; no row is answered like a failure.                          *)
NotSelected(op) == IF op = "login" THEN 401 ELSE 404

Select(w) ==
  LET meant == {i \in Ids : IsMeant(i, req[w])} IN
  /\ pc[w] = "select"
  /\ IF meant = {}
     THEN Answer(w, NotSelected(req[w].op), NoRow, NoRow)
     ELSE \E i \in meant : Answer(w, 200, i, users[i].role)
  /\ UNCHANGED <<users, unused>>

-----------------------------------------------------------------------------
(* INSERT and UPDATE: the row first, then its keys.                        *)

(* The row a registration asks for.                                        *)
Asked(r) ==
  [ username |-> r.username, email |-> r.email, phone_number |-> NoPhone,
    password_hash |-> r.password_hash, role |-> "guest" ]

Insert(w) ==
  /\ pc[w] = "insert"
  /\ \E i \in unused :
       /\ unused' = unused \ {i}
       /\ pending' = [pending EXCEPT ![w] = [x \in {i} |-> Asked(req[w])]]
  /\ GoTo(w, "enter")
  /\ UNCHANGED <<users, req, entered, reply>>

WaitsForRow(w, v) ==
  /\ w # v /\ pc[w] = "update"
  /\ users[req[w].user_id] # NoRow /\ req[w].user_id \in DOMAIN pending[v]

(* The SET clause; a form that stores the account as the Guest which the   *)
(* repository makes of it.                                                 *)
UpdatedGuest(r, row) ==
  [row EXCEPT !.username = r.username, !.email = r.email,
              !.phone_number = r.phone_number, !.role = "guest"]

Updated(r, row) ==
  [row EXCEPT !.username = r.username, !.email = r.email,
              !.phone_number = r.phone_number]

Update(w) ==
  LET i == req[w].user_id IN
  /\ pc[w] = "update"
  /\ ~\E v \in Workers : WaitsForRow(w, v)
  /\ IF users[i] = NoRow
     THEN GoTo(w, "commit") /\ UNCHANGED pending
     ELSE /\ pending' = [pending EXCEPT ![w] = [x \in {i} |-> Updated(req[w], users[i])]]
          /\ GoTo(w, "enter")
  /\ UNCHANGED <<users, unused, req, entered, reply>>

(* The key of column c of w's row is in the index for another transaction, *)
(* which has entered it or is giving it up.                                *)
WaitsForKey(w, v, c) ==
  /\ w # v /\ pc[w] = "enter" /\ c \notin entered[w]
  /\ \E i \in DOMAIN pending[w], j \in DOMAIN pending[v] :
       \/ c \in entered[v] /\ pending[v][j][c] = pending[w][i][c]
       \/ users[j] # NoRow /\ users[j][c] = pending[w][i][c]

(* The key belongs to an account that no transaction is changing.          *)
IsTaken(w, c) ==
  \E i \in DOMAIN pending[w] : \E j \in Ids \ {i} :
    users[j] # NoRow /\ users[j][c] = pending[w][i][c]

EnterKey(w, c) ==
  /\ pc[w] = "enter" /\ c \notin entered[w]
  /\ ~\E v \in Workers : WaitsForKey(w, v, c)
  /\ ~IsTaken(w, c)
  /\ entered' = [entered EXCEPT ![w] = @ \cup {c}]
  /\ GoTo(w, IF entered[w] \cup {c} = Keys THEN "commit" ELSE "enter")
  /\ UNCHANGED <<users, unused, req, pending, reply>>

(* unique_violation.                                                       *)
IsRefused(w, c) ==
  /\ pc[w] = "enter" /\ c \notin entered[w]
  /\ ~\E v \in Workers : WaitsForKey(w, v, c)
  /\ IsTaken(w, c)
  /\ Answer(w, 409, NoRow, NoRow)
  /\ UNCHANGED <<users, unused>>

Install(w) ==
  /\ users' = [i \in Ids |-> IF i \in DOMAIN pending[w] THEN pending[w][i] ELSE users[i]]
  /\ UNCHANGED unused

(* Both operations answer from a Guest made of the returned row; a form    *)
(* that does not look whether there is one.                                *)
SuccessUnchecked(w) ==
  IF req[w].op = "register" THEN Answer(w, 201, CHOOSE i \in DOMAIN pending[w] : TRUE, "guest")
  ELSE Answer(w, 200, req[w].user_id, "guest")

Success(w) ==
  IF req[w].op = "update" /\ DOMAIN pending[w] = {} THEN Answer(w, 404, NoRow, NoRow)
  ELSE \E i \in DOMAIN pending[w] :
         Answer(w, IF req[w].op = "register" THEN 201 ELSE 200, i, "guest")

Commit(w) == pc[w] = "commit" /\ Install(w) /\ Success(w)

(* createUser returns null and updateUser throws; a form in which          *)
(* updateUser returns null as well and is answered alike.                  *)
FailureOfNull(op) ==
  CASE op \in {"register", "update"} -> 409 [] OTHER -> NotSelected(op)

Failure(op) ==
  CASE op = "register" -> 409 [] op = "update" -> 500 [] OTHER -> NotSelected(op)

(* A statement or a connection fails, or the database ends the transaction *)
(* to break a deadlock.                                                    *)
Fail(w) ==
  /\ pc[w] # "idle"
  /\ Answer(w, Failure(req[w].op), NoRow, NoRow)
  /\ UNCHANGED <<users, unused>>

(* COMMIT is executed, its confirmation lost.                              *)
CommitInDoubt(w) ==
  /\ pc[w] = "commit"
  /\ Install(w)
  /\ Answer(w, Failure(req[w].op), NoRow, NoRow)

(* The server process dies.                                                *)
Crash ==
  /\ \E w \in Workers : pc[w] # "idle"
  /\ pc' = [w \in Workers |-> "idle"]
  /\ req' = [w \in Workers |-> NoRequest]
  /\ pending' = [w \in Workers |-> Nothing]
  /\ entered' = [w \in Workers |-> {}]
  /\ reply' = [w \in Workers |-> Silence]
  /\ UNCHANGED <<users, unused>>

Write(w) == Update(w) \/ \E c \in Keys : EnterKey(w, c) \/ IsRefused(w, c)

Advance(w) == Select(w) \/ Insert(w) \/ Write(w) \/ Commit(w)

Serve(w) == Receive(w) \/ Advance(w) \/ CommitInDoubt(w) \/ Fail(w)

Next == (\E w \in Workers : Serve(w)) \/ Crash

Spec == Init /\ [][Next]_vars

-----------------------------------------------------------------------------
(* Properties.                                                             *)

WaitsFor(w, v) == WaitsForRow(w, v) \/ \E c \in Keys : WaitsForKey(w, v, c)

(* Worker w is one of several that all wait for one another.               *)
IsDeadlocked(w) ==
  \E S \in SUBSET Workers : w \in S /\ \A v \in S : \E x \in S : WaitsFor(v, x)

(* A row that worker w writes, its own until the commit, and the keys it   *)
(* has entered, which no other row and no other transaction has.           *)
HeldAccount(w, i) ==
  /\ pc[w] \in {"enter", "commit"}
  /\ pc[w] = "commit" => entered[w] = Keys
  /\ IF req[w].op = "register"
     THEN users[i] = NoRow /\ pending[w][i] = Asked(req[w])
     ELSE /\ req[w].op = "update" /\ i = req[w].user_id
          /\ users[i] # NoRow /\ pending[w][i] = Updated(req[w], users[i])
  /\ \A c \in entered[w] :
       /\ \A j \in Ids \ {i} : users[j] # NoRow => users[j][c] # pending[w][i][c]
       /\ \A v \in Workers \ {w} : c \in entered[v] =>
            \A j \in DOMAIN pending[v] : pending[v][j][c] # pending[w][i][c]

(* What worker w is at fits its request, and its row is its own.           *)
Session(w) ==
  /\ pc[w] \in {"insert", "enter", "commit"} => req[w].op \in {"register", "update"}
  /\ pc[w] = "select" => req[w].op \notin {"register", "update"}
  /\ pc[w] = "insert" => req[w].op = "register"
  /\ pc[w] = "update" => req[w].op = "update"
  /\ pc[w] = "enter" => DOMAIN pending[w] # {}
  /\ req[w].op = "register" /\ pc[w] = "commit" => DOMAIN pending[w] # {}
  /\ \A i, j \in DOMAIN pending[w] : i = j
  /\ DOMAIN pending[w] = {} => entered[w] = {}
  /\ \A i \in DOMAIN pending[w] : HeldAccount(w, i)
  /\ \A v \in Workers \ {w} : DOMAIN pending[w] \cap DOMAIN pending[v] = {}

(* The inductive invariant: rows and keys in the making have one owner.    *)
Inv == TypeOK /\ Unique /\ \A w \in Workers : Session(w)

(* A worker ends its request in this step.                                 *)
Answers(w, op, code) ==
  pc[w] # "idle" /\ pc'[w] = "idle" /\ req[w].op = op /\ reply'[w].code = code

HasNamesake(w) ==
  \E i \in Ids : /\ users[i] # NoRow
                 /\ req[w].op = "update" => i # req[w].user_id
                 /\ \E c \in Keys : users[i][c] = req[w][c]

(* "Username or email already exists" (UserController.cpp:159) is said of  *)
(* an update only if another account has the name or the address when it   *)
(* is said, whatever was waited for and however the wait ended.            *)
ConflictIsReal ==
  [][\A w \in Workers : Answers(w, "update", 409) => HasNamesake(w)]_vars

(* What is answered was done, by the step that answers and with others at  *)
(* work on the same names: 201 made the account of the answer, as it was   *)
(* asked for; 200 gave the account what was sent and left everything else; *)
(* 404 and a refused update changed nothing.  A failure, which may be a    *)
(* commit in doubt and which createUser does not tell from a conflict of   *)
(* names (UserRepository.cpp:51), did all that was asked or nothing        *)
(* (UserController.cpp:67, 138, 141, 159).                                 *)
AnswersTrue ==
  [][ \A w \in Workers :
        LET r == req[w] i == reply'[w].user_id
            registered(j) == users[j] = NoRow /\ users' = [users EXCEPT ![j] = Asked(r)]
            updated(j) == users[j] # NoRow /\ users' = [users EXCEPT ![j] = Updated(r, users[j])]
        IN
        /\ Answers(w, "register", 201) => registered(i)
        /\ Answers(w, "update", 200) => i = r.user_id /\ updated(i)
        /\ Answers(w, "update", 404) \/ Answers(w, "update", 409) => UNCHANGED users
        /\ Answers(w, "register", 409) => UNCHANGED users \/ \E j \in Ids : registered(j)
        /\ Answers(w, "update", 500) => UNCHANGED users \/ updated(r.user_id) ]_vars

(* A login is answered with the only account that has the address, and its *)
(* password was given (UserRepository.cpp:61).                             *)
LoginIsOwn ==
  [][ \A w \in Workers, i \in Ids :
        Answers(w, "login", 200) /\ users[i] # NoRow /\ users[i].email = req[w].email
        => reply'[w].user_id = i /\ users[i].password_hash = req[w].password_hash ]_vars

(* Whatever the threads do, the accounts go through the steps of the       *)
(* directory: nobody's role or password changes with the profile, and no   *)
(* name is ever shared (UserRepository.cpp:36, 80).                        *)
ImplementsDirectory == DirectorySpec

-----------------------------------------------------------------------------
(* The database refuses an INSERT when the sequence has run out, and ends  *)
(* a deadlock.                                                             *)
MustFail(w) == IsDeadlocked(w) \/ (pc[w] = "insert" /\ unused = {})

(* Fairness: the threads run, and a wait for a row or a key is served      *)
(* again when what was waited for is gone.                                 *)
FairSpec ==
  /\ Spec
  /\ \A w \in Workers : /\ WF_vars(Advance(w))
                        /\ SF_vars(Write(w))
                        /\ WF_vars(MustFail(w) /\ Fail(w))

(* Every request is answered, those included that wait for each other's    *)
(* names (UserRepository.cpp:36, 80).                                      *)
EveryRequestIsAnswered == \A w \in Workers : (pc[w] # "idle") ~> (pc[w] = "idle")
=============================================================================
