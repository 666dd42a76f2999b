------------------------ MODULE CrowConnectionProofs ------------------------
(***************************************************************************)
(* What the deadlines of CrowConnection keep to for any number of          *)
(* connections and any timeout, although their identifiers are issued      *)
(* anew.                                                                   *)
(***************************************************************************)
EXTENDS CrowConnection, FiniteSetTheorems, SequenceTheorems, TLAPS

(* The state of the timer, and the places where a step can change it.      *)
TimerOK ==
  /\ taskId \in [Connections -> Nat] /\ highest \in Nat
  /\ DOMAIN tasks \subseteq Nat /\ \A id \in DOMAIN tasks : tasks[id] \in Task
  /\ quiet \in [Connections -> 0..Timeout]

timer == <<taskId, tasks, highest, quiet>>

(* One deadline each is what the identifiers amount to.                    *)
LEMMA IdentifiersSuffice == IdentifiersFit => OneDeadline
BY DEF IdentifiersFit, OneDeadline

LEMMA WithoutKeeps ==
  ASSUME TimerOK, IdentifiersFit, NEW ids, tasks' = Without(ids),
         UNCHANGED <<taskId, quiet>>, highest' \in Nat,
         \A id \in DOMAIN tasks \ ids : id <= highest'
  PROVE  TimerOK' /\ IdentifiersFit'
<1>1. DOMAIN tasks' = DOMAIN tasks \ ids /\ \A id \in DOMAIN tasks' : tasks'[id] = tasks[id]
  BY DEF Without
<1> QED BY <1>1 DEF TimerOK, IdentifiersFit

LEMMA StartKeeps ==
  ASSUME TimerOK, IdentifiersFit, NEW c \in Connections, StartDeadline(c),
         quiet' = [quiet EXCEPT ![c] = 0]
  PROVE  TimerOK' /\ IdentifiersFit'
<1> DEFINE kept == DOMAIN tasks \ {taskId[c]}
<1>1. /\ DOMAIN tasks' = kept \cup {highest + 1}
      /\ \A id \in kept : tasks'[id] = tasks[id]
      /\ highest + 1 \notin kept => tasks'[highest + 1] = [conn |-> c, left |-> Timeout]
      /\ taskId' = [taskId EXCEPT ![c] = highest + 1] /\ highest' = highest + 1
  BY DEF StartDeadline, Schedule, Without
<1>2. highest + 1 \notin kept
  BY DEF TimerOK, IdentifiersFit
<1>3. TimerOK'
  BY <1>1, <1>2, TimeoutAssumption DEF TimerOK, Task
<1>4. ASSUME NEW id \in DOMAIN tasks'
      PROVE  /\ id \in 1..highest'
             /\ taskId'[tasks'[id].conn] = id
             /\ tasks'[id].left + quiet'[tasks'[id].conn] >= Timeout
  <2>1. CASE id = highest + 1
    BY <1>1, <1>2, <2>1, TimeoutAssumption DEF TimerOK
  <2>2. CASE id \in kept
    <3>1. tasks'[id] = tasks[id] /\ tasks[id].conn \in Connections /\ tasks[id].conn # c
      BY <1>1, <2>2 DEF TimerOK, IdentifiersFit, Task
    <3>2. quiet'[tasks[id].conn] = quiet[tasks[id].conn]
      BY <3>1 DEF TimerOK
    <3>3. taskId'[tasks[id].conn] = taskId[tasks[id].conn]
      BY <1>1, <3>1 DEF TimerOK
    <3>4. id \in 1..highest'
      BY <1>1, <2>2 DEF TimerOK, IdentifiersFit
    <3> QED BY <2>2, <3>1, <3>2, <3>3, <3>4 DEF IdentifiersFit
  <2> QED BY <1>1, <1>4, <2>1, <2>2
<1> QED BY <1>3, <1>4 DEF IdentifiersFit

LEMMA TickKeeps ==
  ASSUME TimerOK, IdentifiersFit, TickPasses
  PROVE  TimerOK' /\ IdentifiersFit'
<1> USE TimeoutAssumption
<1>1. /\ DOMAIN tasks' = DOMAIN tasks /\ UNCHANGED <<taskId, highest>>
      /\ quiet' = [c \in Connections |-> IF quiet[c] < Timeout THEN quiet[c] + 1 ELSE Timeout]
  BY DEF TickPasses
<1>2. ASSUME NEW id \in DOMAIN tasks
      PROVE  /\ tasks'[id] \in Task /\ tasks'[id].conn = tasks[id].conn
             /\ tasks'[id].left = IF tasks[id].left > 0 THEN tasks[id].left - 1 ELSE 0
             /\ tasks[id].left \in 0..Timeout /\ tasks[id].conn \in Connections
  <2>1. tasks[id] \in Task
    BY DEF TimerOK
  <2>2. tasks'[id] = [tasks[id] EXCEPT !.left = IF @ > 0 THEN @ - 1 ELSE 0]
    BY DEF TickPasses
  <2> QED BY <2>1, <2>2 DEF Task
<1>3. TimerOK'
  BY <1>1, <1>2 DEF TimerOK
<1>4. ASSUME NEW id \in DOMAIN tasks
      PROVE  tasks'[id].left + quiet'[tasks'[id].conn] >= Timeout
  <2> DEFINE c == tasks[id].conn
  <2>1. tasks[id].left + quiet[c] >= Timeout /\ c \in Connections /\ quiet[c] \in 0..Timeout
    BY <1>2 DEF IdentifiersFit, TimerOK
  <2>2. quiet'[c] = IF quiet[c] < Timeout THEN quiet[c] + 1 ELSE Timeout
    BY <1>1, <2>1
  <2> QED BY <1>2, <2>1, <2>2
<1>5. IdentifiersFit'
  BY <1>1, <1>2, <1>4 DEF IdentifiersFit
<1> QED BY <1>3, <1>5

-----------------------------------------------------------------------------
(* The types of what is not the timer's.                                   *)

RestOK ==
  /\ socket \in [Connections -> {"none", "open", "closed"}]
  /\ reading \subseteq Connections
  /\ inbox \in [Connections -> Pieces \cup {"nothing"}]
  /\ sent \in [Connections -> 0..MaxPieces]
  /\ queue \in Seq(Handler)

LEMMA TypesTogether == TypeOK <=> TimerOK /\ RestOK
BY DEF TypeOK, TimerOK, RestOK

LEMMA HeadIsHandler ==
  ASSUME RestOK, queue # <<>>
  PROVE  /\ Head(queue) \in Handler /\ Tail(queue) \in Seq(Handler)
         /\ Head(queue).kind # "tick" => Head(queue).conn \in Connections
<1>1. Head(queue) \in Handler /\ Tail(queue) \in Seq(Handler)
  BY DEF RestOK
<1>2. Head(queue).kind # "tick" => Head(queue).conn \in Connections
  BY <1>1 DEF Handler
<1> QED BY <1>1, <1>2

LEMMA RunTickKeepsRest ==
  ASSUME TypeOK, RunTick
  PROVE  RestOK'
<1>0. RestOK /\ TimerOK
  BY TypesTogether
<1> DEFINE late == {tasks[id].conn : id \in Due}
<1>1. PICK aborted \in InOrder(late \cap reading) :
        queue' = Tail(queue) \o
          [i \in DOMAIN aborted |->
             [kind |-> "read", conn |-> aborted[i], result |-> "aborted"]]
  BY DEF RunTick
<1>2. Cardinality(late \cap reading) \in Nat
  <2>1. late \cap reading \subseteq Connections
    BY <1>0 DEF RestOK
  <2> QED BY <2>1, ConnectionsAssumption, FS_Subset, FS_CardinalityType
<1>3. aborted \in [1..Cardinality(late \cap reading) -> Connections]
  BY <1>0 DEF InOrder, RestOK
<1>4. \A i \in DOMAIN aborted :
        [kind |-> "read", conn |-> aborted[i], result |-> "aborted"] \in Handler
  BY <1>3 DEF Handler
<1>5. [i \in DOMAIN aborted |->
         [kind |-> "read", conn |-> aborted[i], result |-> "aborted"]] \in Seq(Handler)
  <2> DEFINE n == Cardinality(late \cap reading)
             F(i) == [kind |-> "read", conn |-> aborted[i], result |-> "aborted"]
  <2>1. DOMAIN aborted = 1..n /\ \A i \in 1..n : F(i) \in Handler
    BY <1>3, <1>4
  <2>2. [i \in 1..n |-> F(i)] \in [1..n -> Handler]
    BY <2>1
  <2>3. n \in Nat => [1..n -> Handler] \subseteq Seq(Handler)
    BY SeqDef
  <2> QED BY <1>2, <2>1, <2>2, <2>3
<1>6. Tail(queue) \in Seq(Handler)
  BY <1>0, HeadIsHandler DEF RunTick
<1>7. queue' \in Seq(Handler)
  BY <1>1, <1>5, <1>6, ConcatProperties
<1> QED BY <1>0, <1>7 DEF RunTick, RestOK

LEMMA RestKept == TypeOK /\ Next => RestOK'
<1> SUFFICES ASSUME TypeOK, Next PROVE RestOK'
  OBVIOUS
<1>0. RestOK
  BY TypesTogether
<1>1. CASE \E c \in Connections : Accept(c)
  BY <1>0, <1>1 DEF Accept, RestOK, Handler
<1>2. CASE \E c \in Connections : Send(c)
  BY <1>0, <1>2, TimeoutAssumption DEF Send, RestOK
<1>3. CASE \E c \in Connections : Deliver(c)
  <2>1. PICK c \in Connections : Deliver(c)
    BY <1>3
  <2>2. inbox[c] \in Pieces
    BY <1>0, <2>1 DEF Deliver, RestOK
  <2>3. [kind |-> "read", conn |-> c, result |-> inbox[c]] \in Handler
    BY <2>2 DEF Handler
  <2> QED BY <1>0, <2>1, <2>3 DEF Deliver, RestOK
<1>4. CASE TickPasses
  <2>1. [kind |-> "tick"] \in Handler
    BY DEF Handler
  <2> QED BY <1>0, <1>4, <2>1 DEF TickPasses, RestOK
<1>5. CASE RunStart
  BY <1>0, <1>5, HeadIsHandler DEF RunStart, RestOK
<1>6. CASE RunRead
  BY <1>0, <1>6, HeadIsHandler DEF RunRead, RestOK
<1>7. CASE RunTick
  BY <1>7, RunTickKeepsRest
<1> QED BY <1>1, <1>2, <1>3, <1>4, <1>5, <1>6, <1>7 DEF Next, Thread

LEMMA TimerKept == Inv /\ Next => TimerOK' /\ IdentifiersFit'
<1> SUFFICES ASSUME Inv, Next PROVE TimerOK' /\ IdentifiersFit'
  OBVIOUS
<1>0. RestOK /\ TimerOK /\ IdentifiersFit
  BY TypesTogether DEF Inv
<1>1. CASE \E c \in Connections : Accept(c) \/ Send(c) \/ Deliver(c)
  <2>1. UNCHANGED <<taskId, tasks, highest, quiet>>
    BY <1>1 DEF Accept, Send, Deliver
  <2> QED BY <1>0, <2>1 DEF TimerOK, IdentifiersFit
<1>2. CASE TickPasses
  BY <1>0, <1>2, TickKeeps
<1>3. CASE RunStart
  BY <1>0, <1>3, HeadIsHandler, StartKeeps DEF RunStart
<1>4. CASE RunRead
  <2> DEFINE c == Head(queue).conn
  <2>1. c \in Connections
    BY <1>0, <1>4, HeadIsHandler DEF RunRead
  <2>2. CASE GoesOn(c, Head(queue).result)
    BY <1>0, <1>4, <2>1, <2>2, StartKeeps DEF RunRead
  <2>3. CASE ~GoesOn(c, Head(queue).result)
    <3>1. tasks' = Without({taskId[c]}) /\ UNCHANGED <<taskId, highest, quiet>>
      BY <1>4, <2>3 DEF RunRead, CancelDeadline
    <3>2. highest' \in Nat /\ \A id \in DOMAIN tasks \ {taskId[c]} : id <= highest'
      BY <1>0, <3>1 DEF TimerOK, IdentifiersFit
    <3> QED BY <1>0, <3>1, <3>2, WithoutKeeps
  <2> QED BY <2>2, <2>3
<1>5. CASE RunTick
  <2>1. tasks' = Without(Due) /\ UNCHANGED <<taskId, quiet>> /\ highest' = HighestAfter
    BY <1>5 DEF RunTick
  <2>2. highest' \in Nat /\ \A id \in DOMAIN tasks \ Due : id <= highest'
    BY <1>0, <2>1 DEF HighestAfter, TimerOK, IdentifiersFit, Due
  <2> QED BY <1>0, <2>1, <2>2, WithoutKeeps
<1> QED BY <1>1, <1>2, <1>3, <1>4, <1>5 DEF Next, Thread

(* However deadlines are started, cancelled and numbered anew, each is     *)
(* found by the connection it is of, each connection has one at most, and  *)
(* none is earlier than the connection's silence (http_connection.h:471,   *)
(* task_timer.h:122).                                                      *)
THEOREM Invariance == Spec => []Inv
<1>1. Init => Inv
  <2> SUFFICES ASSUME Init PROVE Inv
    OBVIOUS
  <2>1. DOMAIN tasks = {}
    BY DEF Init
  <2>2. TimerOK
    BY <2>1, TimeoutAssumption DEF Init, TimerOK
  <2>3. RestOK
    BY TimeoutAssumption DEF Init, RestOK
  <2> QED BY <2>1, <2>2, <2>3, TypesTogether DEF Inv, IdentifiersFit, OneDeadline
<1>2. Inv /\ [Next]_vars => Inv'
  <2> SUFFICES ASSUME Inv, [Next]_vars PROVE Inv'
    OBVIOUS
  <2>1. CASE Next
    <3>1. TimerOK' /\ IdentifiersFit' /\ RestOK'
      BY <2>1, TimerKept, RestKept DEF Inv
    <3>2. TypeOK'
      BY <3>1 DEF TypeOK, TimerOK, RestOK
    <3>3. OneDeadline'
      BY <3>1 DEF IdentifiersFit, OneDeadline
    <3> QED BY <3>1, <3>2, <3>3 DEF Inv
  <2>2. CASE UNCHANGED vars
    BY <2>2 DEF vars, Inv, TypeOK, IdentifiersFit, OneDeadline
  <2> QED BY <2>1, <2>2
<1> QED BY <1>1, <1>2, PTL DEF Spec

(* No connection is closed by its deadline before it has been silent for   *)
(* the whole timeout (task_timer.h:122).                                   *)
THEOREM Silence == Spec => ClosedForSilence
<1>1. Inv /\ [Next]_vars =>
        [\A c \in Connections :
           RunTick /\ socket[c] = "open" /\ socket'[c] = "closed" => quiet[c] >= Timeout]_vars
  <2> SUFFICES ASSUME Inv, NEW c \in Connections, RunTick,
                      socket[c] = "open", socket'[c] = "closed"
               PROVE  quiet[c] >= Timeout
    OBVIOUS
  <2>1. PICK id \in Due : tasks[id].conn = c
    BY DEF RunTick
  <2>2. id \in DOMAIN tasks /\ tasks[id].left = 0
    BY DEF Due
  <2>3. tasks[id].left + quiet[c] >= Timeout
    BY <2>1, <2>2 DEF Inv, IdentifiersFit
  <2> QED BY <2>2, <2>3, TimeoutAssumption DEF Inv, TypeOK
<1> QED BY <1>1, Invariance, PTL DEF Spec, ClosedForSilence

(* A deadline that has not passed is given up by its connection, or lost   *)
(* to one that has none of its own and an identifier from before the       *)
(* numbers were issued anew (task_timer.h:143).                            *)
THEOREM Lost == Spec => LostToStaleIdentifier
<1> DEFINE Loss ==
      \A id \in DOMAIN tasks \ Due :
        id \notin DOMAIN tasks' =>
          \/ Head(queue).kind # "tick" /\ Head(queue).conn = tasks[id].conn
          \/ /\ Head(queue).kind # "tick" /\ taskId[Head(queue).conn] = id
             /\ \A i \in DOMAIN tasks : tasks[i].conn # Head(queue).conn
<1>1. Inv /\ Next => Loss
  <2> SUFFICES ASSUME Inv, Next, NEW id \in DOMAIN tasks \ Due, id \notin DOMAIN tasks'
               PROVE  \/ /\ Head(queue).kind # "tick"
                         /\ Head(queue).conn = tasks[id].conn
                      \/ /\ Head(queue).kind # "tick" /\ taskId[Head(queue).conn] = id
                         /\ \A i \in DOMAIN tasks : tasks[i].conn # Head(queue).conn
    OBVIOUS
  <2> DEFINE c == Head(queue).conn
  <2>1. RunStart \/ RunRead
    <3>1. CASE \E d \in Connections : Accept(d) \/ Send(d) \/ Deliver(d)
      BY <3>1 DEF Accept, Send, Deliver
    <3>2. CASE TickPasses
      BY <3>2 DEF TickPasses
    <3>3. CASE RunTick
      BY <3>3 DEF RunTick, Without
    <3> QED BY <3>1, <3>2, <3>3 DEF Next, Thread
  <2>2. Head(queue).kind # "tick"
    BY <2>1 DEF RunStart, RunRead
  <2>3. StartDeadline(c) \/ CancelDeadline(c)
    BY <2>1 DEF RunStart, RunRead
  <2>4. taskId[c] = id
    BY <2>3 DEF StartDeadline, CancelDeadline, Schedule, Without
  <2>5. \A i \in DOMAIN tasks : tasks[i].conn = c => i = id
    BY <2>4 DEF Inv, IdentifiersFit
  <2> QED BY <2>2, <2>4, <2>5
<1>2. Inv /\ [Next]_vars => [Loss]_vars
  BY <1>1
<1> QED BY <1>2, Invariance, PTL DEF Spec, LostToStaleIdentifier
=============================================================================
