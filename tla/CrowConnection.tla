--------------------------- MODULE CrowConnection ---------------------------
(***************************************************************************)
(* The connections of one worker thread of Crow: its io_context, a queue   *)
(* of ready handlers run one at a time, and its task_timer, which closes   *)
(* the connections that stay silent.  A client is accepted by another      *)
(* thread, sends what it likes, or nothing at all.  Requests are served by *)
(* the handlers of the application inside the handler of a read.           *)
(***************************************************************************)
EXTENDS Naturals, Sequences, FiniteSets

CONSTANTS
  Connections,
  Timeout,         \* default_timeout_, in ticks
  MaxPieces        \* bound: how often a client sends something

ASSUME TimeoutAssumption == Timeout \in Nat \ {0} /\ MaxPieces \in Nat
ASSUME ConnectionsAssumption == IsFiniteSet(Connections)

VARIABLES
  socket,     \* [Connections -> "none", "open", "closed"]
  reading,    \* connections with an async_read_some under way
  inbox,      \* what has arrived at the socket and is not read
  sent,       \* number of pieces sent
  queue,      \* handlers the thread will run, in this order
  taskId,     \* task_id_
  tasks,      \* tasks_: identifier |-> whose deadline it is, ticks left
  highest,    \* highest_id_
  quiet       \* ticks since the connection was last heard

vars == <<socket, reading, inbox, sent, queue, taskId, tasks, highest, quiet>>

(* What one read can find: a part of a request, a complete one, one that   *)
(* asks to close, one whose route is not known (answered from the URL on), *)
(* one that cannot be parsed, the end of the stream, and a request of a    *)
(* client that has reset the connection when its address is asked for.     *)
Pieces == {"part", "request", "last", "unrouted", "bad", "end", "reset"}

Handler == [kind : {"start"}, conn : Connections]
             \cup [kind : {"read"}, conn : Connections, result : Pieces \cup {"aborted"}]
             \cup [kind : {"tick"}]

Task == [conn : Connections, left : 0..Timeout]

TypeOK ==
  /\ socket \in [Connections -> {"none", "open", "closed"}]
  /\ reading \subseteq Connections
  /\ inbox \in [Connections -> Pieces \cup {"nothing"}]
  /\ sent \in [Connections -> 0..MaxPieces]
  /\ queue \in Seq(Handler)
  /\ taskId \in [Connections -> Nat] /\ highest \in Nat
  /\ DOMAIN tasks \subseteq Nat /\ \A id \in DOMAIN tasks : tasks[id] \in Task
  /\ quiet \in [Connections -> 0..Timeout]

Init ==
  /\ socket = [c \in Connections |-> "none"]
  /\ reading = {}
  /\ inbox = [c \in Connections |-> "nothing"]
  /\ sent = [c \in Connections |-> 0]
  /\ queue = <<>>
  /\ taskId = [c \in Connections |-> 0]
  /\ tasks = <<>>
  /\ highest = 0
  /\ quiet = [c \in Connections |-> 0]

-----------------------------------------------------------------------------
(* task_timer.                                                             *)

(* cancel(id): whatever task has that identifier now.  A form that cancels *)
(* the task scheduled last.                                                *)
Without(ids) == [id \in DOMAIN tasks \ ids |-> tasks[id]]

CancelLatest(c) == tasks' = Without({highest}) /\ UNCHANGED <<taskId, highest>>

CancelDeadline(c) == tasks' = Without({taskId[c]}) /\ UNCHANGED <<taskId, highest>>

(* start_deadline(): cancel, then schedule().  Forms that only schedule,   *)
(* and that schedule once.                                                 *)
Schedule(c, left) ==
  /\ highest' = highest + 1
  /\ taskId' = [taskId EXCEPT ![c] = highest + 1]
  /\ tasks' = [id \in DOMAIN left \cup {highest + 1} |->
                 IF id \in DOMAIN left THEN left[id]
                 ELSE [conn |-> c, left |-> Timeout]]

ScheduleOnly(c) == Schedule(c, tasks)

StartOnce(c) == IF taskId[c] = 0 THEN Schedule(c, tasks) ELSE CancelDeadline(c)

StartDeadline(c) == Schedule(c, Without({taskId[c]}))

(* process_tasks(): the identifiers are issued anew when none is in use.   *)
Due == {id \in DOMAIN tasks : tasks[id].left = 0}

HighestAfter == IF DOMAIN tasks = Due THEN 0 ELSE highest

-----------------------------------------------------------------------------
(* The acceptor, in another thread, and the clients.                       *)

(* do_accept(): the socket is connected, start() is posted.                *)
Accept(c) ==
  /\ socket[c] = "none"
  /\ socket' = [socket EXCEPT ![c] = "open"]
  /\ queue' = Append(queue, [kind |-> "start", conn |-> c])
  /\ UNCHANGED <<reading, inbox, sent, taskId, tasks, highest, quiet>>

Send(c) ==
  /\ socket[c] = "open" /\ inbox[c] = "nothing" /\ sent[c] < MaxPieces
  /\ \E piece \in Pieces : inbox' = [inbox EXCEPT ![c] = piece]
  /\ sent' = [sent EXCEPT ![c] = @ + 1]
  /\ UNCHANGED <<socket, reading, queue, taskId, tasks, highest, quiet>>

(* The reactor completes the read; from then on the data is on its way to  *)
(* the handler, whatever happens to the socket.                            *)
Deliver(c) ==
  /\ c \in reading /\ inbox[c] # "nothing"
  /\ queue' = Append(queue, [kind |-> "read", conn |-> c, result |-> inbox[c]])
  /\ reading' = reading \ {c}
  /\ inbox' = [inbox EXCEPT ![c] = "nothing"]
  /\ UNCHANGED <<socket, sent, taskId, tasks, highest, quiet>>

(* A tick passes; the handler of the tick becomes ready, unless the thread *)
(* has not yet run the one before.                                         *)
TickPasses ==
  /\ tasks' = [id \in DOMAIN tasks |->
                 [tasks[id] EXCEPT !.left = IF @ > 0 THEN @ - 1 ELSE 0]]
  /\ quiet' = [c \in Connections |-> IF quiet[c] < Timeout THEN quiet[c] + 1 ELSE Timeout]
  /\ queue' = IF \E i \in DOMAIN queue : queue[i].kind = "tick" THEN queue
              ELSE Append(queue, [kind |-> "tick"])
  /\ UNCHANGED <<socket, reading, inbox, sent, taskId, highest>>

-----------------------------------------------------------------------------
(* The thread.                                                             *)

(* start(): the deadline, then the first read.                             *)
RunStart ==
  /\ queue # <<>> /\ Head(queue).kind = "start"
  /\ LET c == Head(queue).conn IN
       /\ StartDeadline(c)
       /\ reading' = reading \cup {c}
       /\ quiet' = [quiet EXCEPT ![c] = 0]
  /\ queue' = Tail(queue)
  /\ UNCHANGED <<socket, inbox, sent>>

(* The connection goes on after a part of a request, and after a request   *)
(* it has answered; handle() has cancelled the deadline before.            *)
GoesOn(c, result) == socket[c] = "open" /\ result \in {"part", "request"}

(* Everything else ends it, with an answer or without: the handler's error *)
(* path, the "close" asked for, or, when the socket is closed or reset, an *)
(* exception out of handle(), after its cancel_deadline_timer(), up to the *)
(* loop of the thread.                                                     *)
RunRead ==
  /\ queue # <<>> /\ Head(queue).kind = "read"
  /\ LET c == Head(queue).conn IN
       IF GoesOn(c, Head(queue).result)
       THEN /\ StartDeadline(c)
            /\ reading' = reading \cup {c}
            /\ quiet' = [quiet EXCEPT ![c] = 0]
            /\ UNCHANGED socket
       ELSE /\ CancelDeadline(c)
            /\ socket' = [socket EXCEPT ![c] = "closed"]
            /\ UNCHANGED <<reading, quiet>>
  /\ queue' = Tail(queue)
  /\ UNCHANGED <<inbox, sent>>

(* The reads that the closing of their sockets aborts, in the order of the *)
(* deadlines.                                                              *)
InOrder(closed) ==
  {s \in [1..Cardinality(closed) -> closed] :
     \A i, j \in DOMAIN s : i < j => taskId[s[i]] < taskId[s[j]]}

RunTick ==
  /\ queue # <<>> /\ Head(queue).kind = "tick"
  /\ LET late == {tasks[id].conn : id \in Due} IN
       /\ socket' = [c \in Connections |-> IF c \in late THEN "closed" ELSE socket[c]]
       /\ reading' = reading \ late
       /\ \E aborted \in InOrder(late \cap reading) :
            queue' = Tail(queue) \o
              [i \in DOMAIN aborted |->
                 [kind |-> "read", conn |-> aborted[i], result |-> "aborted"]]
  /\ tasks' = Without(Due)
  /\ highest' = HighestAfter
  /\ UNCHANGED <<inbox, sent, taskId, quiet>>

Thread == RunStart \/ RunRead \/ RunTick

Next ==
  \/ \E c \in Connections : Accept(c) \/ Send(c) \/ Deliver(c)
  \/ TickPasses
  \/ Thread

Spec == Init /\ [][Next]_vars

(* Time passes, the reactor reports what has arrived, the thread runs.     *)
FairSpec ==
  /\ Spec
  /\ WF_vars(TickPasses) /\ WF_vars(Thread)
  /\ \A c \in Connections : WF_vars(Deliver(c))

-----------------------------------------------------------------------------
(* Properties.                                                             *)

(* The identifiers: a deadline is found again by the connection it is of,  *)
(* and by none after it; it is no later than the connection's silence.     *)
IdentifiersFit ==
  \A id \in DOMAIN tasks :
    /\ id \in 1..highest
    /\ taskId[tasks[id].conn] = id
    /\ tasks[id].left + quiet[tasks[id].conn] >= Timeout

(* A connection has one deadline at most, so that what task_timer keeps is *)
(* bounded by the connections (http_connection.h:471, task_timer.h:92).    *)
OneDeadline ==
  \A i, j \in DOMAIN tasks : tasks[i].conn = tasks[j].conn => i = j

Inv == TypeOK /\ IdentifiersFit /\ OneDeadline

(* No connection is closed before it has been silent for the whole timeout,*)
(* however its deadlines were started, cancelled and numbered              *)
(* (task_timer.h:122).                                                     *)
ClosedForSilence ==
  [][\A c \in Connections :
       RunTick /\ socket[c] = "open" /\ socket'[c] = "closed" => quiet[c] >= Timeout]_vars

(* A deadline that has not passed is given up by the connection it is of,  *)
(* or taken away by one that has none of its own: its identifier is from   *)
(* before the numbers were issued anew (task_timer.h:143).                 *)
LostToStaleIdentifier ==
  [][\A id \in DOMAIN tasks \ Due :
       id \notin DOMAIN tasks' =>
         \/ Head(queue).kind # "tick" /\ Head(queue).conn = tasks[id].conn
         \/ /\ Head(queue).kind # "tick" /\ taskId[Head(queue).conn] = id
            /\ \A i \in DOMAIN tasks : tasks[i].conn # Head(queue).conn]_vars

(* A connection that waits for its client without a deadline, because a    *)
(* closed connection had the identifier of its last one.                   *)
Forgotten(c) ==
  /\ c \in reading
  /\ \A id \in DOMAIN tasks : tasks[id].conn # c
  /\ \E d \in Connections \ {c} : socket[d] = "closed" /\ taskId[d] = taskId[c]

(* However the client's pieces, the ticks and the deadlines interleave,    *)
(* every connection is closed in the end if its client falls silent, as it *)
(* does after MaxPieces, unless its deadline was lost to another's stale   *)
(* identifier (http_connection.h:471, task_timer.h:143).                   *)
ClosedUnlessForgotten ==
  \A c \in Connections :
    socket[c] = "open" ~> (socket[c] = "closed" \/ Forgotten(c))

(* app.h:336 "Set the connection timeout in seconds (default is 5)": every *)
(* connection is closed in the end if its client falls silent.             *)
SilentIsClosed == \A c \in Connections : socket[c] = "open" ~> socket[c] = "closed"
=============================================================================
