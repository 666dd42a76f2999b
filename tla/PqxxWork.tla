------------------------------ MODULE PqxxWork ------------------------------
(***************************************************************************)
(* One pqxx::work on one connection, as the services and repositories use  *)
(* it: the object of libpqxx on the client's side, the session of the      *)
(* server on the other, and a link between them that may break around any  *)
(* command, before or after the server has got it.                         *)
(***************************************************************************)
EXTENDS Naturals

CONSTANT Statements       \* number of statements of the operation

ASSUME StatementsAssumption == Statements \in Nat \ {0}

VARIABLES
  at,           \* where the owner of the transaction is
  handles,      \* the owner has a handler that calls abort(), as the services
  thrown,       \* the exception on its way up
  status,       \* m_status
  registered,   \* m_registered, and m_trans of the connection
  isOpen,       \* what the client knows of the link
  executed,     \* statements the server has executed in the block
  block,        \* state of the session: "none", "open", "failed"
  inFlight,     \* a command the server gets although the link is broken
  durable,      \* number of statements stored
  answer        \* what the caller of the operation learns

client == <<at, handles, thrown, status, registered, isOpen, answer>>
server == <<executed, block, durable>>
vars == <<client, server, inFlight>>

TypeOK ==
  /\ at \in {"begin", "exec", "commit", "raise", "abort", "close", "end"}
  /\ handles \in BOOLEAN
  /\ thrown \in {"none", "failed", "in_doubt"}
  /\ status \in {"active", "aborted", "committed", "in_doubt"}
  /\ registered \in BOOLEAN /\ isOpen \in BOOLEAN
  /\ executed \in 0..Statements
  /\ block \in {"none", "open", "failed"}
  /\ inFlight \in {"none", "BEGIN", "statement", "COMMIT", "ROLLBACK"}
  /\ durable \in 0..Statements
  /\ answer \in {"none", "committed", "failed", "in_doubt"}

(* The connection is there, the object registers itself.                   *)
Init ==
  /\ at = "begin" /\ handles \in BOOLEAN
  /\ thrown = "none" /\ status = "active" /\ registered = TRUE /\ isOpen = TRUE
  /\ executed = 0 /\ block = "none" /\ inFlight = "none" /\ durable = 0
  /\ answer = "none"

-----------------------------------------------------------------------------
(* The server.                                                             *)

(* A COMMIT of a failed block answers ROLLBACK, which is no error.         *)
Execute(command) ==
  /\ block' = IF command = "BEGIN" THEN "open"
              ELSE IF command = "statement" THEN block ELSE "none"
  /\ executed' = IF command # "statement" THEN 0
                 ELSE IF block = "open" THEN executed + 1 ELSE executed
  /\ durable' = IF command = "COMMIT" /\ block = "open" THEN executed ELSE durable

(* A statement is refused, or a COMMIT that finds a constraint violated.   *)
Refuse(command) ==
  /\ block' = IF command = "statement" THEN "failed" ELSE "none"
  /\ executed' = IF command = "statement" THEN executed ELSE 0
  /\ UNCHANGED durable

(* The server gets to the command that was under way.                      *)
ServerReceives ==
  /\ inFlight # "none"
  /\ inFlight' = "none"
  /\ Execute(inFlight)
  /\ UNCHANGED client

(* The server finds the link broken, or closed by the owner, and ends the  *)
(* session: what is not committed is rolled back.                          *)
SessionEnds ==
  /\ ~isOpen \/ at = "end"
  /\ block # "none" \/ inFlight # "none"
  /\ block' = "none" /\ executed' = 0 /\ inFlight' = "none"
  /\ UNCHANGED <<client, durable>>

-----------------------------------------------------------------------------
(* connection::exec: the command is executed, refused, or the link breaks. *)

Completes(command) == isOpen /\ Execute(command) /\ UNCHANGED <<isOpen, inFlight>>

Fails(command) ==
  \/ /\ isOpen
     /\ isOpen' = FALSE
     /\ inFlight' \in {"none", command}
     /\ UNCHANGED server
  \/ ~isOpen /\ UNCHANGED <<isOpen, inFlight, server>>

IsRefused(command) == isOpen /\ Refuse(command) /\ UNCHANGED <<isOpen, inFlight>>

(* An exception leaves the code of libpqxx; a form in which the repository *)
(* catches it and goes on.                                                 *)
Swallowed(what) == at' = "commit" /\ UNCHANGED thrown

Throws(what) == at' = "raise" /\ thrown' = what

(* basic_transaction's constructor: without BEGIN there is no object, its  *)
(* base goes out of scope.                                                 *)
Begin ==
  /\ at = "begin"
  /\ \/ Completes("BEGIN") /\ at' = "exec" /\ UNCHANGED <<thrown, registered>>
     \/ Fails("BEGIN") /\ at' = "end" /\ thrown' = "failed" /\ registered' = FALSE
  /\ answer' = IF at' = "end" THEN "failed" ELSE answer
  /\ UNCHANGED <<handles, status>>

(* transaction_base::exec on an active transaction.                        *)
Exec ==
  /\ at = "exec" /\ status = "active"
  /\ \/ /\ Completes("statement")
        /\ at' \in {"exec", "commit"}
        /\ executed' < Statements <=> at' = "exec"
        /\ UNCHANGED thrown
     \/ (Fails("statement") \/ IsRefused("statement")) /\ Throws("failed")
  /\ UNCHANGED <<handles, status, registered, answer>>

(* The operation itself throws: the room is taken, the owner is another.   *)
Decline ==
  /\ at = "exec"
  /\ Throws("failed")
  /\ UNCHANGED <<handles, status, registered, isOpen, answer, server, inFlight>>

(* commit() and do_commit.  The owner comes here only when exec has just   *)
(* returned, on an active transaction and a link not known to be broken.   *)
Commit ==
  /\ at = "commit" /\ status = "active" /\ isOpen
  /\ \/ /\ Completes("COMMIT")
        /\ status' = "committed" /\ registered' = FALSE /\ at' = "close"
        /\ UNCHANGED thrown
     \/ /\ IsRefused("COMMIT")
        /\ status' = "aborted" /\ Throws("failed") /\ UNCHANGED registered
     \/ /\ Fails("COMMIT")
        /\ status' = "in_doubt" /\ Throws("in_doubt") /\ UNCHANGED registered
  /\ UNCHANGED <<handles, answer>>

(* The exception reaches the owner's handler, or leaves the scope.         *)
Raise ==
  /\ at = "raise"
  /\ at' = IF handles THEN "abort" ELSE "close"
  /\ UNCHANGED <<handles, thrown, status, registered, isOpen, answer, server, inFlight>>

(* abort() of an active transaction: an error of ROLLBACK is swallowed.    *)
RollBack ==
  /\ Completes("ROLLBACK") \/ Fails("ROLLBACK")
  /\ status' = "aborted" /\ registered' = FALSE

Abort ==
  /\ at = "abort"
  /\ IF status = "active" THEN RollBack
     ELSE UNCHANGED <<status, registered, isOpen, server, inFlight>>
  /\ at' = "close"
  /\ UNCHANGED <<handles, thrown, answer>>

(* The destructor calls close(), which aborts an active transaction; a     *)
(* form that only unregisters.                                             *)
CloseOnly ==
  registered' = FALSE /\ UNCHANGED <<status, isOpen, server, inFlight>>

CloseAndAbort ==
  IF status = "active" THEN RollBack
  ELSE registered' = FALSE /\ UNCHANGED <<status, isOpen, server, inFlight>>

Close ==
  /\ at = "close"
  /\ CloseAndAbort
  /\ at' = "end"
  /\ answer' = IF thrown = "none" THEN "committed" ELSE thrown
  /\ UNCHANGED <<handles, thrown>>

Owner ==
  Begin \/ Exec \/ Decline \/ Commit \/ Raise \/ Abort \/ Close

Next == Owner \/ ServerReceives \/ SessionEnds

Spec == Init /\ [][Next]_vars

-----------------------------------------------------------------------------
(* Properties.                                                             *)

(* The refinement mapping: all the statements are stored.                  *)
Outcomes == INSTANCE Outcome WITH stored <- durable = Statements, answer <- answer

(* Where the transaction is, the session follows as far as the link holds. *)
SessionFits ==
  /\ at \in {"begin", "exec", "commit"} => isOpen /\ status = "active"
  /\ at = "begin" => block = "none"
  /\ at \in {"exec", "commit"} => block = "open"
  /\ at = "exec" \/ inFlight = "statement" => executed < Statements
  /\ at = "commit" => executed = Statements
  /\ at = "begin" => executed = 0
  /\ inFlight # "none" => ~isOpen
  /\ inFlight = "COMMIT" => executed = Statements /\ block = "open" /\ durable = 0

(* The status of the object agrees with the exception on its way up.       *)
StatusFits ==
  /\ status = "committed" <=> thrown = "none" /\ (at = "close" \/ answer = "committed")
  /\ status = "in_doubt" <=> thrown = "in_doubt"
  /\ thrown = "none" <=> at \in {"begin", "exec", "commit"} \/ status = "committed"
  /\ answer # "none" <=> at = "end"
  /\ answer # "none" => answer = IF thrown = "none" THEN "committed" ELSE thrown

(* All or nothing, and only for an owner who is told so or is in doubt.    *)
DurableFits ==
  /\ durable \in {0, Statements}
  /\ status = "committed" => durable = Statements
  /\ durable > 0 \/ inFlight = "COMMIT" => status \in {"committed", "in_doubt"}

(* The inductive invariant.                                                *)
Inv == TypeOK /\ SessionFits /\ StatusFits /\ DurableFits

(* commit() returned (BookingService.cpp:46) only if every statement is    *)
(* stored; an exception means that nothing is, nor will be, except the one *)
(* that calls the outcome unknown, after which the server may still store  *)
(* it (transaction_base.cxx:99, transaction.cxx:60).                       *)
ImplementsOutcome == Outcomes!OutcomeSpec

(* When the operation has ended, with a handler or without one, no block   *)
(* is left open on a link that holds, so that its locks are free before    *)
(* the client is answered (transaction_base.cxx:177, 332), and the         *)
(* connection is free for another transaction.                             *)
NothingLeftOpen == at = "end" => ~registered /\ (isOpen => block = "none")
=============================================================================
