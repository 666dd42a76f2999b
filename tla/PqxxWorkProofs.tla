--------------------------- MODULE PqxxWorkProofs ---------------------------
(***************************************************************************)
(* What holds of a pqxx::work for every number of statements: its          *)
(* inductive invariant, that nothing is left open, and that it keeps the   *)
(* promise of Outcome.                                                     *)
(***************************************************************************)
EXTENDS PqxxWork, TLAPS

LEMMA Initially == Init => Inv
BY StatementsAssumption DEF Init, Inv, TypeOK, SessionFits, StatusFits, DurableFits

(* The server's own steps: a COMMIT under way is that of an owner in doubt. *)
LEMMA ServerKeepsInv ==
  ASSUME Inv, ServerReceives \/ SessionEnds
  PROVE  Inv'
<1> USE StatementsAssumption
<1> USE DEF Inv, TypeOK, SessionFits, StatusFits, DurableFits, client, server
<1>1. CASE ServerReceives
  <2>1. TypeOK'
    BY <1>1 DEF ServerReceives, Execute
  <2>2. SessionFits'
    BY <1>1 DEF ServerReceives, Execute
  <2>3. StatusFits'
    BY <1>1 DEF ServerReceives, Execute
  <2>4. DurableFits'
    BY <1>1 DEF ServerReceives, Execute
  <2> QED BY <2>1, <2>2, <2>3, <2>4
<1>2. CASE SessionEnds
  BY <1>2 DEF SessionEnds
<1> QED BY <1>1, <1>2

LEMMA WorkKeepsInv ==
  ASSUME Inv, Begin \/ Exec \/ Decline
  PROVE  Inv'
<1> USE StatementsAssumption
<1> USE DEF Inv, TypeOK, SessionFits, StatusFits, DurableFits, client, server
<1>1. CASE Begin
  <2>1. TypeOK'
    BY <1>1 DEF Begin, Completes, Fails, Execute
  <2>2. SessionFits'
    <3>1. isOpen /\ inFlight = "none" /\ executed = 0 /\ status' = "active"
      BY <1>1 DEF Begin
    <3>2. CASE Completes("BEGIN") /\ at' = "exec" /\ UNCHANGED <<thrown, registered>>
      BY <3>1, <3>2 DEF Completes, Execute
    <3>3. CASE Fails("BEGIN") /\ at' = "end" /\ thrown' = "failed" /\ registered' = FALSE
      BY <3>1, <3>3 DEF Fails
    <3> QED BY <1>1, <3>2, <3>3 DEF Begin
  <2>3. StatusFits'
    BY <1>1 DEF Begin, Completes, Fails, Execute
  <2>4. DurableFits'
    BY <1>1 DEF Begin, Completes, Fails, Execute
  <2> QED BY <2>1, <2>2, <2>3, <2>4
<1>2. CASE Exec
  <2>0. /\ at = "exec" /\ status = "active" /\ isOpen /\ inFlight = "none" /\ block = "open"
        /\ UNCHANGED <<handles, status, registered, answer>>
    BY <1>2 DEF Exec
  <2>1. CASE /\ Completes("statement") /\ UNCHANGED thrown
             /\ at' \in {"exec", "commit"}
             /\ executed' < Statements <=> at' = "exec"
    <3>1. TypeOK'
      BY <2>0, <2>1 DEF Completes, Execute
    <3>2. SessionFits'
      BY <2>0, <2>1 DEF Completes, Execute
    <3>3. StatusFits'
      BY <2>0, <2>1 DEF Completes, Execute
    <3>4. DurableFits'
      BY <2>0, <2>1 DEF Completes, Execute
    <3> QED BY <3>1, <3>2, <3>3, <3>4
  <2>2. CASE (Fails("statement") \/ IsRefused("statement")) /\ Throws("failed")
    <3>1. TypeOK'
      BY <2>0, <2>2 DEF Fails, IsRefused, Refuse, Throws
    <3>2. SessionFits'
      BY <2>0, <2>2 DEF Fails, IsRefused, Refuse, Throws
    <3>3. StatusFits'
      BY <2>0, <2>2 DEF Fails, IsRefused, Refuse, Throws
    <3>4. DurableFits'
      BY <2>0, <2>2 DEF Fails, IsRefused, Refuse, Throws
    <3> QED BY <3>1, <3>2, <3>3, <3>4
  <2> QED BY <1>2, <2>1, <2>2 DEF Exec
<1>3. CASE Decline
  BY <1>3 DEF Decline, Throws
<1> QED BY <1>1, <1>2, <1>3

LEMMA CommitKeepsInv ==
  ASSUME Inv, Commit
  PROVE  Inv'
<1> USE StatementsAssumption
<1> USE DEF Inv, TypeOK, SessionFits, StatusFits, DurableFits, client, server
<1>0. /\ at = "commit" /\ status = "active" /\ isOpen
      /\ UNCHANGED <<handles, answer>>
  BY DEF Commit
<1>1. CASE /\ Completes("COMMIT")
           /\ status' = "committed" /\ registered' = FALSE /\ at' = "close"
           /\ UNCHANGED thrown
  <2>0. executed' = 0 /\ block' = "none" /\ durable' = Statements
    BY <1>1, <1>0 DEF Completes, Execute
  <2>1. TypeOK'
    <3>1. executed' \in 0..Statements /\ durable' \in 0..Statements
      BY <2>0
    <3> QED BY <1>1, <1>0, <2>0, <3>1 DEF Completes
  <2>2. SessionFits'
    BY <1>1, <1>0 DEF Completes, Execute
  <2>3. StatusFits'
    BY <1>1, <1>0 DEF Completes, Execute
  <2>4. DurableFits'
    BY <1>1, <1>0 DEF Completes, Execute
  <2> QED BY <2>1, <2>2, <2>3, <2>4
<1>2. CASE /\ IsRefused("COMMIT")
           /\ status' = "aborted" /\ Throws("failed") /\ UNCHANGED registered
  <2>1. TypeOK'
    BY <1>2, <1>0 DEF IsRefused, Refuse, Throws
  <2>2. SessionFits'
    BY <1>2, <1>0 DEF IsRefused, Refuse, Throws
  <2>3. StatusFits'
    BY <1>2, <1>0 DEF IsRefused, Refuse, Throws
  <2>4. DurableFits'
    BY <1>2, <1>0 DEF IsRefused, Refuse, Throws
  <2> QED BY <2>1, <2>2, <2>3, <2>4
<1>3. CASE /\ Fails("COMMIT")
           /\ status' = "in_doubt" /\ Throws("in_doubt") /\ UNCHANGED registered
  <2>1. TypeOK'
    BY <1>3, <1>0 DEF Fails, Throws
  <2>2. SessionFits'
    BY <1>3, <1>0 DEF Fails, Throws
  <2>3. StatusFits'
    BY <1>3, <1>0 DEF Fails, Throws
  <2>4. DurableFits'
    BY <1>3, <1>0 DEF Fails, Throws
  <2> QED BY <2>1, <2>2, <2>3, <2>4
<1> QED BY <1>1, <1>2, <1>3 DEF Commit

LEMMA RollBackKeepsTypes ==
  ASSUME TypeOK, RollBack
  PROVE  /\ executed' \in 0..Statements /\ durable' = durable
         /\ block' \in {"none", "open", "failed"}
         /\ inFlight' \in {"none", "BEGIN", "statement", "COMMIT", "ROLLBACK"}
         /\ isOpen' \in BOOLEAN /\ status' = "aborted" /\ registered' = FALSE
<1> USE StatementsAssumption DEF TypeOK, RollBack, server
<1>1. CASE Completes("ROLLBACK")
  <2>1. executed' = 0 /\ block' = "none" /\ durable' = durable
    BY <1>1 DEF Completes, Execute
  <2> QED BY <1>1, <2>1 DEF Completes
<1>2. CASE Fails("ROLLBACK")
  BY <1>2 DEF Fails
<1> QED BY <1>1, <1>2

LEMMA EndKeepsInv ==
  ASSUME Inv, Raise \/ Abort \/ Close
  PROVE  Inv'
<1> USE StatementsAssumption
<1> USE DEF Inv, TypeOK, SessionFits, StatusFits, DurableFits, client, server
<1>1. CASE Raise
  BY <1>1 DEF Raise
<1>2. CASE Abort
  <2>1. TypeOK'
    BY <1>2, RollBackKeepsTypes DEF Abort
  <2>2. SessionFits'
    BY <1>2 DEF Abort, RollBack, Completes, Fails, Execute
  <2>3. StatusFits'
    BY <1>2 DEF Abort, RollBack, Completes, Fails, Execute
  <2>4. DurableFits'
    BY <1>2 DEF Abort, RollBack, Completes, Fails, Execute
  <2> QED BY <2>1, <2>2, <2>3, <2>4
<1>3. CASE Close
  <2>1. TypeOK'
    BY <1>3, RollBackKeepsTypes DEF Close, CloseAndAbort
  <2>2. SessionFits'
    BY <1>3 DEF Close, CloseAndAbort, RollBack, Completes, Fails, Execute
  <2>3. StatusFits'
    BY <1>3 DEF Close, CloseAndAbort, RollBack, Completes, Fails, Execute
  <2>4. DurableFits'
    BY <1>3 DEF Close, CloseAndAbort, RollBack, Completes, Fails, Execute
  <2> QED BY <2>1, <2>2, <2>3, <2>4
<1> QED BY <1>1, <1>2, <1>3

LEMMA Step == Inv /\ [Next]_vars => Inv'
<1> SUFFICES ASSUME Inv, [Next]_vars PROVE Inv'
  OBVIOUS
<1>1. CASE UNCHANGED vars
  BY <1>1
  DEF vars, client, server, Inv, TypeOK, SessionFits, StatusFits, DurableFits
<1>2. CASE Next
  BY <1>2, ServerKeepsInv, WorkKeepsInv, CommitKeepsInv, EndKeepsInv DEF Next, Owner
<1> QED BY <1>1, <1>2

(* In every state of the transaction the invariant holds: what is stored   *)
(* is all or nothing, a COMMIT is under way only for an owner in doubt, and *)
(* the status of the object agrees with the exception on its way up        *)
(* (transaction_base.cxx:99).                                              *)
THEOREM Invariance == Spec => []Inv
<1>1. Inv /\ [Next]_vars => Inv'
  BY Step
<1> QED BY Initially, <1>1, PTL DEF Spec

-----------------------------------------------------------------------------

(* That nothing is left open needs two facts more: when the owner has left, *)
(* the object is unregistered, and a link that holds has no block on it    *)
(* once the transaction is aborted or committed.                           *)
ClosedInv ==
  /\ at = "end" => ~registered
  /\ status # "active" \/ at = "end" => (isOpen => block = "none")

LEMMA ClosedStep == Inv /\ ClosedInv /\ [Next]_vars => ClosedInv'
<1> SUFFICES ASSUME Inv, ClosedInv, [Next]_vars PROVE ClosedInv'
  OBVIOUS
<1> USE StatementsAssumption
<1> USE DEF ClosedInv, Inv, TypeOK, SessionFits, StatusFits, DurableFits, client, server
<1>1. CASE UNCHANGED vars
  BY <1>1 DEF vars
<1>2. CASE Begin
  BY <1>2 DEF Begin, Completes, Fails, Execute
<1>3. CASE Exec
  <2>0. at = "exec" /\ status = "active" /\ status' = status
    BY <1>3 DEF Exec
  <2>1. CASE Completes("statement") /\ at' \in {"exec", "commit"}
    BY <2>0, <2>1 DEF Completes
  <2>2. CASE (Fails("statement") \/ IsRefused("statement")) /\ Throws("failed")
    BY <1>3, <2>2 DEF Exec, Fails, IsRefused, Refuse, Throws
  <2> QED BY <1>3, <2>1, <2>2 DEF Exec
<1>4. CASE Decline
  BY <1>4 DEF Decline, Throws
<1>5. CASE Commit
  BY <1>5 DEF Commit, Completes, Execute, Fails, IsRefused, Refuse, Throws
<1>6. CASE Raise
  BY <1>6 DEF Raise
<1>7. CASE Abort
  BY <1>7 DEF Abort, RollBack, Completes, Fails, Execute
<1>8. CASE Close
  BY <1>8 DEF Close, CloseAndAbort, RollBack, Completes, Fails, Execute
<1>9. CASE ServerReceives
  BY <1>9 DEF ServerReceives, Execute
<1>10. CASE SessionEnds
  BY <1>10 DEF SessionEnds
<1> QED BY <1>1, <1>2, <1>3, <1>4, <1>5, <1>6, <1>7, <1>8, <1>9, <1>10 DEF Next, Owner

(* When the operation has ended, with a handler or without one, the object *)
(* has left the connection and no block is open on a link that holds       *)
(* (transaction_base.cxx:177, 332).                                        *)
THEOREM Closed == Spec => []NothingLeftOpen
<1>1. Init => ClosedInv
  BY DEF Init, ClosedInv
<1>2. Inv /\ ClosedInv /\ [Next]_vars => ClosedInv'
  BY ClosedStep
<1>3. ClosedInv => NothingLeftOpen
  BY DEF ClosedInv, NothingLeftOpen
<1> QED BY <1>1, <1>2, <1>3, Invariance, PTL DEF Spec

-----------------------------------------------------------------------------

(* A step of the transaction stores everything, or tells its owner, or is  *)
(* nothing to Outcome.                                                     *)
LEMMA StepRefines ==
  Inv /\ Inv' /\ [Next]_vars =>
    [Outcomes!OutcomeNext]_<<durable = Statements, answer>>
<1> SUFFICES ASSUME Inv, Inv', [Next]_vars
             PROVE  [Outcomes!OutcomeNext]_<<durable = Statements, answer>>
  OBVIOUS
<1> USE StatementsAssumption
<1> USE DEF Inv, TypeOK, SessionFits, StatusFits, DurableFits, client, server
<1>1. CASE UNCHANGED vars
  BY <1>1 DEF vars
<1>2. CASE Begin
  <2>1. CASE answer' = answer
    BY <1>2, <2>1 DEF Begin, Completes, Fails, Execute
  <2>2. CASE answer' # answer
    BY <1>2, <2>2
    DEF Begin, Completes, Fails, Execute, Outcomes!OutcomeNext, Outcomes!Tell
  <2> QED BY <2>1, <2>2
<1>3. CASE Exec \/ Decline \/ Raise \/ Abort
  BY <1>3
  DEF Exec, Decline, Raise, Abort, RollBack, Completes, Fails, IsRefused, Refuse,
      Execute, Throws
<1>4. CASE Commit
  <2>1. UNCHANGED answer /\ answer = "none"
    BY <1>4 DEF Commit
  <2>2. CASE durable' = durable
    BY <2>1, <2>2
  <2>3. CASE durable' # durable
    BY <1>4, <2>1, <2>3
    DEF Commit, Completes, Fails, IsRefused, Refuse, Execute, Outcomes!OutcomeNext,
        Outcomes!Store
  <2> QED BY <2>2, <2>3
<1>5. CASE Close
  <2>1. durable' = durable /\ answer = "none"
    BY <1>5 DEF Close, CloseAndAbort, RollBack, Completes, Fails, Execute
  <2>2. answer' = IF thrown = "none" THEN "committed" ELSE thrown
    BY <1>5 DEF Close
  <2>3. Outcomes!Tell(answer')
    BY <1>5, <2>1, <2>2 DEF Outcomes!Tell, Close
  <2>4. answer' \in {"committed", "failed", "in_doubt"}
    BY <2>2
  <2> QED BY <2>3, <2>4 DEF Outcomes!OutcomeNext
<1>6. CASE ServerReceives
  <2>1. UNCHANGED answer
    BY <1>6 DEF ServerReceives
  <2>2. CASE durable' = durable
    BY <2>1, <2>2
  <2>3. CASE durable' # durable
    <3>1. inFlight = "COMMIT" /\ durable' = Statements /\ durable # Statements
      BY <1>6, <2>3 DEF ServerReceives, Execute
    <3>2. answer \in {"none", "in_doubt"}
      BY <3>1
    <3> QED BY <2>1, <3>1, <3>2 DEF Outcomes!OutcomeNext, Outcomes!Store
  <2> QED BY <2>2, <2>3
<1>7. CASE SessionEnds
  BY <1>7 DEF SessionEnds
<1> QED BY <1>1, <1>2, <1>3, <1>4, <1>5, <1>6, <1>7 DEF Next, Owner

(* The transaction keeps its promise: commit() returns only when everything *)
(* is stored, and after an exception nothing is, nor ever will be, unless  *)
(* it is the one that calls the outcome unknown (transaction.cxx:60).      *)
THEOREM Refinement == Spec => ImplementsOutcome
<1>1. Init => Outcomes!OutcomeInit
  BY StatementsAssumption DEF Init, Outcomes!OutcomeInit
<1>2. Inv /\ Inv' /\ [Next]_vars =>
        [Outcomes!OutcomeNext]_<<durable = Statements, answer>>
  BY StepRefines
<1> QED
  BY <1>1, <1>2, Invariance, PTL DEF Spec, ImplementsOutcome, Outcomes!OutcomeSpec
=============================================================================
