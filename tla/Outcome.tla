------------------------------- MODULE Outcome -------------------------------
(***************************************************************************)
(* What a transaction promises to the code that runs it: its statements    *)
(* are stored together or not at all; when commit() returns they are       *)
(* stored; after an exception they are not and never will be, unless the   *)
(* exception says that nobody knows.                                       *)
(***************************************************************************)
VARIABLES
  stored,      \* the statements are in the database for good
  answer       \* how the transaction ended for its owner

OutcomeInit == stored = FALSE /\ answer = "none"

Store ==
  /\ ~stored /\ answer \in {"none", "in_doubt"}
  /\ stored' = TRUE
  /\ UNCHANGED answer

Tell(word) ==
  /\ answer = "none"
  /\ answer' = word
  /\ word = "committed" => stored
  /\ word = "failed" => ~stored
  /\ UNCHANGED stored

OutcomeNext == Store \/ \E word \in {"committed", "failed", "in_doubt"} : Tell(word)

OutcomeSpec == OutcomeInit /\ [][OutcomeNext]_<<stored, answer>>
=============================================================================
