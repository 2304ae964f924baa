------------------------- MODULE MCAlertEvaluation -------------------------
(* Values of the constants of AlertEvaluation for TLC. *)
EXTENDS AlertEvaluation, TLC

SameEvaluators == Permutations(Evaluators)

\* One rule on the ATM IV, which an event may lack.
IvCondition == [r \in Rules |-> "IV_SPIKE"]
IvThreshold == [r \in Rules |-> 1]
OneSecond   == [r \in Rules |-> 1]
IvSnapshots == {[spot |-> 0, iv |-> v] : v \in {0, 1, NoValue}}
=============================================================================
