---------------------------- MODULE MCStrategies ----------------------------
(* A small instance of StrategyLoop; sizes are the ends of the code's ranges. *)
EXTENDS StrategyLoop

MCTranches == [i \in 1..3 |-> 6 + 6 * i]
=============================================================================
