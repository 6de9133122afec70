-------------------------- MODULE MCExecutionStore --------------------------
(* Small instances of ExecutionStore.                                      *)
EXTENDS ExecutionStore, TLC

CONSTANTS
    mm, dca,    \* two agents of the catalogue
    w1          \* the user's wallet

AgentSymmetry == Permutations({mm, dca})

\* To be explored further, a state has no withdrawal beside a third start.
ThirdStartAlone ==
    (\E k \in Keys : k > 2 /\ starts[k].pc # "none")
        => \A j \in Jobs : withdrawals[j].pc = "none"
=============================================================================
