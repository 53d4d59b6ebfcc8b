-------------------------- MODULE MCNoncePartition --------------------------
(***************************************************************************)
(* NoncePartition on small rigs.                                           *)
(***************************************************************************)
EXTENDS NoncePartition

CONSTANT MoreThreads    \* the miners that run one thread more than the others

MCThreads == [i \in Miners |-> IF i \in MoreThreads THEN 2 ELSE 1]
AllMiners == Miners
=============================================================================
