------------------------- MODULE MCKafkaPersistence -------------------------
(***************************************************************************)
(* Instances of KafkaPersistence for TLC: two nodes, batches of two.       *)
(***************************************************************************)
EXTENDS KafkaPersistence

CONSTANTS n1, n2
=============================================================================
