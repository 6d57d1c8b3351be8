----------------------------- MODULE MCDelivery -----------------------------
(***************************************************************************)
(* An instance of Delivery for TLC: two tenants, each with a bob; bob of   *)
(* the first one has a device on both nodes.                               *)
(***************************************************************************)
EXTENDS Delivery

CONSTANTS n1, n2, t1, t2, alice, bob, a1, b1, b2, x2, general, room

MCTenantOf == [c \in Conns |-> IF c = x2 THEN t2 ELSE t1]

MCNameOf == [c \in Conns |-> IF c = a1 THEN alice ELSE bob]

MCNodeOf == [c \in Conns |-> IF c \in {a1, b1} THEN n1 ELSE n2]
=============================================================================
