-------------------------- MODULE MCTenantLimiter --------------------------
(***************************************************************************)
(* Instances of TenantLimiter for TLC: two nodes, two tenants that share   *)
(* user names, a user with two devices on different nodes.                 *)
(***************************************************************************)
EXTENDS TenantLimiter

CONSTANTS n1, n2, acme, beta, alice, bob, carol, c1, c2, c3, c4, c5

\* Two devices of acme's alice, acme's bob and carol, and beta's alice.
MCIdentityOf ==
    [c \in Conns |-> CASE c \in {c1, c2} -> <<acme, alice>>
                       [] c = c3 -> <<acme, bob>>
                       [] c = c4 -> <<acme, carol>>
                       [] OTHER -> <<beta, alice>>]

MCNodeOf == [c \in Conns |-> IF c = c2 THEN n2 ELSE n1]
=============================================================================
