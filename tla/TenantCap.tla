----------------------------- MODULE TenantCap -----------------------------
(***************************************************************************)
(* What the tenant limiter promises to the outside (limits/mod.rs, the     *)
(* comment on TenantLimiter; README "Tenant Connection Limiting"): the     *)
(* connections admitted at any time belong, per tenant, to at most         *)
(* MaxUsers distinct users, and a user who already has an admitted         *)
(* connection is always admitted again (multi-device).  An acquire that    *)
(* Redis does not answer is admitted all the same, and from then on the    *)
(* cap may be exceeded by one user more.  Redis, its keys, the scripts and *)
(* the nodes do not appear here; TenantLimiter implements this             *)
(* specification.                                                          *)
(***************************************************************************)
EXTENDS Naturals, FiniteSets

CONSTANTS
    Tenants, Users,  \* the names a token may carry
    Conns,           \* connection attempts that may be open at once
    IdentityOf,      \* the tenant and the user each connection authenticates as
    MaxUsers         \* distinct users allowed per tenant

VARIABLES
    sessions,        \* the admitted connections
    waived           \* how many were admitted without a decision

\* The distinct users of tenant t among the connections of S.
UsersOf(S, t) == {u \in Users : \E c \in S : IdentityOf[c] = <<t, u>>}

Init == sessions = {} /\ waived = 0

\* One more device of a user who has one, or a new user below the cap.
Admit(c) ==
    /\ c \notin sessions
    /\ LET t == IdentityOf[c][1]
           u == IdentityOf[c][2]
       IN  \/ u \in UsersOf(sessions, t)
           \/ Cardinality(UsersOf(sessions, t)) < MaxUsers + waived
    /\ sessions' = sessions \cup {c}
    /\ UNCHANGED waived

\* Redis does not answer: c is admitted whatever the tenant holds.
Waive(c) ==
    /\ sessions' = sessions \cup {c}
    /\ waived' = waived + 1

\* A connection ends by itself or, when its node stops, together with others.
End(S) ==
    /\ S \subseteq sessions
    /\ sessions' = sessions \ S
    /\ UNCHANGED waived

Next ==
    \/ \E c \in Conns : Admit(c) \/ Waive(c)
    \/ \E S \in SUBSET Conns : End(S)

Spec == Init /\ [][Next]_<<sessions, waived>>
=============================================================================
