--------------------------- MODULE TenantLimiter ---------------------------
(***************************************************************************)
(* The cross-node tenant limiter (limits/mod.rs) and the part of a         *)
(* WebSocket connection's life that uses it (server/ws.rs: ws_handler, the *)
(* ConnectionGuard of handle_socket).                                      *)
(*                                                                         *)
(* Redis is one atomic store shared by the nodes: a Lua script is a step.  *)
(* What a node does around the script is not atomic: the reply travels,    *)
(* the client may go away, the upgrade may fail, the node may stop.        *)
(*                                                                         *)
(* A connection's phase:                                                   *)
(*   idle       no such connection                                         *)
(*   acquiring  ws_handler awaits limiter.acquire, the script has not run  *)
(*   granted    the script returned 1, its reply is on the way             *)
(*   refused    the script returned 0, its reply is on the way             *)
(*   admitted   acquire returned true, the upgrade has not completed       *)
(*   live       handle_socket holds the ConnectionGuard                    *)
(*   releasing  the guard was dropped, the spawned release has not run     *)
(***************************************************************************)
EXTENDS Integers, FiniteSets

CONSTANTS
    Nodes,        \* server processes
    Tenants, Users,
    Conns,        \* connection slots; a slot that is idle again is a new one
    IdentityOf,   \* [Conns -> Tenants \X Users]: the claims of its token
    NodeOf,       \* [Conns -> Nodes]: where the load balancer sends it
    MaxUsers,     \* TenantLimiter::max_users
    MaxFailOpen,  \* bound on acquires that fail open
    MaxLeaks      \* bound on acquired references that are never released

ASSUME FiniteAssumption == IsFiniteSet(Users) /\ IsFiniteSet(Conns)
ASSUME IdentityAssumption == IdentityOf \in [Conns -> Tenants \X Users]
ASSUME NodeAssumption == NodeOf \in [Conns -> Nodes]
ASSUME BoundAssumption ==
    MaxUsers \in Nat /\ MaxFailOpen \in Nat /\ MaxLeaks \in Nat

VARIABLES
    online,       \* Redis: online[t] is the SET online:{t}
    conncount,    \* Redis: conncount[id] is the integer conncount:{t}:u, 0 if absent
    phase,        \* the phase of each connection
    counted,      \* history: this connection's script incremented conncount
    failOpens,    \* number of acquires that failed open so far
    leaks         \* number of references that no release will ever return

vars == <<online, conncount, phase, counted, failOpens, leaks>>

Identities == Tenants \X Users

Phases == {"idle", "acquiring", "granted", "refused", "admitted", "live", "releasing"}

\* The phases in which a connection that was counted has not been released.
Holding == {"granted", "admitted", "live", "releasing"}

TypeOK ==
    /\ online \in [Tenants -> SUBSET Users]
    /\ conncount \in [Identities -> Nat]
    /\ phase \in [Conns -> Phases]
    /\ counted \in [Conns -> BOOLEAN]
    /\ failOpens \in 0 .. MaxFailOpen
    /\ leaks \in 0 .. MaxLeaks

Init ==
    /\ online = [t \in Tenants |-> {}]
    /\ conncount = [id \in Identities |-> 0]
    /\ phase = [c \in Conns |-> "idle"]
    /\ counted = [c \in Conns |-> FALSE]
    /\ failOpens = 0
    /\ leaks = 0

redis == <<online, conncount>>

-----------------------------------------------------------------------------
(* ws_handler *)

\* A request with a valid token reaches limiter.acquire.
Connect(c) ==
    /\ phase[c] = "idle"
    /\ phase' = [phase EXCEPT ![c] = "acquiring"]
    /\ UNCHANGED <<redis, counted, failOpens, leaks>>

\* ACQUIRE_SCRIPT returns 1: the user had a reference, or there is room.
GrantIf(c, room) ==
    LET id == IdentityOf[c]
        t  == id[1]
    IN  /\ phase[c] = "acquiring"
        /\ conncount[id] = 0 => room
        /\ conncount' = [conncount EXCEPT ![id] = @ + 1]
        /\ online' = IF conncount[id] = 0
                     THEN [online EXCEPT ![t] = @ \cup {id[2]}]
                     ELSE online
        /\ phase' = [phase EXCEPT ![c] = "granted"]
        /\ counted' = [counted EXCEPT ![c] = TRUE]
        /\ UNCHANGED <<failOpens, leaks>>

\* Mutant: the SCARD test with > instead of >=.
GrantOneOver(c) == GrantIf(c, Cardinality(online[IdentityOf[c][1]]) <= MaxUsers)

AcquireGrant(c) == GrantIf(c, Cardinality(online[IdentityOf[c][1]]) < MaxUsers)

\* Mutant: the increment of a refused first reference is not undone.
RefuseWithoutDecr(c) ==
    /\ phase[c] = "acquiring"
    /\ conncount[IdentityOf[c]] = 0
    /\ Cardinality(online[IdentityOf[c][1]]) >= MaxUsers
    /\ conncount' = [conncount EXCEPT ![IdentityOf[c]] = @ + 1]
    /\ phase' = [phase EXCEPT ![c] = "refused"]
    /\ UNCHANGED <<online, counted, failOpens, leaks>>

\* ACQUIRE_SCRIPT returns 0: the first reference of a user finds the tenant
\* full, and the increment is undone inside the script.
AcquireRefuse(c) ==
    /\ phase[c] = "acquiring"
    /\ conncount[IdentityOf[c]] = 0
    /\ Cardinality(online[IdentityOf[c][1]]) >= MaxUsers
    /\ phase' = [phase EXCEPT ![c] = "refused"]
    /\ UNCHANGED <<redis, counted, failOpens, leaks>>

\* The reply arrives: the upgrade goes on, or the client gets status 429.
AcquireReply(c) ==
    /\ phase[c] \in {"granted", "refused"}
    /\ phase' = [phase EXCEPT ![c] = IF @ = "granted" THEN "admitted" ELSE "idle"]
    /\ UNCHANGED <<redis, counted, failOpens, leaks>>

\* The command fails, before or after the script ran: acquire answers true.
AcquireError(c) ==
    /\ phase[c] \in {"acquiring", "granted", "refused"}
    /\ failOpens < MaxFailOpen
    /\ failOpens' = failOpens + 1
    /\ phase' = [phase EXCEPT ![c] = "admitted"]
    /\ UNCHANGED <<redis, counted, leaks>>

\* The references that vanish when the connections of S end without release.
Lost(S) == Cardinality({c \in S : counted[c]})

Vanish(S) ==
    /\ leaks + Lost(S) <= MaxLeaks
    /\ leaks' = leaks + Lost(S)
    /\ phase' = [c \in Conns |-> IF c \in S THEN "idle" ELSE phase[c]]
    /\ counted' = [c \in Conns |-> c \notin S /\ counted[c]]
    /\ UNCHANGED <<redis, failOpens>>

\* The client goes away before handle_socket runs: the handler's future is
\* dropped, or the upgrade fails and its callback is never called.  There is
\* no guard yet, so nothing is released.
Cancel(c) ==
    /\ phase[c] \in {"acquiring", "granted", "refused", "admitted"}
    /\ Vanish({c})

-----------------------------------------------------------------------------
(* handle_socket and ConnectionGuard *)

Open(c) ==
    /\ phase[c] = "admitted"
    /\ phase' = [phase EXCEPT ![c] = "live"]
    /\ UNCHANGED <<redis, counted, failOpens, leaks>>

\* Either half of the socket ends; Drop spawns the release.
Close(c) ==
    /\ phase[c] = "live"
    /\ phase' = [phase EXCEPT ![c] = "releasing"]
    /\ UNCHANGED <<redis, counted, failOpens, leaks>>

\* RELEASE_SCRIPT: the reference that is last takes the user out of the online
\* set; left is what the script leaves of the count then (DEL: 0).
ReleaseWhen(c, last, left) ==
    LET id == IdentityOf[c]
        t  == id[1]
    IN  /\ phase[c] = "releasing"
        /\ conncount' = [conncount EXCEPT ![id] = IF last THEN left ELSE @ - 1]
        /\ online' = IF last THEN [online EXCEPT ![t] = @ \ {id[2]}] ELSE online
        /\ phase' = [phase EXCEPT ![c] = "idle"]
        /\ counted' = [counted EXCEPT ![c] = FALSE]
        /\ UNCHANGED <<failOpens, leaks>>

\* Mutants: the test of the count one too high or one too low, and no DEL.
ReleaseEarly(c) == ReleaseWhen(c, conncount[IdentityOf[c]] <= 2, 0)
ReleaseLate(c) == ReleaseWhen(c, conncount[IdentityOf[c]] <= 0, 0)
ReleaseWithoutDel(c) ==
    ReleaseWhen(c, conncount[IdentityOf[c]] <= 1, conncount[IdentityOf[c]] - 1)

ReleaseScript(c) == ReleaseWhen(c, conncount[IdentityOf[c]] <= 1, 0)

\* The command fails: the error is logged and the reference stays.
ReleaseError(c) ==
    /\ phase[c] = "releasing"
    /\ Vanish({c})

\* A process ends, by a crash or by a graceful shutdown: axum does not wait
\* for upgraded connections, and the releases their guards spawn die with
\* the runtime.
NodeStop(n) == Vanish({c \in Conns : NodeOf[c] = n})

Next ==
    \/ \E c \in Conns :
        \/ Connect(c) \/ AcquireGrant(c) \/ AcquireRefuse(c) \/ AcquireReply(c)
        \/ AcquireError(c) \/ Cancel(c) \/ Open(c) \/ Close(c)
        \/ ReleaseScript(c) \/ ReleaseError(c)
    \/ \E n \in Nodes : NodeStop(n)

Spec == Init /\ [][Next]_vars

\* The runtime runs a spawned release, and a Redis that answers runs the
\* script.  Nothing makes a client connect or close.
Fairness == \A c \in Conns : WF_vars(ReleaseScript(c))

FairSpec == Spec /\ Fairness

-----------------------------------------------------------------------------
(* Properties *)

\* The two Redis keys agree after every script, whatever was lost between
\* them: a user is in the online set exactly when the reference count is
\* positive (ACQUIRE_SCRIPT and RELEASE_SCRIPT).
OnlineIffCounted ==
    \A t \in Tenants, u \in Users : u \in online[t] <=> conncount[<<t, u>>] > 0

\* No interleaving of scripts of several nodes puts more than MaxUsers users
\* in a tenant's online set (the SCARD test of ACQUIRE_SCRIPT).
CapInRedis == \A t \in Tenants : Cardinality(online[t]) <= MaxUsers

\* The users of tenant t who hold a socket, or are about to.
ConnectedUsers(t) ==
    {u \in Users : \E c \in Conns : /\ IdentityOf[c] = <<t, u>>
                                    /\ phase[c] \in {"admitted", "live"}}

\* What the limiter is for: the distinct users of a tenant connected to any
\* of the nodes never exceed the cap (limits/mod.rs:13, README "enforces a
\* maximum number of concurrent users per tenant"), and an acquire that fails
\* open costs one place, once: no later release turns it into more.
CapOnConnectedUsers ==
    \A t \in Tenants : Cardinality(ConnectedUsers(t)) <= MaxUsers + failOpens

\* The connections of id that hold a reference.
Holders(id) == {c \in Conns : IdentityOf[c] = id /\ phase[c] \in Holding}

\* No connection that holds a place goes uncounted, but for as many as failed
\* open: setting those aside, a user's reference count covers the holders, so
\* that a release on one device does not drop a user who is still connected on
\* another one.
CountedBut(F) ==
    /\ Cardinality(F) <= failOpens
    /\ \A id \in Identities : Cardinality(Holders(id) \ F) <= conncount[id]

HoldersCounted == \E F \in SUBSET Conns : CountedBut(F)

\* "a user already online always succeeds (multi-device)" (limits/mod.rs:13):
\* as long as Redis has answered every acquire, no device of a user is refused
\* while another one, which was counted when it connected, is still open.
Refused(c) == phase[c] = "acquiring" /\ phase'[c] = "refused"

OpenDevice(d) == phase[d] = "live" /\ counted[d]

MultiDevice ==
    [][\A c, d \in Conns :
          IdentityOf[c] = IdentityOf[d] /\ OpenDevice(d) /\ failOpens = 0
              => ~Refused(c)]_vars

\* "SET of currently-online user_ids" (limits/mod.rs:10): every user in the
\* set has a connection that is not over yet.
OnlineUsersAreConnected ==
    \A t \in Tenants : \A u \in online[t] :
        \E c \in Conns : IdentityOf[c] = <<t, u>> /\ phase[c] \in Holding

\* A user stays in the set without a connection only by a reference that was
\* lost: an acquire that failed open, and is released all the same, strands
\* nobody.
NoStaleUser == leaks = 0 => OnlineUsersAreConnected

\* Once a user's connections have all ended, the user leaves the online set
\* unless one of them comes back or a reference is lost: the releases of
\* several devices, run in any order, add up to the last one (RELEASE_SCRIPT,
\* cnt <= 0).
Ended(id) == \A c \in Conns : IdentityOf[c] = id => phase[c] \in {"idle", "releasing"}

UserGoesOffline ==
    \A id \in Identities :
        Ended(id) ~> (id[2] \notin online[id[1]] \/ ~Ended(id) \/ leaks > 0)

\* The connections that occupy a place are the sessions of TenantCap.
Cap == INSTANCE TenantCap
           WITH sessions <- {c \in Conns : phase[c] \in Holding}, waived <- failOpens

\* Every step of the nodes and of Redis is a step TenantCap allows, or
\* changes no session: the distributed limiter admits what one central
\* limiter would (README "Redis-backed atomic enforcement across all nodes").
CapSpec == Cap!Spec
=============================================================================
