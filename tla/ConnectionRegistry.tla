------------------------- MODULE ConnectionRegistry -------------------------
(***************************************************************************)
(* The connection registry of one node (connection/mod.rs), at the grain   *)
(* of its locks, for one tenant: a map of users, each a map of             *)
(* connections, each the Sender of a bounded channel that the connection's *)
(* send task drains (handle_socket in server/ws.rs).                       *)
(*                                                                         *)
(* remove (run by a ConnectionGuard) and send_msg_to_user (run by the      *)
(* Redis listener and by heartbeats) hold a read guard of the tenant       *)
(* entry, inside it one of the user entry, and mutate the maps below.      *)
(* insert is one statement under the write guard of the tenant entry, so   *)
(* it is one step.  Which guards a task holds follows from its pc:         *)
(*   idle     nothing                                                      *)
(*   conns    tenant and user entries: reads and mutates the connections   *)
(*   count    the same, about to test whether the user has connections     *)
(*   user     tenant entry: about to remove the user's entry               *)
(*   users    tenant entry: about to test whether the tenant has users     *)
(*   tenant   nothing: about to remove the tenant's entry                  *)
(***************************************************************************)
EXTENDS Naturals, Sequences, FiniteSets

CONSTANTS
    Users,
    NoUser,      \* the target of a sender that is not in an operation
    Conns,       \* connections, each used once
    Senders,     \* tasks that call send_msg_to_user
    UserOf,      \* [Conns -> Users]
    Capacity,    \* CHANNEL_CAPACITY
    MaxSends     \* bound on the messages of one sender

ASSUME UserAssumption == UserOf \in [Conns -> Users] /\ NoUser \notin Users
ASSUME TaskAssumption == Conns \cap Senders = {}
ASSUME BoundAssumption == Capacity \in Nat \ {0} /\ MaxSends \in Nat

VARIABLES
    tenantMap,   \* whether the tenant has an entry in inner
    users,       \* the users with an entry in the tenant's map
    conns,       \* the connections with an entry in their user's map
    queue,       \* the channel of each connection, as a sequence of senders
    life,        \* where each connection is in its life
    pc,          \* of each task: a connection's guard, or a sender
    target,      \* the user a sender's operation is for
    visited,     \* the connections a sender's iteration has visited
    stale,       \* the connections it will evict
    sends,       \* the number of messages a sender has sent
    missed       \* history: the senders whose message a full channel refused

maps == <<tenantMap, users, conns>>
sending == <<target, visited, stale, sends>>
vars == <<maps, queue, life, pc, sending, missed>>

Tasks == Conns \cup Senders

TypeOK ==
    /\ tenantMap \in BOOLEAN
    /\ users \subseteq Users
    /\ conns \subseteq Conns
    /\ queue \in [Conns -> Seq(Senders)]
    /\ \A c \in Conns : Len(queue[c]) <= Capacity
    /\ life \in [Conns -> {"new", "open", "shutting", "closing", "gone"}]
    /\ pc \in [Tasks -> {"idle", "conns", "count", "user", "users", "tenant"}]
    /\ target \in [Senders -> Users \cup {NoUser}]
    /\ visited \in [Senders -> SUBSET Conns]
    /\ stale \in [Senders -> SUBSET Conns]
    /\ sends \in [Senders -> 0 .. MaxSends]
    /\ missed \in [Conns -> SUBSET Senders]

Init ==
    /\ tenantMap = FALSE /\ users = {} /\ conns = {}
    /\ queue = [c \in Conns |-> << >>]
    /\ life = [c \in Conns |-> "new"]
    /\ pc = [p \in Tasks |-> "idle"]
    /\ target = [s \in Senders |-> NoUser]
    /\ visited = [s \in Senders |-> {}]
    /\ stale = [s \in Senders |-> {}]
    /\ sends = [s \in Senders |-> 0]
    /\ missed = [c \in Conns |-> {}]

\* The user an operation is about.
UserOfTask(p) == IF p \in Conns THEN UserOf[p] ELSE target[p]

ConnsOf(u) == {c \in conns : UserOf[c] = u}

-----------------------------------------------------------------------------
(* Guards *)

HoldsTenant(p) == pc[p] \in {"conns", "count", "user", "users"}

\* Mutant: the guard of the user's entry is kept while the entry is removed.
HoldsUserTooLong(p) == pc[p] \in {"conns", "count", "user"}

HoldsUser(p) == pc[p] \in {"conns", "count"}

\* A write guard waits until no task holds a guard of the entry.
TenantFree == \A p \in Tasks : ~HoldsTenant(p)
UserFree(u) == \A p \in Tasks : HoldsUser(p) => UserOfTask(p) # u

-----------------------------------------------------------------------------
(* Connections: insert, the send task, and the end of the connection *)

Enter(c) ==
    /\ life[c] = "new"
    /\ tenantMap' = TRUE
    /\ users' = users \cup {UserOf[c]}
    /\ conns' = conns \cup {c}
    /\ life' = [life EXCEPT ![c] = "open"]
    /\ UNCHANGED <<queue, pc, sending, missed>>

\* Mutant: an insert under a read guard, in the middle of an iteration.
InsertShared(c) == Enter(c)

Insert(c) == TenantFree /\ Enter(c)

\* The send task takes a message and writes it to the socket.
Deliver(c) ==
    /\ life[c] = "open"
    /\ queue[c] # << >>
    /\ queue' = [queue EXCEPT ![c] = Tail(@)]
    /\ UNCHANGED <<maps, life, pc, sending, missed>>

\* The send task leaves its loop for the close of the socket, which has no timeout;
\* until it is done, the channel takes what it has room for.
Shuts(c) ==
    /\ life[c] = "open"
    /\ life' = [life EXCEPT ![c] = "shutting"]

\* The write of a message fails, or exceeds SEND_TIMEOUT.
WriteFails(c) ==
    /\ queue[c] # << >>
    /\ Shuts(c)
    /\ queue' = [queue EXCEPT ![c] = Tail(@)]
    /\ UNCHANGED <<maps, pc, sending, missed>>

\* Mutant: the task keeps a Sender of its own, and the channel never closes.
HeldOpen(c) == FALSE

\* The registry dropped the Sender: once the channel is drained, recv returns None.
Drained(c) ==
    /\ c \notin conns
    /\ queue[c] = << >>
    /\ Shuts(c)
    /\ UNCHANGED <<maps, queue, pc, sending, missed>>

\* Either task is over: the close of the socket is done, or the socket fails, the
\* client closes it or its heartbeat times out.  What is in the channel is dropped.
Disconnect(c) ==
    /\ life[c] \in {"open", "shutting"}
    /\ life' = [life EXCEPT ![c] = "closing"]
    /\ queue' = [queue EXCEPT ![c] = << >>]
    /\ UNCHANGED <<maps, pc, sending, missed>>

-----------------------------------------------------------------------------
(* remove, run when the guard of connection c is dropped *)

Goto(p, l) == pc' = [pc EXCEPT ![p] = l]

\* The operation is over; a connection whose guard has run is gone.
Return(p) ==
    /\ Goto(p, "idle")
    /\ life' = IF p \in Conns THEN [life EXCEPT ![p] = "gone"] ELSE life

RemoveGet(c) ==
    /\ life[c] = "closing" /\ pc[c] = "idle"
    /\ IF tenantMap /\ UserOf[c] \in users
       THEN Goto(c, "conns") /\ UNCHANGED life
       ELSE Return(c)
    /\ UNCHANGED <<maps, queue, sending, missed>>

\* Mutant: a guard leaves its entry in place while the user has other devices.
RemoveLast(c) ==
    /\ pc[c] = "conns"
    /\ conns' = IF ConnsOf(UserOf[c]) = {c} THEN conns \ {c} ELSE conns
    /\ Goto(c, "count")
    /\ UNCHANGED <<tenantMap, users, queue, life, sending, missed>>

RemoveConn(c) ==
    /\ pc[c] = "conns"
    /\ conns' = conns \ {c}
    /\ Goto(c, "count")
    /\ UNCHANGED <<tenantMap, users, queue, life, sending, missed>>

\* connections.is_empty(), then the user's guard is dropped.
RemoveCount(c) ==
    /\ pc[c] = "count"
    /\ Goto(c, IF ConnsOf(UserOf[c]) = {} THEN "user" ELSE "users")
    /\ UNCHANGED <<maps, queue, life, sending, missed>>

\* The entry goes with whatever is in it.
DropUser(u) ==
    /\ UserFree(u)
    /\ users' = users \ {u}
    /\ conns' = conns \ ConnsOf(u)

RemoveUser(c) ==
    /\ pc[c] = "user"
    /\ DropUser(UserOf[c])
    /\ Goto(c, "users")
    /\ UNCHANGED <<tenantMap, queue, life, sending, missed>>

\* users.is_empty(), then the tenant's guard is dropped.
RemoveUsers(c) ==
    /\ pc[c] = "users"
    /\ IF users = {} THEN Goto(c, "tenant") /\ UNCHANGED life ELSE Return(c)
    /\ UNCHANGED <<maps, queue, sending, missed>>

\* inner.remove: no guard was held since the test, and the entry goes with
\* whatever has come into it.
RemoveTenant(c) ==
    /\ pc[c] = "tenant"
    /\ TenantFree
    /\ tenantMap' = FALSE /\ users' = {} /\ conns' = {}
    /\ Return(c)
    /\ UNCHANGED <<queue, sending, missed>>

-----------------------------------------------------------------------------
(* send_msg_to_user *)

SendGet(s, u) ==
    /\ pc[s] = "idle"
    /\ sends[s] < MaxSends
    /\ sends' = [sends EXCEPT ![s] = @ + 1]
    /\ IF tenantMap /\ u \in users
       THEN Goto(s, "conns") /\ target' = [target EXCEPT ![s] = u]
       ELSE UNCHANGED <<pc, target>>
    /\ UNCHANGED <<maps, queue, life, visited, stale, missed>>

\* The operation is over, and its local variables with it.
SendReturn(s) ==
    /\ Goto(s, "idle")
    /\ target' = [target EXCEPT ![s] = NoUser]
    /\ visited' = [visited EXCEPT ![s] = {}]

ToVisit(s) == ConnsOf(target[s]) \ visited[s]

Visit(s, c) ==
    /\ pc[s] = "conns"
    /\ c \in ToVisit(s)
    /\ visited' = [visited EXCEPT ![s] = @ \cup {c}]
    /\ UNCHANGED <<maps, life, pc, target, sends>>

\* try_send: room in the channel.
SendOk(s, c) ==
    /\ Visit(s, c)
    /\ Len(queue[c]) < Capacity
    /\ queue' = [queue EXCEPT ![c] = Append(@, s)]
    /\ UNCHANGED <<stale, missed>>

\* try_send: Full.
SendFull(s, c) ==
    /\ Visit(s, c)
    /\ Len(queue[c]) >= Capacity
    /\ stale' = [stale EXCEPT ![s] = @ \cup {c}]
    /\ missed' = [missed EXCEPT ![c] = @ \cup {s}]
    /\ UNCHANGED queue

\* try_send: Closed, once the send task is gone.
SendClosed(s, c) ==
    /\ Visit(s, c)
    /\ life[c] = "closing"
    /\ stale' = [stale EXCEPT ![s] = @ \cup {c}]
    /\ UNCHANGED <<queue, missed>>

\* Mutant: a stale connection is only logged.
KeepStale(s, c) ==
    /\ pc[s] = "conns"
    /\ ToVisit(s) = {} /\ c \in stale[s]
    /\ stale' = [stale EXCEPT ![s] = @ \ {c}]
    /\ UNCHANGED <<maps, queue, life, pc, target, visited, sends, missed>>

\* After the iteration, the stale connections are removed one by one.
Evict(s, c) ==
    /\ pc[s] = "conns"
    /\ ToVisit(s) = {} /\ c \in stale[s]
    /\ conns' = conns \ {c}
    /\ stale' = [stale EXCEPT ![s] = @ \ {c}]
    /\ UNCHANGED <<tenantMap, users, queue, life, pc, target, visited, sends, missed>>

Evicted(s) ==
    /\ pc[s] = "conns"
    /\ ToVisit(s) = {} /\ stale[s] = {}
    /\ Goto(s, "count")
    /\ UNCHANGED <<maps, queue, life, sending, missed>>

\* connections.is_empty(), then the user's guard is dropped.
CountThen(s, empty) ==
    /\ pc[s] = "count"
    /\ IF empty THEN Goto(s, "user") /\ UNCHANGED <<target, visited>> ELSE SendReturn(s)
    /\ UNCHANGED <<maps, queue, life, stale, sends, missed>>

\* Mutants: the user's entry is removed, or kept, whatever is in it.
CountNothing(s) == CountThen(s, TRUE)
NeverCollect(s) == CountThen(s, FALSE)

SendCount(s) == CountThen(s, ConnsOf(target[s]) = {})

\* The user's entry is removed; the tenant's entry is not looked at.
SendUser(s) ==
    /\ pc[s] = "user"
    /\ DropUser(target[s])
    /\ SendReturn(s)
    /\ UNCHANGED <<tenantMap, queue, life, stale, sends, missed>>

-----------------------------------------------------------------------------

Write(c) == Deliver(c) \/ WriteFails(c)

Remove(c) ==
    \/ RemoveGet(c) \/ RemoveConn(c) \/ RemoveCount(c)
    \/ RemoveUser(c) \/ RemoveUsers(c) \/ RemoveTenant(c)

Try(s, c) == SendOk(s, c) \/ SendFull(s, c) \/ SendClosed(s, c)

Send(s) ==
    \/ \E c \in Conns : Try(s, c) \/ Evict(s, c)
    \/ Evicted(s) \/ SendCount(s) \/ SendUser(s)

Next ==
    \/ \E c \in Conns :
        Insert(c) \/ Write(c) \/ Drained(c) \/ Disconnect(c) \/ Remove(c)
    \/ \E s \in Senders :
        Send(s) \/ \E u \in Users : SendGet(s, u)

Spec == Init /\ [][Next]_vars

\* A thread inside an operation goes on, and gets a lock that stays free; the
\* runtime polls the send task of an open connection, whose writes take no longer
\* than SEND_TIMEOUT.  Nothing makes a client come or go, a message arrive, or the
\* close of a socket end.
Fairness ==
    /\ \A c \in Conns : WF_vars(Remove(c)) /\ WF_vars(Write(c)) /\ WF_vars(Drained(c))
    /\ \A s \in Senders : WF_vars(Send(s))

FairSpec == Spec /\ Fairness

-----------------------------------------------------------------------------
(* Properties *)

\* The connection's own guard is removing it, or a sender is evicting it.
Cause(c) == pc[c] = "conns" \/ \E s \in Senders : c \in stale[s]

\* The garbage collection of user entries (connection/mod.rs:102 and :164)
\* never takes a connection with it, although the test for emptiness and the
\* removal are under different guards.
UserGcSafe == [][\A c \in conns \ conns' : tenantMap' => Cause(c)]_vars

\* No collection at all, the one of the tenant's entry included, takes a
\* connection with it ("garbage-collects empty user and tenant maps").
GcSafe == [][\A c \in conns \ conns' : Cause(c)]_vars

\* A connection that is over is not in the registry, whoever removed it and
\* whichever early return its guard took.
GoneIsUnregistered == \A c \in Conns : life[c] = "gone" => c \notin conns

\* When no operation is under way, a user with an entry has a connection: the
\* collections of two tasks that removed the last connections together do not
\* both leave the entry to the other.
NoEmptyUser ==
    (\A p \in Tasks : pc[p] = "idle") => \A u \in users : ConnsOf(u) # {}

\* A channel that refused a message of a sender takes no later one from it:
\* what a slow client has received from a sender has no gap.
NoGap ==
    [][\A c \in Conns, s \in Senders :
          s \in missed[c] => queue'[c] # Append(queue[c], s)]_vars

\* How much of its operation a task has still to do: the places it has still to
\* come to, the connections still to be visited, and the stale ones to be evicted.
Rank(p) ==
    CASE pc[p] = "idle" -> 0
      [] pc[p] = "tenant" -> 1
      [] pc[p] = "users" -> 2
      [] pc[p] = "user" -> 3
      [] pc[p] = "count" -> 4
      [] pc[p] = "conns" /\ p \in Conns -> 5
      [] pc[p] = "conns" /\ p \in Senders ->
            5 + 2 * Cardinality(ToVisit(p)) + Cardinality(stale[p])

\* What only the task itself changes.
Local(p) == IF p \in Senders THEN <<pc[p], visited[p], stale[p]>> ELSE <<pc[p]>>

\* Whatever connects, disconnects or is collected around it, an operation has
\* never more to do than before, and less after each step of its own: the
\* iteration over a user's connections, for one, does not chase new arrivals.
OpsAdvance ==
    [][\A p \in Tasks : pc[p] # "idle" =>
          /\ Rank(p)' <= Rank(p)
          /\ Local(p)' # Local(p) => Rank(p)' < Rank(p)]_vars

\* Every operation ends: the guards are never waited for in a cycle.
OpsComplete == \A p \in Tasks : pc[p] # "idle" ~> pc[p] = "idle"

\* A connection that the registry dropped does not stay open: its send task comes to
\* the close of the socket, or the connection is over and its guard has run.  Only
\* a close that hangs can keep it (see EvictedEnds in ConnectionTasks).
DroppedEnds ==
    \A c \in Conns : (life[c] = "open" /\ c \notin conns) ~> life[c] \in {"shutting", "gone"}
=============================================================================
