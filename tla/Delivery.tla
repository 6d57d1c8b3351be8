------------------------------ MODULE Delivery ------------------------------
(***************************************************************************)
(* A message on its way from a client to the others and into storage:      *)
(* handle_text_message and persist_message (server/ws.rs), PUBLISH and the *)
(* listener of every node (redis/mod.rs), and the fan-out of the registry  *)
(* (connection/mod.rs), for several nodes and tenants.                     *)
(*                                                                         *)
(* Every listener subscribes to the channels of all users and groups of    *)
(* all tenants, so that each PUBLISH reaches every listener that is on,    *)
(* and it is the tenant and the channel_id in the message that route it.   *)
(* A message is an entry of the log sent, and its message_id the index.    *)
(*                                                                         *)
(* A connection handles one command at a time, and awaits (pc)             *)
(*   publish  the first PUBLISH        echo  the second one of a DM        *)
(*   persist  Kafka, or the INSERT                                         *)
(* The end of the connection aborts it there.  A call to Redis that fails  *)
(* or is aborted may still be on its way (adrift), to land later or never. *)
(*                                                                         *)
(* The statements of the group commands are in GroupMembership, the locks  *)
(* and the bound of the channels in ConnectionRegistry, and what becomes   *)
(* of a stored message in KafkaPersistence: an operation of the registry   *)
(* is one step here, and a connection that is evicted counts as gone.      *)
(***************************************************************************)
EXTENDS Naturals, Sequences, FiniteSets

CONSTANTS
    Nodes, Tenants, Names,   \* a user is a name within a tenant
    Groups, General,
    Conns,                   \* connection slots
    TenantOf, NameOf, NodeOf,
    Speakers,                \* bound: the connections whose clients send
    MaxCommands,             \* bound on what they send
    MaxFaults                \* bound on what ends or fails: connections, calls,
                             \* listeners, nodes

ASSUME IdentityAssumption ==
    /\ TenantOf \in [Conns -> Tenants] /\ NameOf \in [Conns -> Names]
    /\ NodeOf \in [Conns -> Nodes]
    /\ General \in Groups /\ Speakers \subseteq Conns
ASSUME BoundAssumption == MaxCommands \in Nat /\ MaxFaults \in Nat

VARIABLES
    members,    \* groups of each node's registry: tenant, group and user
    listener,   \* of each node: not subscribed yet, on, or ended for good
    inbox,      \* what Redis has sent to each listener, as indexes of sent
    sent,       \* the messages handlers have made
    adrift,     \* PUBLISH calls without reply that may still be carried out
    stored,     \* the messages that are in the topic, or in the table
    pc, cur,    \* the handler of each connection, and its message (0: none)
    got,        \* what was put into the connection's channel (0: a refusal)
    commands, faults,
    due,        \* history: the messages that a connection is to get
    strays,     \* history: messages with a PUBLISH that failed or was aborted
    cut         \* history: messages whose handler failed to persist, or was aborted

redis == <<listener, inbox, adrift>>
handler == <<pc, cur>>
vars == <<members, redis, sent, stored, handler, got, commands, faults, due, strays, cut>>

Groupish == {"chat", "join", "leave", "create"}
Messages ==
    [kind : {"dm"}, tenant : Tenants, to : Names, sender : Conns]
        \cup [kind : Groupish, tenant : Tenants, to : Groups, sender : Conns]
Ids == 1 .. Len(sent)
Calls == {"publish", "echo"}

TypeOK ==
    /\ members \in [Nodes -> SUBSET (Tenants \X Groups \X Names)]
    /\ listener \in [Nodes -> {"starting", "on", "ended"}]
    /\ inbox \in [Nodes -> Seq(Ids)]
    /\ sent \in Seq(Messages)
    /\ adrift \subseteq Ids \X Calls
    /\ stored \subseteq Ids
    /\ pc \in [Conns -> {"off", "idle", "persist"} \cup Calls]
    /\ cur \in [Conns -> Ids \cup {0}]
    /\ \A c \in Conns : cur[c] = 0 <=> pc[c] \in {"off", "idle"}
    /\ got \in [Conns -> Seq(Ids \cup {0})]
    /\ commands \in 0 .. MaxCommands /\ faults \in 0 .. MaxFaults
    /\ due \in [Conns -> SUBSET Ids]
    /\ strays \subseteq Ids /\ cut \subseteq Ids

Init ==
    /\ members = [n \in Nodes |-> {}]
    /\ listener = [n \in Nodes |-> "on"]
    /\ inbox = [n \in Nodes |-> << >>]
    /\ sent = << >> /\ adrift = {} /\ stored = {}
    /\ pc = [c \in Conns |-> "off"]
    /\ cur = [c \in Conns |-> 0]
    /\ got = [c \in Conns |-> << >>]
    /\ commands = 0 /\ faults = 0
    /\ due = [c \in Conns |-> {}] /\ strays = {} /\ cut = {}

Fault ==
    /\ faults < MaxFaults
    /\ faults' = faults + 1

-----------------------------------------------------------------------------
(* The registry *)

Membership(c, g) == <<TenantOf[c], g, NameOf[c]>>

\* Mutant: the tenant of the message is not looked at.
DevicesAnyTenant(n, t, u) ==
    {c \in Conns : NodeOf[c] = n /\ pc[c] # "off" /\ NameOf[c] = u}

\* The devices of a user on node n.
Devices(n, t, u) ==
    {c \in Conns : NodeOf[c] = n /\ pc[c] # "off" /\ TenantOf[c] = t /\ NameOf[c] = u}

\* send_msg_to_group, given the members of groups.
GroupDevices(n, t, g, all) ==
    {c \in Conns : NodeOf[c] = n /\ pc[c] # "off" /\ TenantOf[c] = t /\ <<t, g, NameOf[c]>> \in all}

Put(C, i) == got' = [c \in Conns |-> IF c \in C THEN Append(got[c], i) ELSE got[c]]

-----------------------------------------------------------------------------
(* Connections *)

\* handle_socket: the sender goes into the registry, and the user into "general".
Connect(c) ==
    /\ pc[c] = "off"
    /\ pc' = [pc EXCEPT ![c] = "idle"]
    /\ members' = [members EXCEPT ![NodeOf[c]] = @ \cup {Membership(c, General)}]
    /\ UNCHANGED <<redis, sent, stored, cur, got, commands, faults, due, strays, cut>>

\* The connections C end, and each handler is aborted at its await: what it
\* was asking for may have been done, be done later, or not at all.
End(C) ==
    LET at(calls) == {c \in C : pc[c] \in calls}
        open == {<<cur[c], pc[c]>> : c \in at(Calls)}
    IN  /\ \E landing \in SUBSET open : adrift' = adrift \cup landing
        /\ \E done \in SUBSET {cur[c] : c \in at({"persist"})} : stored' = stored \cup done
        /\ strays' = strays \cup {cur[c] : c \in at(Calls)}
        /\ cut' = cut \cup {cur[c] : c \in at(Calls \cup {"persist"})}
        /\ pc' = [c \in Conns |-> IF c \in C THEN "off" ELSE pc[c]]
        /\ cur' = [c \in Conns |-> IF c \in C THEN 0 ELSE cur[c]]
        /\ got' = [c \in Conns |-> IF c \in C THEN << >> ELSE got[c]]
        /\ due' = [c \in Conns |-> IF c \in C THEN {} ELSE due[c]]

Disconnect(c) ==
    /\ pc[c] # "off"
    /\ Fault
    /\ End({c})
    /\ UNCHANGED <<members, listener, inbox, sent, commands>>

-----------------------------------------------------------------------------
(* Commands *)

Ask(c) ==
    /\ pc[c] = "idle" /\ c \in Speakers
    /\ commands < MaxCommands
    /\ commands' = commands + 1

\* The handler makes a message and is about to publish it.
Begin(c, kind, to) ==
    /\ sent' = Append(sent, [kind |-> kind, tenant |-> TenantOf[c], to |-> to, sender |-> c])
    /\ cur' = [cur EXCEPT ![c] = Len(sent) + 1]
    /\ pc' = [pc EXCEPT ![c] = "publish"]
    /\ UNCHANGED got

\* The answer to a message that is too large or for a group the sender is not in
\* goes to all devices the user has on this node.
Reply(c) ==
    /\ Put(Devices(NodeOf[c], TenantOf[c], NameOf[c]), 0)
    /\ UNCHANGED <<sent, handler>>

SendDm(c, u) ==
    /\ Ask(c)
    /\ Begin(c, "dm", u)
    /\ UNCHANGED <<members, redis, stored, faults, due, strays, cut>>

SendGroup(c, g) ==
    /\ Ask(c)
    /\ IF Membership(c, g) \in members[NodeOf[c]] THEN Begin(c, "chat", g) ELSE Reply(c)
    /\ UNCHANGED <<members, redis, stored, faults, due, strays, cut>>

SendTooLarge(c) ==
    /\ Ask(c)
    /\ Reply(c)
    /\ UNCHANGED <<members, redis, stored, faults, due, strays, cut>>

\* What the users U of a node are no longer to get.
NotDue(n, t, g, U) ==
    [c \in Conns |-> IF NodeOf[c] = n /\ TenantOf[c] = t /\ NameOf[c] \in U
                     THEN {i \in due[c] : sent[i].kind = "dm" \/ sent[i].to # g}
                     ELSE due[c]]

\* JOIN, LEAVE and CREATE change the registry, and tell the group.
GroupCommand(c, op, g) ==
    LET n == NodeOf[c]
    IN  /\ Ask(c)
        /\ Begin(c, op, g)
        /\ members' = [members EXCEPT ![n] =
                        IF op = "leave" THEN @ \ {Membership(c, g)} ELSE @ \cup {Membership(c, g)}]
        /\ due' = IF op = "leave" THEN NotDue(n, TenantOf[c], g, {NameOf[c]}) ELSE due
        /\ UNCHANGED <<redis, stored, faults, strays, cut>>

\* DELETE drops the group from this node's registry, and tells nobody.
DeleteGroup(c, g) ==
    LET n == NodeOf[c]
    IN  /\ Ask(c)
        /\ members' = [members EXCEPT ![n] = @ \ ({TenantOf[c]} \X {g} \X Names)]
        /\ due' = NotDue(n, TenantOf[c], g, Names)
        /\ UNCHANGED <<redis, sent, stored, handler, got, faults, strays, cut>>

-----------------------------------------------------------------------------
(* PUBLISH *)

\* A join of the user to the group waits in the inbox.
Announced(box, t, g, u) ==
    \E k \in 1 .. Len(box) :
        LET m == sent[box[k]]
        IN  m.kind = "join" /\ m.tenant = t /\ m.to = g /\ NameOf[m.sender] = u

\* Whom message i is for, on node n whose listener has box to read.
Addressed(n, i, box) ==
    LET m == sent[i]
    IN  IF m.kind = "dm"
        THEN Devices(n, m.tenant, m.to)
        ELSE {c \in Conns :
                /\ NodeOf[c] = n /\ pc[c] # "off" /\ TenantOf[c] = m.tenant
                /\ \/ Membership(c, m.to) \in members[n]
                   \/ Announced(box, m.tenant, m.to, NameOf[c])}

\* Redis carries PUBLISH out: every listener that is on gets the message.
Broadcast(i) ==
    /\ inbox' = [n \in Nodes |-> IF listener[n] = "on" THEN Append(inbox[n], i) ELSE inbox[n]]
    /\ due' = [c \in Conns |->
                IF listener[NodeOf[c]] = "on" /\ c \in Addressed(NodeOf[c], i, inbox'[NodeOf[c]])
                THEN due[c] \cup {i} ELSE due[c]]
    /\ UNCHANGED <<members, listener, sent, stored, got, commands>>

\* Where the handler goes from a PUBLISH, answered or failed: group commands
\* store nothing.
AfterCall(c) ==
    LET m == sent[cur[c]]
        goto(l) == pc' = [pc EXCEPT ![c] = l]
    IN  IF m.kind = "dm" /\ pc[c] = "publish" THEN goto("echo") /\ UNCHANGED cur
        ELSE IF m.kind \in {"dm", "chat"} THEN goto("persist") /\ UNCHANGED cur
        ELSE goto("idle") /\ cur' = [cur EXCEPT ![c] = 0]

Publish(c) ==
    /\ pc[c] \in Calls
    /\ Broadcast(cur[c])
    /\ AfterCall(c)
    /\ UNCHANGED <<adrift, faults, strays, cut>>

\* The call fails, which is logged.
FailCall(c) ==
    /\ pc[c] \in Calls
    /\ Fault
    /\ \/ adrift' = adrift \cup {<<cur[c], pc[c]>>}
       \/ UNCHANGED adrift
    /\ strays' = strays \cup {cur[c]}
    /\ UNCHANGED <<members, listener, inbox, sent, stored, got, commands, due, cut>>

\* Mutants: the call is tried again; the handler returns, as with a SELECT.
PublishErrorRetry(c) == FailCall(c) /\ UNCHANGED handler
PublishErrorReturn(c) ==
    /\ FailCall(c)
    /\ pc' = [pc EXCEPT ![c] = "idle"] /\ cur' = [cur EXCEPT ![c] = 0]

PublishError(c) == FailCall(c) /\ AfterCall(c)

\* A call that was given up is carried out.
Land(call) ==
    /\ call \in adrift
    /\ adrift' = adrift \ {call}
    /\ Broadcast(call[1])
    /\ UNCHANGED <<handler, faults, strays, cut>>

-----------------------------------------------------------------------------
(* persist_message *)

Finish(c) == pc' = [pc EXCEPT ![c] = "idle"] /\ cur' = [cur EXCEPT ![c] = 0]

Persist(c) ==
    /\ pc[c] = "persist"
    /\ stored' = stored \cup {cur[c]}
    /\ Finish(c)
    /\ UNCHANGED <<members, redis, sent, got, commands, faults, due, strays, cut>>

\* Kafka or the INSERT fails, whatever came of it.  The error is logged, and the
\* message kept nowhere: the batcher that buffers it again goes with the call.
PersistError(c) ==
    /\ pc[c] = "persist"
    /\ Fault
    /\ \/ stored' = stored \cup {cur[c]}
       \/ UNCHANGED stored
    /\ cut' = cut \cup {cur[c]}
    /\ Finish(c)
    /\ UNCHANGED <<members, redis, sent, got, commands, due, strays>>

-----------------------------------------------------------------------------
(* The listener *)

\* Message i is applied and fanned out, and box is left to read.  A join is
\* applied first, if this listener does so, and then told to the group.
Handle(n, i, box, joins) ==
    LET m == sent[i]
        all == IF m.kind = "join" /\ joins
               THEN members[n] \cup {<<m.tenant, m.to, NameOf[m.sender]>>} ELSE members[n]
    IN  /\ members' = [members EXCEPT ![n] = all]
        /\ Put(IF m.kind = "dm" THEN Devices(n, m.tenant, m.to)
               ELSE GroupDevices(n, m.tenant, m.to, all), i)
        /\ inbox' = [inbox EXCEPT ![n] = box]
        /\ UNCHANGED <<listener, sent, adrift, stored, handler, commands, faults, due, strays, cut>>

\* Mutants: joins are only fanned out; messages are handled in tasks of their
\* own.
ListenNoJoin(n) ==
    LET box == inbox[n] IN box # << >> /\ Handle(n, Head(box), Tail(box), FALSE)
ListenAny(n) ==
    LET box == inbox[n]
    IN  \E k \in 1 .. Len(box) :
            Handle(n, box[k], SubSeq(box, 1, k - 1) \o SubSeq(box, k + 1, Len(box)), TRUE)

Listen(n) ==
    LET box == inbox[n] IN box # << >> /\ Handle(n, Head(box), Tail(box), TRUE)

\* The connection to Redis ends, and the listener with it: for good.
ListenerEnd(n) ==
    /\ listener[n] # "ended"
    /\ Fault
    /\ listener' = [listener EXCEPT ![n] = "ended"]
    /\ inbox' = [inbox EXCEPT ![n] = << >>]
    /\ UNCHANGED <<members, sent, adrift, stored, handler, got, commands, due, strays, cut>>

-----------------------------------------------------------------------------
(* The process *)

\* The node stops or crashes, and starts again: it takes connections while its
\* listener is still about to subscribe.
Restart(n) ==
    /\ Fault
    /\ End({c \in Conns : NodeOf[c] = n})
    /\ members' = [members EXCEPT ![n] = {}]
    /\ inbox' = [inbox EXCEPT ![n] = << >>]
    /\ listener' = [listener EXCEPT ![n] = "starting"]
    /\ UNCHANGED <<sent, commands>>

Subscribe(n) ==
    /\ listener[n] = "starting"
    /\ listener' = [listener EXCEPT ![n] = "on"]
    /\ UNCHANGED <<members, inbox, adrift, sent, stored, handler, got, commands, faults, due, strays, cut>>

Next ==
    \/ \E c \in Conns :
        \/ Connect(c) \/ Disconnect(c)
        \/ SendTooLarge(c) \/ \E u \in Names : SendDm(c, u)
        \/ \E g \in Groups :
            \/ SendGroup(c, g) \/ DeleteGroup(c, g)
            \/ \E op \in {"join", "leave", "create"} : GroupCommand(c, op, g)
        \/ Publish(c) \/ PublishError(c) \/ Persist(c) \/ PersistError(c)
    \/ \E call \in adrift : Land(call)
    \/ \E n \in Nodes : Listen(n) \/ ListenerEnd(n) \/ Restart(n) \/ Subscribe(n)

Spec == Init /\ [][Next]_vars

\* The runtime polls a listener that has something to read.  Nothing is asked
\* of handlers, which a client may end, or of Redis.
Fairness == \A n \in Nodes : WF_vars(Listen(n))

FairSpec == Spec /\ Fairness

-----------------------------------------------------------------------------
(* Properties *)

Copies(c, i) == {k \in 1 .. Len(got[c]) : got[c][k] = i}

\* A DM comes twice, from the recipient's channel and from the sender's, both
\* of which every listener reads; anything else comes once.  No failure, retry
\* or reconnection of the code makes more of it: a client that drops repeated
\* message_ids has to remember one.
NoMoreCopies ==
    \A c \in Conns : \A i \in Ids :
        Cardinality(Copies(c, i)) <= IF sent[i].kind = "dm" THEN 2 ELSE 1

\* The tenants share the listeners, and groups of one name the Redis channel
\* ("group:{id}" in publish_grp), and DMs of one pair of names their channels:
\* nobody gets a message of another tenant, nor a DM between two others.  That
\* its sender gets it is allowed here, and asked for by the docs.
TenantsApart ==
    \A c \in Conns : \A i \in Ids : Copies(c, i) # {} =>
        /\ sent[i].tenant = TenantOf[c]
        /\ sent[i].kind = "dm" => NameOf[c] \in {sent[i].to, NameOf[sent[i].sender]}

\* What one connection sends comes to every device in the order it was sent
\* in, the second copy of a DM before the next message, over whatever nodes it
\* goes; except for messages with a PUBLISH that failed and was done after all.
InOrder ==
    \A c \in Conns : \A i, j \in Ids \ strays :
        i < j /\ sent[i].sender = sent[j].sender =>
            \A k \in Copies(c, i), l \in Copies(c, j) : k < l

\* Device c was given message i before message j.
HeardBefore(c, i, j) ==
    \E k, l \in 1 .. Len(got[c]) : k < l /\ got[c][k] = i /\ got[c][l] = j

GroupIds == {i \in Ids : sent[i].kind # "dm"}

\* A group has one conversation, whoever looks at it and from whichever node:
\* no two devices are given two of its messages in different orders, those of
\* different senders and calls that were given up and carried out later
\* included.
SameOrder ==
    \A c, d \in Conns : \A i, j \in GroupIds : HeardBefore(c, i, j) => ~HeardBefore(d, j, i)

\* A message Redis carried out is in the channel of every device it is for, or
\* on its way there: the devices of a recipient connected then, and those of
\* users who were in the group on that node or whose join was announced before
\* it; until the device goes, or the node handles a LEAVE or DELETE.
ReachesDevices ==
    \A c \in Conns : listener[NodeOf[c]] = "on" =>
        \A i \in due[c] :
            \/ Copies(c, i) # {}
            \/ \E k \in 1 .. Len(inbox[NodeOf[c]]) : inbox[NodeOf[c]][k] = i

\* The same as a promise: again and again everything that Redis carried out has
\* got to whom it is for.
Delivered ==
    []<>(\A c \in Conns : listener[NodeOf[c]] = "on" =>
            \A i \in due[c] : Copies(c, i) # {})

\* A handler that came to its end has stored its message, whether or not Redis
\* took it; only an error of the store itself, or the end of the connection,
\* leaves a message that others may have got out of the history.
StoredUnlessCut ==
    \A i \in Ids : sent[i].kind \in {"dm", "chat"} =>
        i \in stored \cup cut \/ \E c \in Conns : cur[c] = i

=============================================================================
