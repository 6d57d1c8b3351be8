--------------------------- MODULE GroupMembership ---------------------------
(***************************************************************************)
(* Who is in which group: the groups map of each node's registry           *)
(* (connection/mod.rs), the tables groups and group_members in Postgres,   *)
(* and the group commands of handle_text_message (server/ws.rs) that       *)
(* change them and tell the other nodes through Redis, whose listener      *)
(* (redis/mod.rs) runs on every node; and migration 003, which fills both  *)
(* tables from stored messages at every start.  One tenant.                *)
(*                                                                         *)
(* A connection handles its commands one at a time; a step is what happens *)
(* between two awaits, and the statement or PUBLISH an await stands for is *)
(* a step of its own.  The end of the connection aborts the handler at     *)
(* whichever await it has reached (pc):                                    *)
(*   off     no connection          idle    waits for a command            *)
(*   join    JOIN looks the group up                                       *)
(*   create  CREATE inserts or updates the group                           *)
(*   leave   LEAVE is about to delete the row                              *)
(*   insert  the member's row is about to be inserted                      *)
(*   add, remove  about to change the node's registry                      *)
(*   publish about to publish the event                                    *)
(* A statement or PUBLISH that failed or was aborted may still be on its   *)
(* way (adrift), to be carried out at any later time, or never.            *)
(*                                                                         *)
(* A group with an entry and no member and one without entry answer every  *)
(* operation alike, so the registry is the set of members of each group.   *)
(***************************************************************************)
EXTENDS Naturals, Sequences, FiniteSets

CONSTANTS
    Nodes, Users,
    Conns,         \* connection slots
    UserOf,        \* [Conns -> Users]
    NodeOf,        \* [Conns -> Nodes]
    Groups,        \* names of groups
    General,       \* "general"
    Convs,         \* conversation ids: Uuids
    Parse,         \* the Uuid that a name is a spelling of, or NoConv
    Ids,           \* what Uuid::new_v4 returns, each once: bounds the creations
    NoConv,        \* no conversation id
    MaxCommands,   \* bound on commands
    MaxFaults      \* bound on restarts, ends of listeners, failures, and calls
                   \* that are carried out after they were given up

ASSUME NameAssumption ==
    /\ UserOf \in [Conns -> Users] /\ NodeOf \in [Conns -> Nodes]
    /\ Parse \in [Groups -> Convs \cup {NoConv}]
    /\ General \in Groups /\ Parse[General] = NoConv
ASSUME IdAssumption == Ids \subseteq Convs /\ NoConv \notin Convs
ASSUME BoundAssumption == MaxCommands \in Nat /\ MaxFaults \in Nat

VARIABLES
    members,    \* groups of each node's registry
    inbox,      \* the events Redis has sent to each node's listener
    listener,   \* of each node: not subscribed yet, on, or ended for good
    convOf,     \* table groups: the conversation_id of each name
    rows,       \* table group_members: pairs of a conversation_id and a user
    chats,      \* group messages that were sent: a conversation_id, group and sender
    spare,      \* Ids not drawn yet
    pc, cmd,    \* the handler of each connection, and its command
    conv,       \* its conversation_id
    adrift,     \* statements and PUBLISHes given up that may still be carried out
    commands, faults,
    due,        \* history: joins published while node n listened, not undone there
    left,       \* history: LEAVEs, with their nodes, that no other command of the
                \* user about the group overlapped or followed, nor a late join undid
    waived      \* history: groups and users whose row was refused, or deleted, and
                \* not made since

db == <<convOf, rows, chats, spare>>
handler == <<pc, cmd, conv>>
redis == <<inbox, listener>>
history == <<due, left, waived>>
vars == <<members, redis, db, handler, adrift, commands, faults, history>>

Memberships == Groups \X Users
Ops == {"join", "leave", "create"}

\* A ServerMessage: its msg_type is group_join, group_leave or group_created.
Events == [kind : Ops, group : Groups, user : Users]
Commands == [op : Ops, group : Groups]
NoCommand == [op |-> "none", group |-> General]
PCs == {"off", "idle"} \cup Ops \cup {"insert", "add", "remove", "publish"}

\* The awaits whose statement or PUBLISH changes something; a call that was given
\* up keeps what its handler had, and the fault it was tells it from others.
Awaits == {"create", "leave", "insert", "publish"}
Calls == [conn : Conns, at : 0 .. MaxFaults, pc : Awaits, cmd : Commands,
          conv : Convs \cup {NoConv}]

TypeOK ==
    /\ members \in [Nodes -> [Groups -> SUBSET Users]]
    /\ inbox \in [Nodes -> Seq(Events)]
    /\ listener \in [Nodes -> {"starting", "on", "ended"}]
    /\ convOf \in [Groups -> Convs \cup {NoConv}]
    /\ rows \subseteq Convs \X Users
    /\ chats \subseteq Convs \X Groups \X Users
    /\ spare \subseteq Ids
    /\ pc \in [Conns -> PCs]
    /\ cmd \in [Conns -> Commands \cup {NoCommand}]
    /\ \A c \in Conns : pc[c] \notin {"off", "idle"} => cmd[c] # NoCommand
    /\ conv \in [Conns -> Convs \cup {NoConv}]
    /\ \A c \in Conns : pc[c] = "insert" => conv[c] # NoConv
    /\ adrift \subseteq Calls /\ \A k \in adrift : k.pc = "insert" => k.conv # NoConv
    /\ commands \in 0 .. MaxCommands
    /\ faults \in 0 .. MaxFaults
    /\ due \in [Nodes -> SUBSET Memberships]
    /\ left \subseteq Nodes \X Memberships
    /\ waived \subseteq Memberships

Init ==
    /\ members = [n \in Nodes |-> [g \in Groups |-> {}]]
    /\ inbox = [n \in Nodes |-> << >>]
    /\ listener = [n \in Nodes |-> "on"]
    /\ convOf = [g \in Groups |-> NoConv]
    /\ rows = {} /\ chats = {} /\ spare = Ids
    /\ pc = [c \in Conns |-> "off"]
    /\ cmd = [c \in Conns |-> NoCommand]
    /\ conv = [c \in Conns |-> NoConv]
    /\ adrift = {}
    /\ commands = 0 /\ faults = 0
    /\ due = [n \in Nodes |-> {}] /\ left = {} /\ waived = {}

Goto(c, l) == pc' = [pc EXCEPT ![c] = l]

\* The handler returns or is dropped, and its locals with it.
Return(c, l) ==
    /\ Goto(c, l)
    /\ cmd' = [cmd EXCEPT ![c] = NoCommand]
    /\ conv' = [conv EXCEPT ![c] = NoConv]

Fault ==
    /\ faults < MaxFaults
    /\ faults' = faults + 1

\* What the command of connection c is about.
Subject(c) == <<cmd[c].group, UserOf[c]>>

\* What the handler of c awaits, and what a call is about.
Call(c) == [conn |-> c, at |-> faults, pc |-> pc[c], cmd |-> cmd[c], conv |-> conv[c]]
About(k) == <<k.cmd.group, UserOf[k.conn]>>

\* The handlers of connections C give up what they await: some of it may still
\* be carried out.
GiveUp(C) ==
    \E late \in SUBSET {Call(c) : c \in {d \in C : pc[d] \in Awaits}} : adrift' = adrift \cup late

\* A command of user u about group g is under way.
Busy(g, u) == \E c \in Conns : pc[c] \notin {"off", "idle"} /\ Subject(c) = <<g, u>>

\* What is left of the history when the user is about to be in the group again,
\* or the LEAVE is cut off.
LeftWithout(g, u) == left \ (Nodes \X {<<g, u>>})

-----------------------------------------------------------------------------
(* The registry *)

JoinGroup(n, g, u) == members' = [members EXCEPT ![n][g] = @ \cup {u}]
LeaveGroup(n, g, u) == members' = [members EXCEPT ![n][g] = @ \ {u}]

IsJoin(e) == e.kind = "join"

\* Join events for group g and user u wait at node n.
Announced(n, g, u) ==
    \E i \in 1 .. Len(inbox[n]) :
        IsJoin(inbox[n][i]) /\ inbox[n][i].group = g /\ inbox[n][i].user = u

-----------------------------------------------------------------------------
(* Connections *)

\* handle_socket puts the user into "general", on this node only.
Connect(c) ==
    /\ pc[c] = "off"
    /\ Goto(c, "idle")
    /\ JoinGroup(NodeOf[c], General, UserOf[c])
    /\ left' = LeftWithout(General, UserOf[c])
    /\ UNCHANGED <<redis, db, cmd, conv, adrift, commands, faults, due, waived>>

\* The end of either task of the connection aborts the other at its await.
Disconnect(c) ==
    /\ pc[c] # "off"
    /\ Return(c, "off")
    /\ \/ UNCHANGED <<adrift, faults>>
       \/ Fault /\ GiveUp({c})
    /\ left' = IF pc[c] = "idle" THEN left ELSE LeftWithout(cmd[c].group, UserOf[c])
    /\ UNCHANGED <<members, redis, db, commands, due, waived>>

\* What clients may write: any name but an id that was not drawn yet.
Known(g) == Parse[g] \notin spare

\* The client sends JOIN, LEAVE or CREATE.
Command(c, op, g) ==
    /\ pc[c] = "idle" /\ Known(g)
    /\ commands < MaxCommands
    /\ commands' = commands + 1
    /\ cmd' = [cmd EXCEPT ![c] = [op |-> op, group |-> g]]
    /\ Goto(c, op)
    /\ left' = IF op = "leave" /\ ~Busy(g, UserOf[c])
               THEN left \cup {<<NodeOf[c], <<g, UserOf[c]>>>>}
               ELSE LeftWithout(g, UserOf[c])
    /\ UNCHANGED <<members, redis, db, conv, adrift, faults, due, waived>>

\* The client sends DELETE: the group is dropped on this node, and nowhere else.
DeleteGroup(c, g) ==
    /\ pc[c] = "idle" /\ Known(g)
    /\ commands < MaxCommands
    /\ commands' = commands + 1
    /\ members' = [members EXCEPT ![NodeOf[c]][g] = {}]
    /\ due' = [due EXCEPT ![NodeOf[c]] = @ \ ({g} \X Users)]
    /\ UNCHANGED <<redis, db, handler, adrift, faults, left, waived>>

\* The Uuid the name is a spelling of, or a new one.
NewConv(g) == IF Parse[g] # NoConv THEN {Parse[g]} ELSE spare

\* The client sends a message to a group the user is in, and the message gets a
\* conversation_id without looking the group up.  Its way is in Delivery.
Chat(c, g, id) ==
    /\ pc[c] = "idle"
    /\ commands < MaxCommands
    /\ commands' = commands + 1
    /\ UserOf[c] \in members[NodeOf[c]][g]
    /\ id \in NewConv(g)
    /\ chats' = chats \cup {<<id, g, UserOf[c]>>}
    /\ spare' = spare \ {id}
    /\ UNCHANGED <<members, redis, convOf, rows, handler, adrift, faults, history>>

-----------------------------------------------------------------------------
(* The tables *)

\* What is known to have no row: the memberships M, and those that had none before.
Waive(M) == waived' = {m \in waived \cup M : <<convOf'[m[1]], m[2]>> \notin rows'}

\* The foreign key: a member's row needs a group with its conversation_id.
InsertRow(k) ==
    rows' = IF \E g \in Groups : convOf[g] = k.conv
            THEN rows \cup {<<k.conv, UserOf[k.conn]>>} ELSE rows

\* The Uuid of a name that is none is a new one, and no row has it.  The row may
\* be that of a group with another name, whose id this name is a spelling of.
DeleteRow(k) ==
    LET id == Parse[k.cmd.group]
        u == UserOf[k.conn]
    IN  /\ rows' = rows \ {<<id, u>>}
        /\ Waive({<<h, u>> : h \in {h \in Groups : convOf[h] = id /\ <<id, u>> \in rows}})

\* Mutant: a conversation_id may be that of several groups.
RefusedByMembers(g, id) == id # convOf[g] /\ \E u \in Users : <<convOf[g], u>> \in rows

\* What refuses the upsert of group g with a conversation_id: the primary key, if
\* another group has it; the foreign key, while members refer to the old one.
Refused(g, id) ==
    \/ \E h \in Groups \ {g} : convOf[h] = id
    \/ id # convOf[g] /\ \E u \in Users : <<convOf[g], u>> \in rows

SetConv(g, id) ==
    /\ convOf' = [convOf EXCEPT ![g] = id]
    /\ spare' = spare \ {id}

-----------------------------------------------------------------------------
(* JOIN *)

Exists(c) == convOf[cmd[c].group] # NoConv

JoinSelect(c) ==
    /\ pc[c] = "join"
    /\ IF Exists(c)
       THEN /\ conv' = [conv EXCEPT ![c] = convOf[cmd[c].group]]
            /\ Goto(c, "insert")
            /\ UNCHANGED cmd
       ELSE Return(c, "idle")
    /\ UNCHANGED <<members, redis, db, adrift, commands, faults, history>>

\* A refusal is logged, and the command goes on.  A row that is inserted is not
\* the group's if a CREATE has given the group another id since.
InsertMember(c) ==
    /\ pc[c] = "insert"
    /\ InsertRow(Call(c))
    /\ Goto(c, "add")
    /\ UNCHANGED <<members, redis, convOf, chats, spare, cmd, conv, adrift, commands, faults, due, left>>
    /\ Waive({Subject(c)})

RegistryJoin(c) ==
    /\ pc[c] = "add"
    /\ JoinGroup(NodeOf[c], cmd[c].group, UserOf[c])
    /\ Goto(c, "publish")
    /\ UNCHANGED <<redis, db, cmd, conv, adrift, commands, faults, history>>

-----------------------------------------------------------------------------
(* CREATE; its last steps are those of JOIN *)

\* The upsert gives the name its new conversation_id; one that is refused ends
\* the command.
Upsert(c, id) ==
    LET g == cmd[c].group
    IN  /\ pc[c] = "create"
        /\ id \in NewConv(g)
        /\ IF Refused(g, id)
           THEN Return(c, "idle") /\ UNCHANGED <<convOf, spare>>
           ELSE /\ SetConv(g, id)
                /\ conv' = [conv EXCEPT ![c] = id]
                /\ Goto(c, "insert")
                /\ UNCHANGED cmd
        /\ UNCHANGED <<members, redis, rows, chats, adrift, commands, faults, history>>

-----------------------------------------------------------------------------
(* LEAVE *)

LeaveDelete(c) ==
    /\ pc[c] = "leave"
    /\ Goto(c, "remove")
    /\ UNCHANGED <<members, redis, convOf, chats, spare, cmd, conv, adrift, commands, faults, due, left>>
    /\ DeleteRow(Call(c))

\* A join of the user that the node's own listener has yet to take undoes it.
RegistryLeave(c) ==
    LET n == NodeOf[c]
        g == cmd[c].group
    IN  /\ pc[c] = "remove"
        /\ LeaveGroup(n, g, UserOf[c])
        /\ Goto(c, "publish")
        /\ due' = [due EXCEPT ![n] = @ \ {Subject(c)}]
        /\ left' = IF Announced(n, g, UserOf[c]) THEN left \ {<<n, Subject(c)>>} ELSE left
        /\ UNCHANGED <<redis, db, cmd, conv, adrift, commands, faults, waived>>

-----------------------------------------------------------------------------
(* The database and Redis *)

\* A statement fails: a SELECT or an upsert ends the command, the others are
\* logged.  It may have been carried out, or be carried out later.
DbError(c) ==
    /\ Fault
    /\ GiveUp({c})
    /\ UNCHANGED <<members, redis, db, commands, due, left>>
    /\ \/ /\ pc[c] \in {"join", "create"}
          /\ Return(c, "idle")
          /\ UNCHANGED waived
       \/ /\ pc[c] = "insert"
          /\ Goto(c, "add")
          /\ Waive({Subject(c)})
          /\ UNCHANGED <<cmd, conv>>
       \/ /\ pc[c] = "leave"
          /\ Goto(c, "remove")
          /\ UNCHANGED <<cmd, conv, waived>>

Event(k) == [kind |-> k.cmd.op, group |-> k.cmd.group, user |-> UserOf[k.conn]]

\* Redis carries a PUBLISH out: every subscriber gets it, the publishing node's
\* own listener included.
Broadcast(k) ==
    /\ inbox' = [n \in Nodes |-> IF listener[n] = "on" THEN Append(inbox[n], Event(k)) ELSE inbox[n]]
    /\ due' = [n \in Nodes |-> IF k.cmd.op = "join" /\ listener[n] # "starting"
                               THEN due[n] \cup {About(k)} ELSE due[n]]

Publish(c) ==
    /\ pc[c] = "publish"
    /\ Broadcast(Call(c))
    /\ Return(c, "idle")
    /\ UNCHANGED <<members, listener, db, adrift, commands, faults, left, waived>>

\* PUBLISH fails, which is logged.
PublishError(c) ==
    /\ pc[c] = "publish"
    /\ Fault
    /\ Return(c, "idle")
    /\ GiveUp({c})
    /\ UNCHANGED <<members, redis, db, commands, history>>

-----------------------------------------------------------------------------
(* What was given up is carried out *)

Land(k, at) ==
    /\ k \in adrift /\ k.pc = at
    /\ adrift' = adrift \ {k}
    /\ UNCHANGED <<members, listener, handler, commands, faults>>

\* A join that Redis gets after the user's LEAVE undoes it where it is heard.
LandPublish(k) ==
    /\ Land(k, "publish")
    /\ Broadcast(k)
    /\ left' = {l \in left : ~(k.cmd.op = "join" /\ l[2] = About(k) /\ listener[l[1]] = "on")}
    /\ UNCHANGED <<db, waived>>

LandInsert(k) ==
    /\ Land(k, "insert")
    /\ InsertRow(k)
    /\ UNCHANGED <<inbox, convOf, chats, spare, due, left>>
    /\ Waive({})

LandDelete(k) ==
    /\ Land(k, "leave")
    /\ UNCHANGED <<inbox, convOf, chats, spare, due, left>>
    /\ DeleteRow(k)

LandUpsert(k, id) ==
    /\ Land(k, "create")
    /\ id \in NewConv(k.cmd.group)
    /\ IF Refused(k.cmd.group, id) THEN UNCHANGED <<convOf, spare>> ELSE SetConv(k.cmd.group, id)
    /\ UNCHANGED <<inbox, rows, chats, history>>

-----------------------------------------------------------------------------
(* The listener *)

\* The listener takes an event; apart from joins they are only fanned out.
ListenIf(n, sync) ==
    LET e == Head(inbox[n])
    IN  /\ inbox[n] # << >>
        /\ inbox' = [inbox EXCEPT ![n] = Tail(@)]
        /\ IF sync THEN JoinGroup(n, e.group, e.user) ELSE UNCHANGED members
        /\ UNCHANGED <<listener, db, handler, adrift, commands, faults, history>>

\* Mutants: a join is applied to a group the node knows already; every event is
\* taken for a join.
ListenKnown(n) ==
    ListenIf(n, IsJoin(Head(inbox[n])) /\ members[n][Head(inbox[n]).group] # {})
ListenAll(n) == ListenIf(n, TRUE)

Listen(n) == ListenIf(n, IsJoin(Head(inbox[n])))

\* The connection to Redis ends, the stream with it, and the task: for good.
ListenerEnd(n) ==
    /\ listener[n] # "ended"
    /\ Fault
    /\ listener' = [listener EXCEPT ![n] = "ended"]
    /\ inbox' = [inbox EXCEPT ![n] = << >>]
    /\ UNCHANGED <<members, db, handler, adrift, commands, history>>

-----------------------------------------------------------------------------
(* The process *)

\* Mutant: the upsert of CREATE, in the migration.
NamelessAnew(seen) == {g \in Groups : \E m \in seen : m[2] = g}

\* The names in messages that the table groups does not have.
Nameless(seen) == {g \in Groups : convOf[g] = NoConv /\ \E m \in seen : m[2] = g}

\* Migration 003, at every start: a name without group gets the conversation_id
\* of one of its messages, and whoever sent a message with the conversation_id of
\* a group is its member, again if need be.  The table messages has some of those
\* that were sent.  The process does not start if the primary key refuses an id.
Backfill(seen) ==
    LET ids(g) == {m[1] : m \in {m \in seen : m[2] = g}}
    IN  /\ convOf' \in {f \in [Groups -> Convs \cup {NoConv}] :
                /\ \A g \in Groups : IF g \in Nameless(seen) THEN f[g] \in ids(g) ELSE f[g] = convOf[g]
                /\ \A g, h \in Groups : f[g] = f[h] /\ f[g] # NoConv => g = h}
        /\ rows' = rows \cup
                {<<m[1], m[3]>> : m \in {m \in seen : \E g \in Groups : convOf'[g] = m[1]}}

\* The registry starts empty, and connections are taken while the listener is
\* still about to subscribe.
Restart(n) ==
    /\ Fault
    /\ GiveUp({c \in Conns : NodeOf[c] = n})
    /\ \E seen \in SUBSET chats : Backfill(seen)
    /\ members' = [members EXCEPT ![n] = [g \in Groups |-> {}]]
    /\ inbox' = [inbox EXCEPT ![n] = << >>]
    /\ listener' = [listener EXCEPT ![n] = "starting"]
    /\ LET here == {c \in Conns : NodeOf[c] = n}
       IN  /\ pc' = [c \in Conns |-> IF c \in here THEN "off" ELSE pc[c]]
           /\ cmd' = [c \in Conns |-> IF c \in here THEN NoCommand ELSE cmd[c]]
           /\ conv' = [c \in Conns |-> IF c \in here THEN NoConv ELSE conv[c]]
    /\ due' = [due EXCEPT ![n] = {}]
    /\ left' = {l \in left : l[1] # n}
    /\ UNCHANGED <<chats, spare, commands>>
    /\ Waive({})

Subscribe(n) ==
    /\ listener[n] = "starting"
    /\ listener' = [listener EXCEPT ![n] = "on"]
    /\ UNCHANGED <<members, inbox, db, handler, adrift, commands, faults, history>>

Next ==
    \/ \E c \in Conns :
        \/ Connect(c) \/ Disconnect(c)
        \/ \E g \in Groups :
            \/ DeleteGroup(c, g) \/ \E op \in Ops : Command(c, op, g)
            \/ \E id \in Convs : Chat(c, g, id)
        \/ JoinSelect(c) \/ InsertMember(c) \/ RegistryJoin(c)
        \/ \E id \in Convs : Upsert(c, id)
        \/ LeaveDelete(c) \/ RegistryLeave(c)
        \/ DbError(c) \/ Publish(c) \/ PublishError(c)
    \/ \E k \in adrift :
        \/ LandPublish(k) \/ LandInsert(k) \/ LandDelete(k)
        \/ \E id \in Convs : LandUpsert(k, id)
    \/ \E n \in Nodes : Listen(n) \/ ListenerEnd(n) \/ Restart(n) \/ Subscribe(n)

Spec == Init /\ [][Next]_vars

\* The runtime polls a listener that has something to read, and Redis answers
\* the subscription.  No fairness of handlers: a client may go away.
Fairness == \A n \in Nodes : WF_vars(Listen(n)) /\ WF_vars(Subscribe(n))

FairSpec == Spec /\ Fairness

-----------------------------------------------------------------------------
(* Properties *)

\* "every node's listener calls join_group() locally"
\* (docs/ARCHITECTURE.md:133): a join that was published while a node listened
\* is in its registry, or on its way, until the node itself handles a LEAVE of
\* that user or a DELETE, whatever order commands, events, restarts and
\* failures of other nodes come in.
JoinReaches ==
    \A n \in Nodes : listener[n] = "on" =>
        \A m \in due[n] : m[2] \in members[n][m[1]] \/ Announced(n, m[1], m[2])

\* The same as a promise: it gets there, unless it is undone first or the
\* listener ends.
JoinPropagates ==
    \A n \in Nodes, g \in Groups, u \in Users :
        <<g, u>> \in due[n] ~>
            (u \in members[n][g] \/ <<g, u>> \notin due[n] \/ listener[n] = "ended")

\* The members that the group list counts for a group (get_tenant_groups).
Counted(g) == {u \in Users : <<convOf[g], u>> \in rows}

\* The database comes first: whoever is in a group on some node is counted in the
\* group list, under the conversation_id the group has now; "general", which is
\* joined without a command, aside, and unless the statements themselves show
\* that the row is missing: the INSERT of the user's last JOIN or CREATE failed, or
\* was refused, or made it for an id the group no longer had, or a DELETE took it.
\* No CREATE of a group that exists, no abort between two awaits, no statement
\* carried out late and no restart leaves a member that the list does not know.
RowBacked ==
    \A n \in Nodes, g \in Groups \ {General} : \A u \in members[n][g] :
        u \in Counted(g) \/ <<g, u>> \in waived

\* The user has an INSERT about the group under way, or given up but not lost.
Inserting(g, u) ==
    \/ \E c \in Conns : pc[c] = "insert" /\ Subject(c) = <<g, u>>
    \/ \E k \in adrift : k.pc = "insert" /\ About(k) = <<g, u>>

\* Nobody gets into the list of a group whose name is not a Uuid without having
\* asked for it: who is counted anew has a command about this group at its INSERT,
\* or has sent a message to it.  A conversation_id that a JOIN has read, a CREATE
\* has since replaced and a backfill has handed on, or that a client names a group
\* of its own by, never makes a member of such a group.
NoStrangers ==
    [][\A g \in Groups : Parse[g] = NoConv =>
          \A u \in Counted(g)' \ Counted(g) :
              Inserting(g, u) \/ \E m \in chats : m[2] = g /\ m[3] = u]_vars

\* The LEAVEs that are over.
Over == {l \in left : ~Busy(l[2][1], l[2][2])}

\* "Leave a group" (docs/PROTOCOL.md:33), on the node that handled the LEAVE: a
\* user whose last command about the group, on any node, was LEAVE is not in it
\* there, and no event of the other nodes, failure, late statement or restart brings
\* the user back; except a join of the user that the node's listener was still to
\* take, or whose PUBLISH was given up and carried out after all.
LeaveHolds == \A l \in Over : l[2][2] \notin members[l[1]][l[2][1]]
=============================================================================
