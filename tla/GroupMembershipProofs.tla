------------------------ MODULE GroupMembershipProofs ------------------------
(***************************************************************************)
(* Theorems about GroupMembership for every number of nodes, users,        *)
(* connections and groups, and every bound on commands and faults.         *)
(***************************************************************************)
EXTENDS GroupMembership, TLAPS, SequenceTheorems

-----------------------------------------------------------------------------
(* Type correctness *)

\* The end of a handler resets its locals to values of their types.
LEMMA ReturnType ==
  ASSUME TypeOK, NEW c \in Conns, NEW l \in {"off", "idle"}, Return(c, l)
  PROVE  /\ pc' \in [Conns -> PCs]
         /\ cmd' \in [Conns -> Commands \cup {NoCommand}]
         /\ \A d \in Conns : pc'[d] \notin {"off", "idle"} => cmd'[d] # NoCommand
         /\ conv' \in [Conns -> Convs \cup {NoConv}]
         /\ \A d \in Conns : pc'[d] = "insert" => conv'[d] # NoConv
BY DEF Return, Goto, TypeOK, PCs, Commands

\* A fault is counted within its bound.
LEMMA FaultType == TypeOK /\ Fault => faults' \in 0 .. MaxFaults
BY BoundAssumption DEF TypeOK, Fault

\* A command is about one of the groups, and a user's membership in it.
LEMMA SubjectType == TypeOK => \A c \in Conns : cmd[c].group \in Groups /\ Subject(c) \in Memberships
BY NameAssumption DEF TypeOK, Commands, NoCommand, Subject, Memberships

\* So is a call.
LEMMA AboutType ==
  ASSUME NEW k \in Calls
  PROVE  /\ k.conn \in Conns /\ k.cmd \in Commands /\ k.cmd.group \in Groups
         /\ UserOf[k.conn] \in Users /\ k.conv \in Convs \cup {NoConv}
         /\ About(k) = <<k.cmd.group, UserOf[k.conn]>> /\ About(k) \in Memberships
         /\ Event(k) \in Events
BY NameAssumption DEF Calls, Commands, About, Memberships, Event, Events

\* What a handler awaits is a call, about the subject of its command.
LEMMA CallType ==
  ASSUME TypeOK, NEW c \in Conns
  PROVE  /\ pc[c] \in Awaits => Call(c) \in Calls
         /\ Call(c).conn = c /\ Call(c).pc = pc[c] /\ Call(c).conv = conv[c] /\ Call(c).cmd = cmd[c]
         /\ Call(c).pc = "insert" => Call(c).conv # NoConv
         /\ About(Call(c)) = Subject(c)
<1>1. pc[c] \in Awaits => cmd[c] \in Commands
  BY DEF TypeOK, Awaits
<1> QED BY <1>1 DEF TypeOK, Call, Calls, Awaits, About, Subject

LEMMA GiveUpType ==
  ASSUME TypeOK, NEW C \in SUBSET Conns, GiveUp(C)
  PROVE  adrift' \subseteq Calls /\ \A k \in adrift' : k.pc = "insert" => k.conv # NoConv
<1>1. PICK late \in SUBSET {Call(c) : c \in {d \in C : pc[d] \in Awaits}} : adrift' = adrift \cup late
  BY DEF GiveUp
<1>2. \A k \in late : k \in Calls /\ (k.pc = "insert" => k.conv # NoConv)
  BY CallType
<1> QED BY <1>1, <1>2 DEF TypeOK

LEMMA WaiveType ==
  ASSUME TypeOK, NEW M \in SUBSET Memberships, Waive(M)
  PROVE  waived' \subseteq Memberships
BY DEF Waive, TypeOK

LEMMA InsertType ==
  ASSUME TypeOK, NEW k \in Calls, k.conv # NoConv, InsertRow(k)
  PROVE  rows' \subseteq Convs \X Users
BY AboutType DEF InsertRow, TypeOK

LEMMA DeleteType ==
  ASSUME TypeOK, NEW k \in Calls, DeleteRow(k)
  PROVE  rows' \subseteq Convs \X Users /\ waived' \subseteq Memberships
<1> DEFINE M == {<<h, UserOf[k.conn]>> : h \in {h \in Groups :
                    convOf[h] = Parse[k.cmd.group] /\ <<Parse[k.cmd.group], UserOf[k.conn]>> \in rows}}
<1>1. M \in SUBSET Memberships
  BY AboutType DEF Memberships
<1>2. Waive(M) /\ rows' \subseteq rows
  BY DEF DeleteRow
<1> QED BY <1>1, <1>2, WaiveType DEF TypeOK

LEMMA BroadcastType ==
  ASSUME TypeOK, NEW k \in Calls, Broadcast(k)
  PROVE  inbox' \in [Nodes -> Seq(Events)] /\ due' \in [Nodes -> SUBSET Memberships]
<1>1. inbox' \in [Nodes -> Seq(Events)]
  BY AboutType, AppendProperties DEF Broadcast, TypeOK
<1>2. due' \in [Nodes -> SUBSET Memberships]
  BY AboutType DEF Broadcast, TypeOK
<1> QED BY <1>1, <1>2

\* The id that a name gets is one.
LEMMA NewConvType ==
  ASSUME TypeOK, NEW g \in Groups, NEW id \in NewConv(g)
  PROVE  id \in Convs /\ id # NoConv /\ (Parse[g] # NoConv => id = Parse[g])
         /\ (Parse[g] = NoConv => id \in spare)
BY IdAssumption, NameAssumption DEF NewConv, TypeOK

LEMMA SetConvType ==
  ASSUME TypeOK, NEW g \in Groups, NEW id \in Convs,
         SetConv(g, id) \/ UNCHANGED <<convOf, spare>>
  PROVE  convOf' \in [Groups -> Convs \cup {NoConv}] /\ spare' \subseteq Ids
BY DEF SetConv, TypeOK

\* What connections do to themselves: connect, end, and take a command.
LEMMA ConnectionType ==
  ASSUME TypeOK, NEW c \in Conns,
         \/ Connect(c) \/ Disconnect(c)
         \/ \E g \in Groups : DeleteGroup(c, g)
         \/ \E g \in Groups : \E op \in Ops : Command(c, op, g)
         \/ \E g \in Groups : \E id \in Convs : Chat(c, g, id)
  PROVE  TypeOK'
<1>1. General \in Groups /\ UserOf[c] \in Users /\ NodeOf[c] \in Nodes
  BY NameAssumption
<1>2. CASE Connect(c)
  <2>1. members' \in [Nodes -> [Groups -> SUBSET Users]]
    BY <1>1, <1>2 DEF Connect, JoinGroup, TypeOK
  <2> QED BY <1>2, <2>1 DEF Connect, Goto, LeftWithout, TypeOK, redis, db, PCs
<1>3. CASE Disconnect(c)
  <2>1. left' \subseteq Nodes \X Memberships
    BY <1>3 DEF Disconnect, LeftWithout, TypeOK
  <2>2. faults' \in 0 .. MaxFaults
    BY <1>3, FaultType DEF Disconnect, TypeOK
  <2>3. adrift' \subseteq Calls /\ \A k \in adrift' : k.pc = "insert" => k.conv # NoConv
    BY <1>3, GiveUpType DEF Disconnect, TypeOK
  <2> QED BY <1>3, <2>1, <2>2, <2>3, ReturnType DEF Disconnect, TypeOK, redis, db
<1>4. ASSUME NEW g \in Groups, DeleteGroup(c, g) PROVE TypeOK'
  <2>1. members' \in [Nodes -> [Groups -> SUBSET Users]]
    BY <1>1, <1>4 DEF DeleteGroup, TypeOK
  <2>2. due' \in [Nodes -> SUBSET Memberships] /\ commands' \in 0 .. MaxCommands
    BY <1>1, <1>4, BoundAssumption DEF DeleteGroup, TypeOK
  <2> QED BY <1>4, <2>1, <2>2 DEF DeleteGroup, TypeOK, redis, db, handler
<1>5. ASSUME NEW g \in Groups, NEW op \in Ops, Command(c, op, g)
      PROVE  TypeOK'
  <2>1. commands' \in 0 .. MaxCommands
    BY <1>5, BoundAssumption DEF Command, TypeOK
  <2>2. /\ cmd' \in [Conns -> Commands \cup {NoCommand}]
        /\ cmd'[c] # NoCommand
    BY <1>5 DEF Command, TypeOK, Commands, NoCommand, Ops
  <2>3. left' \subseteq Nodes \X Memberships
    BY <1>1, <1>5 DEF Command, LeftWithout, TypeOK, Memberships
  <2>4. pc' \in [Conns -> PCs] /\ \A d \in Conns : d # c => pc'[d] = pc[d] /\ cmd'[d] = cmd[d]
    BY <1>5 DEF Command, Goto, TypeOK, PCs
  <2>5. pc'[c] # "insert"
    BY <1>5 DEF Command, Goto, TypeOK, Ops
  <2> QED BY <2>5, <1>5, <2>1, <2>2, <2>3, <2>4 DEF Command, TypeOK, redis, db
<1>6. ASSUME NEW g \in Groups, NEW id \in Convs, Chat(c, g, id) PROVE TypeOK'
  <2>1. commands' \in 0 .. MaxCommands
    BY <1>6, BoundAssumption DEF Chat, TypeOK
  <2>2. chats' \subseteq Convs \X Groups \X Users /\ spare' \subseteq Ids
    BY <1>1, <1>6 DEF Chat, TypeOK
  <2> QED BY <1>6, <2>1, <2>2 DEF Chat, TypeOK, redis, handler, history
<1> QED BY <1>2, <1>3, <1>4, <1>5, <1>6

\* The steps of the handlers of JOIN, CREATE and LEAVE.
LEMMA HandlerType ==
  ASSUME TypeOK, NEW c \in Conns,
         \/ JoinSelect(c) \/ InsertMember(c) \/ RegistryJoin(c)
         \/ \E id \in Convs : Upsert(c, id)
         \/ LeaveDelete(c) \/ RegistryLeave(c)
         \/ DbError(c) \/ Publish(c) \/ PublishError(c)
  PROVE  TypeOK'
<1>0. /\ cmd[c].group \in Groups /\ Subject(c) \in Memberships
      /\ UserOf[c] \in Users /\ NodeOf[c] \in Nodes
  BY SubjectType, NameAssumption
<1>1. CASE JoinSelect(c)
  <2>1. CASE Exists(c)
    <3>1. convOf[cmd[c].group] \in Convs \cup {NoConv} /\ convOf[cmd[c].group] # NoConv
      BY <1>0, <2>1 DEF Exists, TypeOK
    <3> QED BY <1>1, <2>1, <3>1 DEF JoinSelect, Goto, TypeOK, redis, db, history, PCs
  <2>2. CASE ~Exists(c)
    BY <1>1, <2>2, ReturnType DEF JoinSelect, TypeOK, redis, db, history
  <2> QED BY <2>1, <2>2
<1>2. CASE InsertMember(c)
  <2>1. Call(c) \in Calls /\ Call(c).conv # NoConv
    BY <1>2, CallType DEF InsertMember, Awaits
  <2>2. rows' \subseteq Convs \X Users /\ waived' \subseteq Memberships
    BY <1>0, <1>2, <2>1, InsertType, WaiveType DEF InsertMember
  <2> QED BY <1>2, <2>2 DEF InsertMember, Goto, TypeOK, redis, PCs
<1>3. CASE RegistryJoin(c)
  <2>1. members' \in [Nodes -> [Groups -> SUBSET Users]]
    BY <1>0, <1>3 DEF RegistryJoin, JoinGroup, TypeOK
  <2> QED BY <1>3, <2>1 DEF RegistryJoin, Goto, TypeOK, redis, db, history, PCs
<1>4. ASSUME NEW id \in Convs, Upsert(c, id) PROVE TypeOK'
  <2>1. id # NoConv
    BY IdAssumption
  <2>2. CASE UNCHANGED <<convOf, spare>> /\ Return(c, "idle")
    BY <1>4, <2>2, ReturnType DEF Upsert, TypeOK, redis, history
  <2>3. CASE /\ SetConv(cmd[c].group, id)
             /\ conv' = [conv EXCEPT ![c] = id]
             /\ Goto(c, "insert") /\ UNCHANGED cmd
    <3>1. convOf' \in [Groups -> Convs \cup {NoConv}] /\ spare' \subseteq Ids
      BY <1>0, <2>3, SetConvType
    <3> QED BY <1>4, <2>1, <2>3, <3>1 DEF Upsert, Goto, TypeOK, redis, history, PCs
  <2> QED BY <1>4, <2>2, <2>3 DEF Upsert
<1>5. CASE LeaveDelete(c)
  <2>1. Call(c) \in Calls
    BY <1>5, CallType DEF LeaveDelete, Awaits
  <2>2. rows' \subseteq Convs \X Users /\ waived' \subseteq Memberships
    BY <1>5, <2>1, DeleteType DEF LeaveDelete
  <2> QED BY <1>5, <2>2 DEF LeaveDelete, Goto, TypeOK, redis, PCs
<1>6. CASE RegistryLeave(c)
  <2>1. members' \in [Nodes -> [Groups -> SUBSET Users]]
    BY <1>0, <1>6 DEF RegistryLeave, LeaveGroup, TypeOK
  <2> QED BY <1>0, <1>6, <2>1 DEF RegistryLeave, Goto, TypeOK, redis, db, PCs
<1>7. CASE DbError(c)
  <2>1. /\ faults' \in 0 .. MaxFaults
        /\ adrift' \subseteq Calls /\ \A k \in adrift' : k.pc = "insert" => k.conv # NoConv
    BY <1>7, FaultType, GiveUpType DEF DbError
  <2>2. CASE Return(c, "idle") /\ UNCHANGED waived
    BY <1>7, <2>1, <2>2, ReturnType DEF DbError, TypeOK, redis, db
  <2>3. CASE \E l \in {"add", "remove"} :
                Goto(c, l) /\ UNCHANGED <<cmd, conv>> /\ (UNCHANGED waived \/ Waive({Subject(c)}))
    <3>1. waived' \subseteq Memberships
      BY <1>0, <2>3, WaiveType DEF TypeOK
    <3> QED BY <1>7, <2>1, <2>3, <3>1 DEF DbError, Goto, TypeOK, redis, db, PCs
  <2> QED BY <1>7, <2>2, <2>3 DEF DbError
<1>8. CASE Publish(c)
  <2>1. Call(c) \in Calls
    BY <1>8, CallType DEF Publish, Awaits
  <2>2. inbox' \in [Nodes -> Seq(Events)] /\ due' \in [Nodes -> SUBSET Memberships]
    BY <1>8, <2>1, BroadcastType DEF Publish
  <2> QED BY <1>8, <2>2, ReturnType DEF Publish, TypeOK, db
<1>9. CASE PublishError(c)
  <2>1. /\ faults' \in 0 .. MaxFaults
        /\ adrift' \subseteq Calls /\ \A k \in adrift' : k.pc = "insert" => k.conv # NoConv
    BY <1>9, FaultType, GiveUpType DEF PublishError
  <2> QED BY <1>9, <2>1, ReturnType DEF PublishError, TypeOK, redis, db, history
<1> QED BY <1>1, <1>2, <1>3, <1>4, <1>5, <1>6, <1>7, <1>8, <1>9

\* The calls that are carried out late.
LEMMA LandType ==
  ASSUME TypeOK, NEW k \in adrift,
         \/ LandPublish(k) \/ LandInsert(k) \/ LandDelete(k)
         \/ \E id \in Convs : LandUpsert(k, id)
  PROVE  TypeOK'
<1>0. k \in Calls /\ (k.pc = "insert" => k.conv # NoConv) /\ k.cmd.group \in Groups
  BY AboutType DEF TypeOK
<1>1. CASE LandPublish(k)
  <2>1. inbox' \in [Nodes -> Seq(Events)] /\ due' \in [Nodes -> SUBSET Memberships]
    BY <1>0, <1>1, BroadcastType DEF LandPublish
  <2> QED BY <1>1, <2>1 DEF LandPublish, Land, TypeOK, db, handler
<1>2. CASE LandInsert(k)
  <2>1. rows' \subseteq Convs \X Users /\ waived' \subseteq Memberships
    BY <1>0, <1>2, InsertType, WaiveType DEF LandInsert, Land
  <2> QED BY <1>2, <2>1 DEF LandInsert, Land, TypeOK, handler
<1>3. CASE LandDelete(k)
  <2>1. rows' \subseteq Convs \X Users /\ waived' \subseteq Memberships
    BY <1>0, <1>3, DeleteType DEF LandDelete
  <2> QED BY <1>3, <2>1 DEF LandDelete, Land, TypeOK, handler
<1>4. ASSUME NEW id \in Convs, LandUpsert(k, id) PROVE TypeOK'
  <2>1. convOf' \in [Groups -> Convs \cup {NoConv}] /\ spare' \subseteq Ids
    BY <1>0, <1>4, SetConvType DEF LandUpsert
  <2> QED BY <1>4, <2>1 DEF LandUpsert, Land, TypeOK, handler, history
<1> QED BY <1>1, <1>2, <1>3, <1>4

\* A listener takes the first event of its inbox, and adds a member if that is
\* a join.
LEMMA ListenStep ==
  ASSUME TypeOK, NEW n \in Nodes, Listen(n)
  PROVE  /\ inbox[n] \in Seq(Events) /\ inbox[n] # << >>
         /\ Head(inbox[n]) \in Events /\ Tail(inbox[n]) \in Seq(Events)
         /\ inbox' = [inbox EXCEPT ![n] = Tail(@)]
         /\ IsJoin(Head(inbox[n])) =>
              members' = [members EXCEPT ![n][Head(inbox[n]).group] = @ \cup {Head(inbox[n]).user}]
         /\ ~IsJoin(Head(inbox[n])) => members' = members
<1>1. inbox[n] \in Seq(Events) /\ inbox[n] # << >>
  BY DEF Listen, ListenIf, TypeOK
<1>2. Head(inbox[n]) \in Events /\ Tail(inbox[n]) \in Seq(Events)
  BY <1>1, HeadTailProperties
<1> QED BY <1>1, <1>2 DEF Listen, ListenIf, JoinGroup

\* A join adds one member and takes none away.
LEMMA JoinAdds ==
  ASSUME TypeOK, NEW n \in Nodes, NEW g \in Groups, NEW u \in Users,
         members' = [members EXCEPT ![n][g] = @ \cup {u}]
  PROVE  /\ members' \in [Nodes -> [Groups -> SUBSET Users]]
         /\ \A m \in Nodes : \A h \in Groups : members[m][h] \subseteq members'[m][h]
         /\ u \in members'[n][g]
<1>1. members \in [Nodes -> [Groups -> SUBSET Users]]
  BY DEF TypeOK
<1>2. members'[n] = [members[n] EXCEPT ![g] = @ \cup {u}]
  BY <1>1
<1>3. \A m \in Nodes : m # n => members'[m] = members[m]
  BY <1>1
<1>4. members'[n] \in [Groups -> SUBSET Users]
  BY <1>1, <1>2
<1>5. \A h \in Groups : members'[n][h] = IF h = g THEN members[n][g] \cup {u} ELSE members[n][h]
  BY <1>1, <1>2
<1>6. members' \in [Nodes -> [Groups -> SUBSET Users]]
  BY <1>1, <1>4
<1> QED BY <1>1, <1>3, <1>5, <1>6

\* A listener only adds members.
LEMMA ListenAdds ==
  ASSUME TypeOK, NEW n \in Nodes, Listen(n)
  PROVE  /\ members' \in [Nodes -> [Groups -> SUBSET Users]]
         /\ \A m \in Nodes : \A h \in Groups : members[m][h] \subseteq members'[m][h]
<1>1. Head(inbox[n]).group \in Groups /\ Head(inbox[n]).user \in Users
  BY ListenStep DEF Events
<1>2. CASE IsJoin(Head(inbox[n]))
  BY <1>1, <1>2, ListenStep, JoinAdds
<1>3. CASE ~IsJoin(Head(inbox[n]))
  BY <1>3, ListenStep DEF TypeOK
<1> QED BY <1>2, <1>3

\* The steps of the listeners and of the processes.
LEMMA NodeType ==
  ASSUME TypeOK, NEW n \in Nodes,
         Listen(n) \/ ListenerEnd(n) \/ Restart(n) \/ Subscribe(n)
  PROVE  TypeOK'
<1>1. CASE Listen(n)
  <2>1. members' \in [Nodes -> [Groups -> SUBSET Users]]
    BY <1>1, ListenAdds
  <2>2. inbox' \in [Nodes -> Seq(Events)]
    BY <1>1, ListenStep DEF TypeOK
  <2> QED BY <1>1, <2>1, <2>2 DEF Listen, ListenIf, TypeOK, db, handler, history
<1>2. CASE ListenerEnd(n)
  <2>1. inbox' \in [Nodes -> Seq(Events)]
    BY <1>2 DEF ListenerEnd, TypeOK
  <2> QED BY <1>2, <2>1, FaultType DEF ListenerEnd, TypeOK, db, handler, history
<1>3. CASE Restart(n)
  <2>1. inbox' \in [Nodes -> Seq(Events)]
    BY <1>3 DEF Restart, TypeOK
  <2>2. members' \in [Nodes -> [Groups -> SUBSET Users]]
    BY <1>3 DEF Restart, TypeOK
  <2>3. /\ faults' \in 0 .. MaxFaults
        /\ adrift' \subseteq Calls /\ \A k \in adrift' : k.pc = "insert" => k.conv # NoConv
    BY <1>3, FaultType, GiveUpType DEF Restart
  <2>4. /\ pc' \in [Conns -> PCs]
        /\ cmd' \in [Conns -> Commands \cup {NoCommand}]
        /\ conv' \in [Conns -> Convs \cup {NoConv}]
        /\ \A c \in Conns :
              \/ pc'[c] = "off"
              \/ pc'[c] = pc[c] /\ cmd'[c] = cmd[c] /\ conv'[c] = conv[c]
    BY <1>3 DEF Restart, TypeOK, PCs
  <2>5. PICK seen \in SUBSET chats : Backfill(seen)
    BY <1>3 DEF Restart
  <2>6. convOf' \in [Groups -> Convs \cup {NoConv}] /\ rows' \subseteq Convs \X Users
    BY <2>5 DEF Backfill, TypeOK
  <2>7. waived' \subseteq Memberships
    BY <1>3, WaiveType DEF Restart
  <2> QED BY <1>3, <2>1, <2>2, <2>3, <2>4, <2>6, <2>7 DEF Restart, TypeOK
<1>4. CASE Subscribe(n)
  BY <1>4 DEF Subscribe, TypeOK, db, handler, history
<1> QED BY <1>1, <1>2, <1>3, <1>4

LEMMA TypeInductive == TypeOK /\ [Next]_vars => TypeOK'
<1>1. TypeOK /\ UNCHANGED vars => TypeOK'
  BY DEF TypeOK, vars, redis, db, handler, history
<1> QED BY <1>1, ConnectionType, HandlerType, LandType, NodeType DEF Next

\* Each variable keeps its type, a handler inserts a row only for a group it
\* has found, and no fault exceeds its bound.
THEOREM TypeCorrect == Spec => []TypeOK
<1>1. Init => TypeOK
  <2> SUFFICES ASSUME Init PROVE TypeOK
    OBVIOUS
  <2>1. inbox \in [Nodes -> Seq(Events)] /\ commands \in 0 .. MaxCommands
    BY BoundAssumption DEF Init
  <2>2. faults \in 0 .. MaxFaults
    BY BoundAssumption DEF Init
  <2> QED BY <2>1, <2>2, NameAssumption DEF Init, TypeOK, PCs, Memberships
<1> QED BY <1>1, TypeInductive, PTL DEF Spec

-----------------------------------------------------------------------------
(* Joins reach the nodes that listen *)

\* The event of a join is still to come.
Reached(n, g, u) == u \in members[n][g] \/ Announced(n, g, u)

\* JoinReaches is inductive together with this: while a node has not
\* subscribed yet, no join is due on it.
ReachInv ==
    \A n \in Nodes : \A g \in Groups, u \in Users :
        <<g, u>> \in due[n] =>
            /\ listener[n] # "starting"
            /\ listener[n] = "on" => Reached(n, g, u)

\* Taking the first event of an inbox applies it, and loses no other.
LEMMA ListenReaches ==
  ASSUME TypeOK, NEW n \in Nodes, Listen(n), NEW g \in Groups, NEW u \in Users,
         NEW m \in Nodes, Reached(m, g, u)
  PROVE  Reached(m, g, u)'
<1>1. CASE u \in members[m][g]
  BY <1>1, ListenAdds DEF Reached
<1>2. CASE m # n /\ Announced(m, g, u)
  BY <1>2 DEF Listen, ListenIf, Reached, Announced, TypeOK
<1>3. CASE m = n /\ Announced(m, g, u)
  <2>1. /\ inbox[n] \in Seq(Events) /\ inbox[n] # << >>
        /\ inbox'[n] = Tail(inbox[n])
    BY <1>3 DEF Listen, ListenIf, TypeOK
  <2>2. PICK i \in 1 .. Len(inbox[n]) :
            IsJoin(inbox[n][i]) /\ inbox[n][i].group = g /\ inbox[n][i].user = u
    BY <1>3 DEF Announced
  <2>3. CASE i = 1
    <3>1. Head(inbox[n]) = inbox[n][i]
      BY <2>1, <2>3
    <3>2. members' = [members EXCEPT ![n][g] = @ \cup {u}]
      BY <2>2, <3>1, ListenStep
    <3> QED BY <1>3, <3>2, JoinAdds DEF Reached
  <2>4. CASE i # 1
    <3>1. i - 1 \in 1 .. Len(Tail(inbox[n])) /\ Tail(inbox[n])[i - 1] = inbox[n][i]
      BY <2>1, <2>4
    <3> QED BY <1>3, <2>1, <2>2, <3>1 DEF Announced, Reached
  <2> QED BY <2>3, <2>4
<1> QED BY <1>1, <1>2, <1>3 DEF Reached

\* A published join waits in the inbox of every node that is on, and what
\* waited there before still does.
LEMMA BroadcastReaches ==
  ASSUME TypeOK, NEW k \in Calls, Broadcast(k), members' = members,
         NEW n \in Nodes, listener[n] = "on",
         NEW g \in Groups, NEW u \in Users,
         \/ Reached(n, g, u)
         \/ k.cmd.op = "join" /\ About(k) = <<g, u>>
  PROVE  Reached(n, g, u)'
<1>1. /\ inbox[n] \in Seq(Events) /\ Event(k) \in Events
      /\ inbox'[n] = Append(inbox[n], Event(k))
  BY AboutType DEF Broadcast, TypeOK
<1>2. CASE u \in members[n][g]
  BY <1>2 DEF Reached
<1>3. CASE Announced(n, g, u)
  <2>1. PICK i \in 1 .. Len(inbox[n]) :
            IsJoin(inbox[n][i]) /\ inbox[n][i].group = g /\ inbox[n][i].user = u
    BY <1>3 DEF Announced
  <2>2. i \in 1 .. Len(inbox'[n]) /\ inbox'[n][i] = inbox[n][i]
    BY <1>1, AppendProperties
  <2> QED BY <2>1, <2>2 DEF Reached, Announced
<1>4. CASE k.cmd.op = "join" /\ About(k) = <<g, u>>
  <2> DEFINE i == Len(inbox[n]) + 1
  <2>1. i \in 1 .. Len(inbox'[n]) /\ inbox'[n][i] = Event(k)
    BY <1>1, AppendProperties
  <2>2. IsJoin(Event(k)) /\ Event(k).group = g /\ Event(k).user = u
    BY <1>4 DEF About, Event, IsJoin
  <2> QED BY <2>1, <2>2 DEF Reached, Announced
<1> QED BY <1>2, <1>3, <1>4 DEF Reached

LEMMA ReachInductive == TypeOK /\ ReachInv /\ [Next]_vars => ReachInv'
<1> SUFFICES ASSUME TypeOK, ReachInv, [Next]_vars,
                    NEW n \in Nodes, NEW g \in Groups, NEW u \in Users, <<g, u>> \in due'[n]
             PROVE  /\ listener'[n] # "starting"
                    /\ listener'[n] = "on" => Reached(n, g, u)'
  BY DEF ReachInv
<1>1. ASSUME UNCHANGED <<inbox, listener, due>>,
             \A m \in Nodes : \A h \in Groups : members[m][h] \subseteq members'[m][h]
      PROVE  /\ listener'[n] # "starting"
             /\ listener'[n] = "on" => Reached(n, g, u)'
  BY <1>1 DEF ReachInv, Reached, Announced
<1>2. ASSUME NEW c \in Conns, NEW h \in Groups, NEW S \in SUBSET Users,
             UNCHANGED <<inbox, listener>>,
             members' = [members EXCEPT ![NodeOf[c]][h] = @ \ S],
             due' = [due EXCEPT ![NodeOf[c]] = @ \ ({h} \X S)]
      PROVE  /\ listener'[n] # "starting"
             /\ listener'[n] = "on" => Reached(n, g, u)'
  <2>1. <<g, u>> \in due[n] /\ (n = NodeOf[c] => ~(g = h /\ u \in S))
    BY <1>2, NameAssumption DEF TypeOK
  <2>2. u \in members[n][g] => u \in members'[n][g]
    <3>1. CASE n = NodeOf[c] /\ g = h
      BY <1>2, <2>1, <3>1, NameAssumption DEF TypeOK
    <3>2. CASE n = NodeOf[c] /\ g # h
      BY <1>2, <3>2, NameAssumption DEF TypeOK
    <3>3. CASE n # NodeOf[c]
      BY <1>2, <3>3, NameAssumption DEF TypeOK
    <3> QED BY <3>1, <3>2, <3>3
  <2> QED BY <1>2, <2>1, <2>2 DEF ReachInv, Reached, Announced
<1>3. ASSUME NEW c \in Conns, Connect(c) \/ RegistryJoin(c) \/ JoinSelect(c)
      PROVE  \A m \in Nodes : \A h \in Groups : members[m][h] \subseteq members'[m][h]
  <2>1. /\ General \in Groups /\ cmd[c].group \in Groups
        /\ NodeOf[c] \in Nodes /\ UserOf[c] \in Users
    BY SubjectType, NameAssumption
  <2>2. CASE Connect(c)
    BY <2>1, <2>2, JoinAdds DEF Connect, JoinGroup
  <2>3. CASE RegistryJoin(c)
    BY <2>1, <2>3, JoinAdds DEF RegistryJoin, JoinGroup
  <2> QED BY <1>3, <2>2, <2>3 DEF JoinSelect
<1>4. ASSUME NEW c \in Conns, NEW h \in Groups, DeleteGroup(c, h)
      PROVE  /\ listener'[n] # "starting"
             /\ listener'[n] = "on" => Reached(n, g, u)'
  <2>1. members[NodeOf[c]][h] \ Users = {}
    BY NameAssumption DEF TypeOK
  <2>2. members' = [members EXCEPT ![NodeOf[c]][h] = @ \ Users]
    BY <1>4, <2>1, NameAssumption DEF DeleteGroup, TypeOK
  <2> QED BY <1>2, <1>4, <2>2 DEF DeleteGroup, redis
<1>5. ASSUME NEW c \in Conns, RegistryLeave(c)
      PROVE  /\ listener'[n] # "starting"
             /\ listener'[n] = "on" => Reached(n, g, u)'
  <2>1. {cmd[c].group} \X {UserOf[c]} = {Subject(c)}
    BY DEF Subject
  <2>2. cmd[c].group \in Groups /\ {UserOf[c]} \in SUBSET Users
    BY SubjectType, NameAssumption
  <2> QED BY <1>2, <1>5, <2>1, <2>2 DEF RegistryLeave, LeaveGroup, redis
<1>6. ASSUME NEW k \in Calls, Broadcast(k), members' = members, listener' = listener
      PROVE  /\ listener'[n] # "starting"
             /\ listener'[n] = "on" => Reached(n, g, u)'
  <2>1. <<g, u>> \in due[n] \/ (k.cmd.op = "join" /\ listener[n] # "starting" /\ About(k) = <<g, u>>)
    BY <1>6 DEF Broadcast, TypeOK
  <2> QED BY <1>6, <2>1, BroadcastReaches DEF ReachInv
<1>7. ASSUME NEW m \in Nodes, Listen(m)
      PROVE  /\ listener'[n] # "starting"
             /\ listener'[n] = "on" => Reached(n, g, u)'
  BY <1>7, ListenReaches DEF ReachInv, Listen, ListenIf, history
<1>8. ASSUME NEW m \in Nodes, ListenerEnd(m)
      PROVE  /\ listener'[n] # "starting"
             /\ listener'[n] = "on" => Reached(n, g, u)'
  <2>1. <<g, u>> \in due[n] /\ members' = members
    BY <1>8 DEF ListenerEnd, history
  <2>2. CASE n = m
    BY <1>8, <2>2 DEF ListenerEnd, TypeOK
  <2>3. CASE n # m
    <3>1. inbox'[n] = inbox[n] /\ listener'[n] = listener[n]
      BY <1>8, <2>3 DEF ListenerEnd, TypeOK
    <3> QED BY <2>1, <3>1 DEF ReachInv, Reached, Announced
  <2> QED BY <2>2, <2>3
<1>9. ASSUME NEW m \in Nodes, Restart(m)
      PROVE  /\ listener'[n] # "starting"
             /\ listener'[n] = "on" => Reached(n, g, u)'
  <2>1. n # m /\ <<g, u>> \in due[n]
    BY <1>9 DEF Restart, TypeOK
  <2>2. members'[n] = members[n] /\ inbox'[n] = inbox[n] /\ listener'[n] = listener[n]
    BY <1>9, <2>1 DEF Restart, TypeOK
  <2> QED BY <2>1, <2>2 DEF ReachInv, Reached, Announced
<1>10. ASSUME NEW m \in Nodes, Subscribe(m)
       PROVE  /\ listener'[n] # "starting"
              /\ listener'[n] = "on" => Reached(n, g, u)'
  <2>1. <<g, u>> \in due[n] /\ members' = members /\ inbox' = inbox
    BY <1>10 DEF Subscribe, history
  <2>2. n # m /\ listener'[n] = listener[n]
    BY <1>10, <2>1 DEF Subscribe, ReachInv, TypeOK
  <2> QED BY <2>1, <2>2 DEF ReachInv, Reached, Announced
<1>11. ASSUME NEW c \in Conns,
              \/ Disconnect(c) \/ InsertMember(c) \/ LeaveDelete(c)
              \/ DbError(c) \/ PublishError(c)
              \/ \E h \in Groups : \E op \in Ops : Command(c, op, h)
              \/ \E id \in Convs : Upsert(c, id) \/ \E h \in Groups : Chat(c, h, id)
       PROVE  UNCHANGED <<members, inbox, listener, due>>
  BY <1>11 DEF Disconnect, InsertMember, LeaveDelete, DbError, PublishError, Command, Upsert, Chat,
               redis, history
<1>12. ASSUME NEW c \in Conns, Connect(c) \/ RegistryJoin(c) \/ JoinSelect(c)
       PROVE  UNCHANGED <<inbox, listener, due>>
  BY <1>12 DEF Connect, RegistryJoin, JoinSelect, redis, history
<1>13. ASSUME NEW c \in Conns, Publish(c)
       PROVE  Call(c) \in Calls /\ Broadcast(Call(c)) /\ members' = members /\ listener' = listener
  BY <1>13, CallType DEF Publish, Awaits
<1>14. ASSUME NEW k \in adrift, LandPublish(k)
       PROVE  k \in Calls /\ Broadcast(k) /\ members' = members /\ listener' = listener
  BY <1>14 DEF LandPublish, Land, TypeOK
<1>15. ASSUME NEW k \in adrift,
              LandInsert(k) \/ LandDelete(k) \/ \E id \in Convs : LandUpsert(k, id)
       PROVE  UNCHANGED <<members, inbox, listener, due>>
  BY <1>15 DEF LandInsert, LandDelete, LandUpsert, Land, history
<1>16. CASE UNCHANGED vars
  BY <1>1, <1>16 DEF vars, redis, history
<1> QED BY <1>1, <1>3, <1>4, <1>5, <1>6, <1>7, <1>8, <1>9, <1>10, <1>11, <1>12, <1>13, <1>14, <1>15,
           <1>16 DEF Next

\* No order of commands, events, failures and restarts makes a listening node
\* miss a join that was published while it listened.
THEOREM JoinsReach == Spec => []JoinReaches
<1>1. Init => ReachInv
  BY DEF Init, ReachInv
<1>2. TypeOK /\ ReachInv => JoinReaches
  <2> SUFFICES ASSUME TypeOK, ReachInv, NEW n \in Nodes, listener[n] = "on",
                      NEW m \in due[n]
               PROVE  m[2] \in members[n][m[1]] \/ Announced(n, m[1], m[2])
    BY DEF JoinReaches
  <2>1. m[1] \in Groups /\ m[2] \in Users /\ m = <<m[1], m[2]>>
    BY DEF TypeOK, Memberships
  <2> QED BY <2>1 DEF ReachInv, Reached
<1> QED BY <1>1, <1>2, ReachInductive, TypeCorrect, PTL DEF Spec

-----------------------------------------------------------------------------
(* Members have rows *)

\* The group is in the table, and the user's row is there or known not to be.
Backed(g, u) ==
    \/ g = General
    \/ convOf[g] # NoConv /\ (<<convOf[g], u>> \in rows \/ <<g, u>> \in waived)

\* The handler of c is about to add its user to the registry or to announce it.
Adding(c) == pc[c] = "add" \/ (pc[c] = "publish" /\ cmd[c].op = "join")

\* A handler that inserts a row has found its group, one that adds or announces
\* a member has tried to insert the row, and one that leaves is handling LEAVE.
HandlersOK ==
    /\ \A c \in Conns : pc[c] = "insert" => convOf[cmd[c].group] # NoConv
    /\ \A c \in Conns : Adding(c) => Backed(cmd[c].group, UserOf[c])
    /\ \A c \in Conns : pc[c] \in {"leave", "remove"} => cmd[c].op = "leave"

\* The announcements that may come late.
AdriftOK ==
    \A k \in adrift :
        k.pc = "publish" /\ k.cmd.op = "join" => Backed(k.cmd.group, UserOf[k.conn])

\* Event e is in the inbox of node n.
Waiting(n, e) == \E i \in 1 .. Len(inbox[n]) : inbox[n][i] = e

\* Members, members to be and announced members are backed.
BackInv ==
    /\ \A n \in Nodes : \A g \in Groups : \A u \in members[n][g] : Backed(g, u)
    /\ HandlersOK /\ AdriftOK
    /\ \A n \in Nodes : \A e \in Events : Waiting(n, e) /\ IsJoin(e) => Backed(e.group, e.user)

\* The statements that change rows and leave the groups: what is backed stays so
\* if a row that goes is waived, and so does what is waived.
LEMMA WaiveKeeps ==
  ASSUME TypeOK, convOf' = convOf, NEW M \in SUBSET Memberships, Waive(M),
         NEW g \in Groups, NEW u \in Users,
         <<convOf[g], u>> \in rows => <<convOf[g], u>> \in rows' \/ <<g, u>> \in M
  PROVE  /\ Backed(g, u) => Backed(g, u)'
         /\ <<g, u>> \in M /\ convOf[g] # NoConv => Backed(g, u)'
<1>1. ASSUME <<g, u>> \in waived \cup M PROVE <<convOf'[g], u>> \in rows' \/ <<g, u>> \in waived'
  BY <1>1 DEF Waive
<1> QED BY <1>1 DEF Backed

LEMMA DeleteKeeps ==
  ASSUME TypeOK, convOf' = convOf, NEW k \in Calls, DeleteRow(k),
         NEW g \in Groups, NEW u \in Users, Backed(g, u)
  PROVE  Backed(g, u)'
<1> DEFINE id == Parse[k.cmd.group]
           v == UserOf[k.conn]
           M == {<<h, v>> : h \in {h \in Groups : convOf[h] = id /\ <<id, v>> \in rows}}
<1>1. v \in Users /\ M \in SUBSET Memberships
  BY AboutType DEF Memberships
<1>2. Waive(M) /\ rows' = rows \ {<<id, v>>}
  BY DEF DeleteRow
<1>3. ASSUME <<convOf[g], u>> \in rows, <<convOf[g], u>> \notin rows' PROVE <<g, u>> \in M
  <2>1. convOf[g] = id /\ u = v
    BY <1>2, <1>3
  <2> QED BY <1>3, <2>1
<1> HIDE DEF M
<1> QED BY <1>1, <1>2, <1>3, WaiveKeeps

\* A new conversation_id: a group that has a row keeps its own.
LEMMA SetConvKeeps ==
  ASSUME TypeOK, NEW h \in Groups, NEW id \in Convs, id # NoConv,
         \/ UNCHANGED convOf
         \/ SetConv(h, id) /\ ~Refused(h, id),
         rows' = rows, waived' = waived, NEW g \in Groups
  PROVE  /\ convOf[g] # NoConv => convOf'[g] # NoConv
         /\ \A u \in Users : Backed(g, u) => Backed(g, u)'
<1>1. CASE convOf' = convOf
  BY <1>1 DEF Backed
<1>2. CASE SetConv(h, id) /\ ~Refused(h, id)
  <2>1. convOf' = [convOf EXCEPT ![h] = id] /\ convOf \in [Groups -> Convs \cup {NoConv}]
    BY <1>2 DEF SetConv, TypeOK
  <2>2. convOf'[g] = IF g = h THEN id ELSE convOf[g]
    BY <2>1
  <2>3. ASSUME NEW u \in Users, <<convOf[g], u>> \in rows PROVE convOf'[g] = convOf[g]
    BY <1>2, <2>2, <2>3 DEF Refused
  <2> QED BY <2>2, <2>3 DEF Backed
<1> QED BY <1>1, <1>2

\* A group that is in the table stays there, and what is backed stays so.
LEMMA BackedStays ==
  ASSUME TypeOK, [Next]_vars, NEW g \in Groups
  PROVE  /\ convOf[g] # NoConv => convOf'[g] # NoConv
         /\ \A u \in Users : Backed(g, u) => Backed(g, u)'
<1>1. ASSUME convOf' = convOf, rows' = rows, waived' = waived
      PROVE  /\ convOf[g] # NoConv => convOf'[g] # NoConv
             /\ \A u \in Users : Backed(g, u) => Backed(g, u)'
  BY <1>1 DEF Backed
<1>2. ASSUME convOf' = convOf, rows \subseteq rows', NEW M \in SUBSET Memberships, Waive(M)
      PROVE  /\ convOf[g] # NoConv => convOf'[g] # NoConv
             /\ \A u \in Users : Backed(g, u) => Backed(g, u)'
  BY <1>2, WaiveKeeps
<1>3. \A c \in Conns : {Subject(c)} \in SUBSET Memberships
  BY SubjectType
<1>4. ASSUME NEW c \in Conns, NEW id \in Convs, Upsert(c, id)
      PROVE  /\ convOf[g] # NoConv => convOf'[g] # NoConv
             /\ \A u \in Users : Backed(g, u) => Backed(g, u)'
  <2>1. cmd[c].group \in Groups /\ id # NoConv
    BY SubjectType, IdAssumption
  <2>2. \/ UNCHANGED convOf
        \/ SetConv(cmd[c].group, id) /\ ~Refused(cmd[c].group, id)
    BY <1>4 DEF Upsert
  <2>3. rows' = rows /\ waived' = waived
    BY <1>4 DEF Upsert, history
  <2> QED BY <2>1, <2>2, <2>3, SetConvKeeps
<1>5. ASSUME NEW k \in adrift, NEW id \in Convs, LandUpsert(k, id)
      PROVE  /\ convOf[g] # NoConv => convOf'[g] # NoConv
             /\ \A u \in Users : Backed(g, u) => Backed(g, u)'
  <2>1. k.cmd.group \in Groups /\ id # NoConv
    BY AboutType, IdAssumption DEF TypeOK
  <2>2. \/ UNCHANGED convOf
        \/ SetConv(k.cmd.group, id) /\ ~Refused(k.cmd.group, id)
    BY <1>5 DEF LandUpsert
  <2>3. rows' = rows /\ waived' = waived
    BY <1>5 DEF LandUpsert, history
  <2> QED BY <2>1, <2>2, <2>3, SetConvKeeps
<1>6. ASSUME NEW c \in Conns, LeaveDelete(c)
      PROVE  /\ convOf[g] # NoConv => convOf'[g] # NoConv
             /\ \A u \in Users : Backed(g, u) => Backed(g, u)'
  <2>1. convOf' = convOf /\ DeleteRow(Call(c)) /\ Call(c) \in Calls
    BY <1>6, CallType DEF LeaveDelete, Awaits
  <2> QED BY <2>1, DeleteKeeps
<1>7. ASSUME NEW k \in adrift, LandDelete(k)
      PROVE  /\ convOf[g] # NoConv => convOf'[g] # NoConv
             /\ \A u \in Users : Backed(g, u) => Backed(g, u)'
  <2>1. convOf' = convOf /\ DeleteRow(k) /\ k \in Calls
    BY <1>7 DEF LandDelete, TypeOK
  <2> QED BY <2>1, DeleteKeeps
<1>8. ASSUME NEW c \in Conns, InsertMember(c) \/ DbError(c)
      PROVE  /\ convOf[g] # NoConv => convOf'[g] # NoConv
             /\ \A u \in Users : Backed(g, u) => Backed(g, u)'
  <2>1. convOf' = convOf /\ rows \subseteq rows'
    BY <1>8 DEF InsertMember, InsertRow, DbError, db
  <2>2. Waive({Subject(c)}) \/ (rows' = rows /\ waived' = waived)
    BY <1>8 DEF InsertMember, DbError, db
  <2> QED BY <1>1, <1>2, <1>3, <2>1, <2>2
<1>9. ASSUME NEW k \in adrift, LandInsert(k)
      PROVE  /\ convOf[g] # NoConv => convOf'[g] # NoConv
             /\ \A u \in Users : Backed(g, u) => Backed(g, u)'
  <2>1. convOf' = convOf /\ rows \subseteq rows' /\ Waive({})
    BY <1>9 DEF LandInsert, InsertRow
  <2> QED BY <1>2, <2>1
<1>10. ASSUME NEW n \in Nodes, Restart(n)
       PROVE  /\ convOf[g] # NoConv => convOf'[g] # NoConv
              /\ \A u \in Users : Backed(g, u) => Backed(g, u)'
  <2>1. PICK seen \in SUBSET chats : Backfill(seen)
    BY <1>10 DEF Restart
  <2>2. rows \subseteq rows' /\ (convOf[g] # NoConv => convOf'[g] = convOf[g])
    BY <2>1 DEF Backfill, Nameless
  <2>3. ASSUME NEW u \in Users, <<g, u>> \in waived
        PROVE  <<convOf'[g], u>> \in rows' \/ <<g, u>> \in waived'
    BY <1>10, <2>3 DEF Restart, Waive
  <2> QED BY <2>2, <2>3 DEF Backed
<1>11. ASSUME NEW c \in Conns,
              \/ Connect(c) \/ Disconnect(c) \/ JoinSelect(c) \/ RegistryJoin(c)
              \/ RegistryLeave(c) \/ Publish(c) \/ PublishError(c)
              \/ \E h \in Groups : DeleteGroup(c, h) \/ \E op \in Ops : Command(c, op, h)
              \/ \E h \in Groups : \E id \in Convs : Chat(c, h, id)
       PROVE  convOf' = convOf /\ rows' = rows /\ waived' = waived
  BY <1>11 DEF Connect, Disconnect, JoinSelect, RegistryJoin, RegistryLeave,
               Publish, PublishError, DeleteGroup, Command, Chat, db, history
<1>12. ASSUME NEW n \in Nodes, Listen(n) \/ ListenerEnd(n) \/ Subscribe(n)
       PROVE  convOf' = convOf /\ rows' = rows /\ waived' = waived
  BY <1>12 DEF Listen, ListenIf, ListenerEnd, Subscribe, db, history
<1>13. ASSUME NEW k \in adrift, LandPublish(k)
       PROVE  convOf' = convOf /\ rows' = rows /\ waived' = waived
  BY <1>13 DEF LandPublish, db
<1>14. CASE UNCHANGED vars
  BY <1>1, <1>14 DEF vars, db, history
<1> QED BY <1>1, <1>4, <1>5, <1>6, <1>7, <1>8, <1>9, <1>10, <1>11, <1>12, <1>13, <1>14 DEF Next

\* Members that a step does not add are backed after it.
LEMMA MembersStay ==
  ASSUME TypeOK, BackInv, [Next]_vars,
         \A n \in Nodes : \A g \in Groups : \A u \in members'[n][g] :
            u \in members[n][g] \/ Backed(g, u)' 
  PROVE  \A n \in Nodes : \A g \in Groups : \A u \in members'[n][g] : Backed(g, u)'
BY BackedStays DEF BackInv, TypeOK

\* The registry after each step: a member was one before, or is backed.
LEMMA BackedMembers ==
  ASSUME TypeOK, BackInv, [Next]_vars
  PROVE  \A n \in Nodes : \A g \in Groups : \A u \in members'[n][g] : Backed(g, u)'
<1>1. ASSUME \A n \in Nodes : \A g \in Groups : members'[n][g] \subseteq members[n][g]
      PROVE  \A n \in Nodes : \A g \in Groups : \A u \in members'[n][g] : Backed(g, u)'
  BY <1>1, MembersStay
<1>2. ASSUME NEW m \in Nodes, NEW h \in Groups, NEW v \in Users, Backed(h, v),
             members' = [members EXCEPT ![m][h] = @ \cup {v}]
      PROVE  \A n \in Nodes : \A g \in Groups : \A u \in members'[n][g] : Backed(g, u)'
  <2>1. \A n \in Nodes : \A g \in Groups : \A u \in members'[n][g] :
            u \in members[n][g] \/ (g = h /\ u = v)
    <3> SUFFICES ASSUME NEW n \in Nodes, NEW g \in Groups, NEW u \in members'[n][g]
                 PROVE  u \in members[n][g] \/ (g = h /\ u = v)
      OBVIOUS
    <3>1. CASE n = m /\ g = h
      BY <1>2, <3>1 DEF TypeOK
    <3>2. CASE n = m /\ g # h
      BY <1>2, <3>2 DEF TypeOK
    <3>3. CASE n # m
      BY <1>2, <3>3 DEF TypeOK
    <3> QED BY <3>1, <3>2, <3>3
  <2>2. Backed(h, v)'
    BY <1>2, BackedStays
  <2> QED BY <2>1, <2>2, MembersStay
<1>3. ASSUME NEW c \in Conns, Connect(c)
      PROVE  \A n \in Nodes : \A g \in Groups : \A u \in members'[n][g] : Backed(g, u)'
  BY <1>2, <1>3, NameAssumption DEF Connect, JoinGroup, Backed
<1>4. ASSUME NEW c \in Conns, RegistryJoin(c)
      PROVE  \A n \in Nodes : \A g \in Groups : \A u \in members'[n][g] : Backed(g, u)'
  <2>1. Backed(cmd[c].group, UserOf[c])
    BY <1>4 DEF RegistryJoin, BackInv, HandlersOK, Adding
  <2> QED BY <1>2, <1>4, <2>1, SubjectType, NameAssumption DEF RegistryJoin, JoinGroup
<1>5. ASSUME NEW m \in Nodes, Listen(m)
      PROVE  \A n \in Nodes : \A g \in Groups : \A u \in members'[n][g] : Backed(g, u)'
  <2> DEFINE e == Head(inbox[m])
  <2>1. CASE IsJoin(e)
    <3>1. inbox[m] \in Seq(Events) /\ inbox[m] # << >> /\ e \in Events
      BY <1>5, ListenStep
    <3>2. Waiting(m, e)
      BY <3>1, 1 \in 1 .. Len(inbox[m]) /\ inbox[m][1] = e DEF Waiting
    <3>3. Backed(e.group, e.user) /\ e.group \in Groups /\ e.user \in Users
      BY <2>1, <3>1, <3>2 DEF BackInv, Events
    <3>4. members' = [members EXCEPT ![m][e.group] = @ \cup {e.user}]
      BY <1>5, <2>1, ListenStep
    <3> HIDE DEF e
    <3> QED BY <1>2, <3>3, <3>4
  <2>2. CASE ~IsJoin(e)
    BY <1>1, <1>5, <2>2, ListenStep
  <2> QED BY <2>1, <2>2
<1>6. ASSUME NEW c \in Conns, RegistryLeave(c) \/ \E g \in Groups : DeleteGroup(c, g)
      PROVE  \A n \in Nodes : \A g \in Groups : members'[n][g] \subseteq members[n][g]
  <2> SUFFICES ASSUME NEW n \in Nodes, NEW g \in Groups PROVE members'[n][g] \subseteq members[n][g]
    OBVIOUS
  <2>1. CASE RegistryLeave(c)
    <3>1. members' = [members EXCEPT ![NodeOf[c]][cmd[c].group] = @ \ {UserOf[c]}]
      BY <2>1 DEF RegistryLeave, LeaveGroup
    <3>2. CASE n = NodeOf[c] /\ g = cmd[c].group
      BY <3>1, <3>2 DEF TypeOK
    <3>3. CASE n = NodeOf[c] /\ g # cmd[c].group
      BY <3>1, <3>3 DEF TypeOK
    <3>4. CASE n # NodeOf[c]
      BY <3>1, <3>4 DEF TypeOK
    <3> QED BY <3>2, <3>3, <3>4
  <2>2. ASSUME NEW h \in Groups, DeleteGroup(c, h) PROVE members'[n][g] \subseteq members[n][g]
    <3>1. CASE n = NodeOf[c] /\ g = h
      BY <2>2, <3>1 DEF DeleteGroup, TypeOK
    <3>2. CASE n = NodeOf[c] /\ g # h
      BY <2>2, <3>2 DEF DeleteGroup, TypeOK
    <3>3. CASE n # NodeOf[c]
      BY <2>2, <3>3 DEF DeleteGroup, TypeOK
    <3> QED BY <3>1, <3>2, <3>3
  <2> QED BY <1>6, <2>1, <2>2
<1>7. ASSUME NEW m \in Nodes, Restart(m)
      PROVE  \A n \in Nodes : \A g \in Groups : members'[n][g] \subseteq members[n][g]
  BY <1>7 DEF Restart, TypeOK
<1>8. ASSUME NEW c \in Conns,
             \/ Disconnect(c) \/ JoinSelect(c) \/ InsertMember(c) \/ LeaveDelete(c)
             \/ DbError(c) \/ Publish(c) \/ PublishError(c)
             \/ \E g \in Groups : \E op \in Ops : Command(c, op, g)
             \/ \E id \in Convs : Upsert(c, id) \/ \E g \in Groups : Chat(c, g, id)
      PROVE  members' = members
  BY <1>8 DEF Disconnect, JoinSelect, InsertMember, LeaveDelete, DbError, Publish, PublishError,
              Command, Upsert, Chat
<1>9. ASSUME NEW n \in Nodes, ListenerEnd(n) \/ Subscribe(n) PROVE members' = members
  BY <1>9 DEF ListenerEnd, Subscribe
<1>10. ASSUME NEW k \in adrift,
              LandPublish(k) \/ LandInsert(k) \/ LandDelete(k) \/ \E id \in Convs : LandUpsert(k, id)
       PROVE  members' = members
  BY <1>10 DEF LandPublish, LandInsert, LandDelete, LandUpsert, Land
<1>11. CASE UNCHANGED vars
  BY <1>1, <1>11 DEF vars
<1> QED BY <1>1, <1>3, <1>4, <1>5, <1>6, <1>7, <1>8, <1>9, <1>10, <1>11 DEF Next

\* A step that changes no handler but that of c, which it leaves off or idle.
LEMMA ReturnPc ==
  ASSUME TypeOK, NEW c \in Conns, NEW l \in {"off", "idle"}, Return(c, l)
  PROVE  \A d \in Conns : pc'[d] \in {"off", "idle"} \/ (pc'[d] = pc[d] /\ cmd'[d] = cmd[d])
BY DEF Return, Goto, TypeOK

LEMMA ReturnHandlers ==
  ASSUME TypeOK, HandlersOK, [Next]_vars,
         \A d \in Conns : pc'[d] \in {"off", "idle"} \/ (pc'[d] = pc[d] /\ cmd'[d] = cmd[d])
  PROVE  HandlersOK'
<1>1. \A d \in Conns : cmd[d].group \in Groups /\ UserOf[d] \in Users
  BY SubjectType, NameAssumption
<1>2. \A d \in Conns : Adding(d)' => Adding(d) /\ cmd'[d] = cmd[d]
  BY DEF Adding
<1>3. ASSUME NEW d \in Conns, Adding(d)' PROVE Backed(cmd[d].group, UserOf[d])'
  <2>1. Backed(cmd[d].group, UserOf[d])
    BY <1>2, <1>3 DEF HandlersOK
  <2> QED BY <1>1, <1>2, <1>3, <2>1, BackedStays DEF Backed
<1>4. \A d \in Conns : pc'[d] \in {"leave", "remove"} => cmd'[d].op = "leave"
  BY DEF HandlersOK
<1>5. \A d \in Conns : pc'[d] = "insert" => convOf'[cmd'[d].group] # NoConv
  BY <1>1, BackedStays DEF HandlersOK
<1> QED BY <1>2, <1>3, <1>4, <1>5 DEF HandlersOK

\* A step of c's handler alone, to l, within a command.
LEMMA GotoHandlers ==
  ASSUME TypeOK, HandlersOK, [Next]_vars, NEW c \in Conns,
         \A d \in Conns : d # c => pc'[d] = pc[d] /\ cmd'[d] = cmd[d],
         cmd'[c].group = cmd[c].group \/ (~Adding(c)' /\ pc'[c] # "insert"),
         pc'[c] = "insert" => convOf'[cmd[c].group] # NoConv,
         Adding(c)' => Backed(cmd[c].group, UserOf[c])',
         pc'[c] \in {"leave", "remove"} => cmd'[c].op = "leave"
  PROVE  HandlersOK'
<1>1. \A d \in Conns : cmd[d].group \in Groups /\ UserOf[d] \in Users
  BY SubjectType, NameAssumption
<1>2. ASSUME NEW d \in Conns, d # c, Adding(d)' PROVE Backed(cmd[d].group, UserOf[d])'
  <2>1. Adding(d) /\ cmd'[d] = cmd[d]
    BY <1>2 DEF Adding
  <2>2. Backed(cmd[d].group, UserOf[d])
    BY <2>1 DEF HandlersOK
  <2> QED BY <1>1, <2>1, <2>2, BackedStays DEF Backed
<1>3. \A d \in Conns : pc'[d] \in {"leave", "remove"} => cmd'[d].op = "leave"
  BY DEF HandlersOK
<1>4. \A d \in Conns : pc'[d] = "insert" => convOf'[cmd'[d].group] # NoConv
  BY <1>1, BackedStays DEF HandlersOK
<1>5. \A d \in Conns : Adding(d)' => Backed(cmd[d].group, UserOf[d])'
  BY <1>2
<1> QED BY <1>3, <1>4, <1>5 DEF HandlersOK

\* The same, of a step to l that keeps the command.
LEMMA GotoStep ==
  ASSUME TypeOK, NEW c \in Conns, NEW l \in PCs, Goto(c, l), cmd' = cmd
  PROVE  pc'[c] = l /\ \A d \in Conns : d # c => pc'[d] = pc[d] /\ cmd'[d] = cmd[d]
BY DEF Goto, TypeOK

LEMMA HandlersInductive ==
  ASSUME TypeOK, HandlersOK, [Next]_vars
  PROVE  HandlersOK'
<1>0. \A d \in Conns : cmd[d].group \in Groups /\ UserOf[d] \in Users
  BY SubjectType, NameAssumption
<1>1. CASE UNCHANGED vars
  BY <1>1, ReturnHandlers DEF vars, handler
<1>2. ASSUME NEW c \in Conns,
             \/ Connect(c) \/ Disconnect(c) \/ Publish(c) \/ PublishError(c)
             \/ \E g \in Groups : DeleteGroup(c, g) \/ \E id \in Convs : Chat(c, g, id)
      PROVE  HandlersOK'
  <2>1. CASE Connect(c)
    BY <2>1, ReturnHandlers DEF Connect, Goto, TypeOK
  <2>2. CASE \E l \in {"off", "idle"} : Return(c, l)
    BY <2>2, ReturnPc, ReturnHandlers
  <2>3. CASE \E g \in Groups : DeleteGroup(c, g)
    BY <2>3, ReturnHandlers DEF DeleteGroup, handler
  <2>4. CASE \E g \in Groups : \E id \in Convs : Chat(c, g, id)
    BY <2>4, ReturnHandlers DEF Chat, handler
  <2> QED BY <1>2, <2>1, <2>2, <2>3, <2>4 DEF Disconnect, Publish, PublishError
<1>3. ASSUME NEW n \in Nodes, Listen(n) \/ ListenerEnd(n) \/ Restart(n) \/ Subscribe(n)
      PROVE  HandlersOK'
  <2>1. CASE Restart(n)
    BY <2>1, ReturnHandlers DEF Restart, TypeOK
  <2> QED BY <1>3, <2>1, ReturnHandlers DEF Listen, ListenIf, ListenerEnd, Subscribe, handler
<1>4. ASSUME NEW c \in Conns, NEW g \in Groups, NEW op \in Ops, Command(c, op, g)
      PROVE  HandlersOK'
  <2>1. /\ pc'[c] = op /\ cmd'[c].op = op
        /\ \A d \in Conns : d # c => pc'[d] = pc[d] /\ cmd'[d] = cmd[d]
    BY <1>4 DEF Command, Goto, TypeOK
  <2>2. ~Adding(c)' /\ op # "remove" /\ op # "insert"
    BY <2>1 DEF Adding, Ops
  <2> QED BY <2>1, <2>2, GotoHandlers
<1>5. ASSUME NEW c \in Conns, JoinSelect(c) PROVE HandlersOK'
  <2>1. CASE Return(c, "idle")
    BY <1>5, <2>1, ReturnPc, ReturnHandlers
  <2>2. CASE Exists(c) /\ Goto(c, "insert") /\ cmd' = cmd
    <3>1. convOf'[cmd[c].group] # NoConv
      BY <1>0, <2>2, BackedStays DEF Exists
    <3> QED BY <2>2, <3>1, GotoStep, GotoHandlers DEF PCs, Adding
  <2> QED BY <1>5, <2>1, <2>2 DEF JoinSelect
<1>6. ASSUME NEW c \in Conns, InsertMember(c) PROVE HandlersOK'
  <2>1. /\ convOf' = convOf /\ convOf[cmd[c].group] # NoConv /\ rows \subseteq rows'
        /\ {Subject(c)} \in SUBSET Memberships /\ Waive({Subject(c)})
        /\ Subject(c) = <<cmd[c].group, UserOf[c]>>
    BY <1>6, SubjectType DEF InsertMember, InsertRow, HandlersOK, Subject
  <2>3. Goto(c, "add") /\ cmd' = cmd
    BY <1>6 DEF InsertMember
  <2>4. \A g \in Groups : \A u \in Users : g = cmd[c].group /\ u = UserOf[c] => Backed(g, u)'
    BY <2>1, WaiveKeeps
  <2>2. Backed(cmd[c].group, UserOf[c])'
    BY <1>0, <2>3, <2>4 DEF Backed
  <2> QED BY <2>2, <2>3, GotoStep, GotoHandlers DEF PCs, Adding
<1>7. ASSUME NEW c \in Conns, RegistryJoin(c) PROVE HandlersOK'
  <2>1. Goto(c, "publish") /\ cmd' = cmd /\ pc[c] = "add"
    BY <1>7 DEF RegistryJoin
  <2>2. Backed(cmd[c].group, UserOf[c])'
    BY <1>0, <1>7, <2>1, BackedStays DEF HandlersOK, Adding, RegistryJoin
  <2> QED BY <2>1, <2>2, GotoStep, GotoHandlers DEF PCs, Adding
<1>8. ASSUME NEW c \in Conns, NEW id \in Convs, Upsert(c, id) PROVE HandlersOK'
  <2>1. CASE Return(c, "idle")
    BY <1>8, <2>1, ReturnPc, ReturnHandlers
  <2>2. CASE SetConv(cmd[c].group, id) /\ Goto(c, "insert") /\ cmd' = cmd
    <3>1. convOf'[cmd[c].group] # NoConv
      BY <1>0, <2>2, IdAssumption DEF SetConv, TypeOK
    <3> QED BY <2>2, <3>1, GotoStep, GotoHandlers DEF PCs, Adding
  <2> QED BY <1>8, <2>1, <2>2 DEF Upsert
<1>9. ASSUME NEW c \in Conns, LeaveDelete(c) PROVE HandlersOK'
  <2>1. Goto(c, "remove") /\ cmd' = cmd /\ cmd[c].op = "leave"
    BY <1>9 DEF LeaveDelete, HandlersOK
  <2> QED BY <2>1, GotoStep, GotoHandlers DEF PCs, Adding
<1>10. ASSUME NEW c \in Conns, RegistryLeave(c) PROVE HandlersOK'
  <2>1. Goto(c, "publish") /\ cmd' = cmd /\ cmd[c].op = "leave"
    BY <1>10 DEF RegistryLeave, HandlersOK
  <2> QED BY <2>1, GotoStep, GotoHandlers DEF PCs, Adding
<1>11. ASSUME NEW c \in Conns, DbError(c) PROVE HandlersOK'
  <2>1. CASE Return(c, "idle")
    BY <1>11, <2>1, ReturnPc, ReturnHandlers
  <2>2. CASE pc[c] = "insert" /\ Goto(c, "add") /\ cmd' = cmd /\ Waive({Subject(c)})
    <3>1. /\ convOf' = convOf /\ convOf[cmd[c].group] # NoConv /\ rows' = rows
          /\ {Subject(c)} \in SUBSET Memberships /\ Subject(c) = <<cmd[c].group, UserOf[c]>>
      BY <1>11, <2>2, SubjectType DEF DbError, HandlersOK, Subject, db
    <3>3. \A g \in Groups : \A u \in Users : g = cmd[c].group /\ u = UserOf[c] => Backed(g, u)'
      BY <2>2, <3>1, WaiveKeeps
    <3>2. Backed(cmd[c].group, UserOf[c])'
      BY <1>0, <2>2, <3>3 DEF Backed
    <3> QED BY <2>2, <3>2, GotoStep, GotoHandlers DEF PCs, Adding
  <2>3. CASE pc[c] = "leave" /\ Goto(c, "remove") /\ cmd' = cmd
    <3>1. cmd[c].op = "leave"
      BY <2>3 DEF HandlersOK
    <3> QED BY <2>3, <3>1, GotoStep, GotoHandlers DEF PCs, Adding
  <2> QED BY <1>11, <2>1, <2>2, <2>3 DEF DbError
<1>12. ASSUME NEW k \in adrift,
              LandPublish(k) \/ LandInsert(k) \/ LandDelete(k) \/ \E id \in Convs : LandUpsert(k, id)
       PROVE  HandlersOK'
  BY <1>12, ReturnHandlers DEF LandPublish, LandInsert, LandDelete, LandUpsert, Land, handler
<1> QED BY <1>1, <1>2, <1>3, <1>4, <1>5, <1>6, <1>7, <1>8, <1>9, <1>10, <1>11, <1>12 DEF Next

\* The calls that are adrift after each step: those of before, or of a handler.
LEMMA AdriftFrom ==
  ASSUME TypeOK, [Next]_vars, NEW k \in adrift'
  PROVE  k \in adrift \/ \E c \in Conns : pc[c] \in Awaits /\ k = Call(c)
<1>1. ASSUME NEW C \in SUBSET Conns, GiveUp(C)
      PROVE  k \in adrift \/ \E c \in Conns : pc[c] \in Awaits /\ k = Call(c)
  BY <1>1 DEF GiveUp
<1>2. ASSUME adrift' \subseteq adrift
      PROVE  k \in adrift \/ \E c \in Conns : pc[c] \in Awaits /\ k = Call(c)
  BY <1>2
<1>3. ASSUME NEW c \in Conns, Disconnect(c) \/ DbError(c) \/ PublishError(c)
      PROVE  k \in adrift \/ \E d \in Conns : pc[d] \in Awaits /\ k = Call(d)
  <2>1. GiveUp({c}) \/ adrift' = adrift
    BY <1>3 DEF Disconnect, DbError, PublishError
  <2> QED BY <1>1, <1>2, <2>1
<1>4. ASSUME NEW n \in Nodes, Restart(n)
      PROVE  k \in adrift \/ \E c \in Conns : pc[c] \in Awaits /\ k = Call(c)
  <2>1. GiveUp({c \in Conns : NodeOf[c] = n})
    BY <1>4 DEF Restart
  <2> QED BY <1>1, <2>1
<1>5. ASSUME NEW c \in Conns,
             \/ Connect(c) \/ JoinSelect(c) \/ InsertMember(c) \/ RegistryJoin(c)
             \/ LeaveDelete(c) \/ RegistryLeave(c) \/ Publish(c)
             \/ \E g \in Groups : DeleteGroup(c, g) \/ \E op \in Ops : Command(c, op, g)
             \/ \E id \in Convs : Upsert(c, id) \/ \E g \in Groups : Chat(c, g, id)
      PROVE  adrift' \subseteq adrift
  BY <1>5 DEF Connect, JoinSelect, InsertMember, RegistryJoin, LeaveDelete, RegistryLeave,
              Publish, DeleteGroup, Command, Upsert, Chat
<1>6. ASSUME NEW l \in adrift,
             LandPublish(l) \/ LandInsert(l) \/ LandDelete(l) \/ \E id \in Convs : LandUpsert(l, id)
      PROVE  adrift' \subseteq adrift
  BY <1>6 DEF LandPublish, LandInsert, LandDelete, LandUpsert, Land
<1>7. ASSUME NEW n \in Nodes, Listen(n) \/ ListenerEnd(n) \/ Subscribe(n)
      PROVE  adrift' \subseteq adrift
  BY <1>7 DEF Listen, ListenIf, ListenerEnd, Subscribe
<1>8. CASE UNCHANGED vars
  BY <1>8 DEF vars
<1> QED BY <1>2, <1>3, <1>4, <1>5, <1>6, <1>7, <1>8 DEF Next

LEMMA AdriftInductive ==
  ASSUME TypeOK, HandlersOK, AdriftOK, [Next]_vars
  PROVE  AdriftOK'
<1> SUFFICES ASSUME NEW k \in adrift', k.pc = "publish", k.cmd.op = "join"
             PROVE  Backed(k.cmd.group, UserOf[k.conn])'
  BY DEF AdriftOK, Backed
<1>1. CASE k \in adrift
  <2>1. k.cmd.group \in Groups /\ UserOf[k.conn] \in Users /\ Backed(k.cmd.group, UserOf[k.conn])
    BY <1>1, AboutType DEF TypeOK, AdriftOK
  <2> QED BY <2>1, BackedStays
<1>2. ASSUME NEW c \in Conns, k = Call(c) PROVE Backed(k.cmd.group, UserOf[k.conn])'
  <2>1. Adding(c) /\ k.cmd = cmd[c] /\ k.conn = c
    BY <1>2, CallType DEF Adding
  <2>2. Backed(cmd[c].group, UserOf[c]) /\ cmd[c].group \in Groups /\ UserOf[c] \in Users
    BY <2>1, SubjectType, NameAssumption DEF HandlersOK
  <2> QED BY <2>1, <2>2, BackedStays
<1> QED BY <1>1, <1>2, AdriftFrom

\* The inboxes after each step: an event was there before, or is broadcast.
LEMMA EventsFrom ==
  ASSUME TypeOK, [Next]_vars, NEW n \in Nodes, NEW e \in Events, Waiting(n, e)', IsJoin(e)
  PROVE  \/ Waiting(n, e)
         \/ \E c \in Conns : Publish(c) /\ e = Event(Call(c))
         \/ \E k \in adrift : LandPublish(k) /\ e = Event(k) /\ listener[n] = "on"
<1>0. inbox[n] \in Seq(Events)
  BY DEF TypeOK
<1>1. PICK i \in 1 .. Len(inbox'[n]) : inbox'[n][i] = e
  BY DEF Waiting
<1>2. ASSUME inbox'[n] = inbox[n] PROVE Waiting(n, e)
  BY <1>1, <1>2 DEF Waiting
<1>3. ASSUME NEW m \in Nodes, inbox' = [inbox EXCEPT ![m] = << >>]
      PROVE  Waiting(n, e)
  <2>1. CASE n = m
    <3>1. inbox'[n] = << >>
      BY <1>3, <2>1 DEF TypeOK
    <3> QED BY <1>1, <3>1
  <2>2. CASE n # m
    BY <1>2, <1>3, <2>2 DEF TypeOK
  <2> QED BY <2>1, <2>2
<1>4. ASSUME NEW m \in Nodes, Listen(m) PROVE Waiting(n, e)
  <2>1. inbox' = [inbox EXCEPT ![m] = Tail(@)] /\ inbox[m] # << >>
    BY <1>4, ListenStep
  <2>2. CASE n = m
    <3>1. inbox'[n] = Tail(inbox[n])
      BY <2>1, <2>2 DEF TypeOK
    <3>2. i \in 1 .. Len(Tail(inbox[n])) /\ inbox[n] # << >>
      BY <1>1, <2>1, <2>2, <3>1
    <3>3. Tail(inbox[n])[i] = inbox[n][i + 1] /\ i + 1 \in 1 .. Len(inbox[n])
      BY <1>0, <3>2
    <3> QED BY <1>1, <3>1, <3>3 DEF Waiting
  <2>3. CASE n # m
    BY <1>2, <2>1, <2>3 DEF TypeOK
  <2> QED BY <2>2, <2>3
<1>5. ASSUME NEW k \in Calls, Broadcast(k)
      PROVE  Waiting(n, e) \/ (e = Event(k) /\ listener[n] = "on")
  <2>0. inbox'[n] = inbox[n] \/ (inbox'[n] = Append(inbox[n], Event(k)) /\ listener[n] = "on")
    BY <1>5 DEF Broadcast
  <2>1. Event(k) \in Events
    BY AboutType
  <2>2. CASE inbox'[n] = Append(inbox[n], Event(k)) /\ i \in 1 .. Len(inbox[n])
    <3>1. inbox'[n][i] = inbox[n][i]
      BY <1>0, <2>1, <2>2, AppendProperties
    <3> QED BY <1>1, <2>2, <3>1 DEF Waiting
  <2>3. CASE /\ inbox'[n] = Append(inbox[n], Event(k)) /\ listener[n] = "on"
             /\ i \notin 1 .. Len(inbox[n])
    <3>1. inbox'[n][i] = Event(k)
      BY <1>0, <1>1, <2>1, <2>3, AppendProperties
    <3> QED BY <1>1, <2>3, <3>1
  <2> QED BY <1>2, <2>0, <2>2, <2>3
<1>6. ASSUME NEW c \in Conns,
             \/ Connect(c) \/ Disconnect(c) \/ JoinSelect(c) \/ InsertMember(c) \/ RegistryJoin(c)
             \/ LeaveDelete(c) \/ RegistryLeave(c) \/ DbError(c) \/ PublishError(c)
             \/ \E g \in Groups : DeleteGroup(c, g) \/ \E op \in Ops : Command(c, op, g)
             \/ \E id \in Convs : Upsert(c, id) \/ \E g \in Groups : Chat(c, g, id)
      PROVE  inbox' = inbox
  BY <1>6 DEF Connect, Disconnect, JoinSelect, InsertMember, RegistryJoin, LeaveDelete,
              RegistryLeave, DbError, PublishError, DeleteGroup, Command, Upsert, Chat, redis
<1>7. ASSUME NEW m \in Nodes, ListenerEnd(m) \/ Restart(m) PROVE Waiting(n, e)
  BY <1>3, <1>7 DEF ListenerEnd, Restart
<1>8. ASSUME NEW m \in Nodes, Subscribe(m) PROVE inbox' = inbox
  BY <1>8 DEF Subscribe
<1>9. ASSUME NEW c \in Conns, Publish(c) PROVE Waiting(n, e) \/ e = Event(Call(c))
  BY <1>5, <1>9, CallType DEF Publish, Awaits
<1>10. ASSUME NEW k \in adrift, LandPublish(k)
       PROVE  Waiting(n, e) \/ (e = Event(k) /\ listener[n] = "on")
  BY <1>5, <1>10 DEF LandPublish, TypeOK
<1>11. ASSUME NEW k \in adrift,
              LandInsert(k) \/ LandDelete(k) \/ \E id \in Convs : LandUpsert(k, id)
       PROVE  inbox' = inbox
  BY <1>11 DEF LandInsert, LandDelete, LandUpsert
<1>12. CASE UNCHANGED vars
  BY <1>2, <1>12 DEF vars, redis
<1> QED BY <1>2, <1>4, <1>6, <1>7, <1>8, <1>9, <1>10, <1>11, <1>12 DEF Next

LEMMA BackedEvents ==
  ASSUME TypeOK, BackInv, [Next]_vars, NEW n \in Nodes, NEW e \in Events,
         Waiting(n, e)', IsJoin(e)
  PROVE  Backed(e.group, e.user)'
<1>1. Backed(e.group, e.user)
  <2>1. CASE Waiting(n, e)
    BY <2>1 DEF BackInv
  <2>2. ASSUME NEW c \in Conns, Publish(c), e = Event(Call(c))
        PROVE  Backed(e.group, e.user)
    <3>1. Adding(c) /\ e.group = cmd[c].group /\ e.user = UserOf[c]
      BY <2>2, CallType DEF Publish, IsJoin, Event, Adding
    <3> QED BY <3>1 DEF BackInv, HandlersOK
  <2>3. ASSUME NEW k \in adrift, LandPublish(k), e = Event(k)
        PROVE  Backed(e.group, e.user)
    <3>1. k.pc = "publish" /\ k.cmd.op = "join" /\ e.group = k.cmd.group /\ e.user = UserOf[k.conn]
      BY <2>3 DEF LandPublish, Land, IsJoin, Event
    <3> QED BY <3>1 DEF BackInv, AdriftOK
  <2> QED BY <2>1, <2>2, <2>3, EventsFrom
<1>2. e.group \in Groups /\ e.user \in Users
  BY DEF Events
<1> QED BY <1>1, <1>2, BackedStays

LEMMA BackInductive == TypeOK /\ BackInv /\ [Next]_vars => BackInv'
<1> SUFFICES ASSUME TypeOK, BackInv, [Next]_vars PROVE BackInv'
  OBVIOUS
<1>1. HandlersOK' /\ AdriftOK'
  BY HandlersInductive, AdriftInductive DEF BackInv
<1> QED BY <1>1, BackedMembers, BackedEvents DEF BackInv

LEMMA BackInit == Init => BackInv
BY DEF Init, BackInv, HandlersOK, AdriftOK, Adding, Waiting

\* No order of JOINs, CREATEs that give a group a new conversation id, LEAVEs by any
\* name, aborted handlers, refused and late statements, restarts and events of other
\* nodes leaves a member whose row is neither there nor known to be missing.
THEOREM MembersHaveRows == Spec => []RowBacked
<1>1. TypeOK /\ BackInv => RowBacked
  BY DEF TypeOK, BackInv, RowBacked, Backed, Counted
<1> QED BY <1>1, BackInit, BackInductive, TypeCorrect, PTL DEF Spec

-----------------------------------------------------------------------------
(* A LEAVE holds *)

\* The handler of connection c works on a command of user u about group g.
Works(c, g, u) == pc[c] \notin {"off", "idle"} /\ Subject(c) = <<g, u>>

\* Neither in the registry of node n, nor about to be brought back by its listener.
Out(n, g, u) == u \notin members[n][g] /\ ~Announced(n, g, u)

\* What stands behind a LEAVE of the history: the user has no other command
\* under way, and is out unless the LEAVE has yet to take the user out.
LeftInv ==
    \A n \in Nodes : \A g \in Groups, u \in Users :
        <<n, <<g, u>>>> \in left =>
            /\ \A c \in Conns :
                  Works(c, g, u) => cmd[c].op = "leave" /\ pc[c] \in {"leave", "remove", "publish"}
            /\ \/ Out(n, g, u)
               \/ \E c \in Conns : Works(c, g, u) /\ pc[c] \in {"leave", "remove"} /\ NodeOf[c] = n

\* The only ways into a registry: a connection of the user, or a join event.
LEMMA MembersGain ==
  ASSUME TypeOK, [Next]_vars, NEW n \in Nodes, NEW g \in Groups, NEW u \in Users,
         u \notin members[n][g], u \in members'[n][g]
  PROVE  \/ \E c \in Conns : Connect(c) /\ g = General /\ u = UserOf[c]
         \/ \E c \in Conns : RegistryJoin(c) /\ Subject(c) = <<g, u>>
         \/ Listen(n) /\ Announced(n, g, u)
<1>1. \A m \in Nodes : \A h \in Groups : \A v \in Users :
         members' = [members EXCEPT ![m][h] = @ \cup {v}] => m = n /\ h = g /\ v = u
  <2> SUFFICES ASSUME NEW m \in Nodes, NEW h \in Groups, NEW v \in Users,
                      members' = [members EXCEPT ![m][h] = @ \cup {v}]
               PROVE  m = n /\ h = g /\ v = u
    OBVIOUS
  <2>1. CASE m # n
    BY <2>1 DEF TypeOK
  <2>2. CASE m = n
    <3>1. members'[n] = [members[n] EXCEPT ![h] = @ \cup {v}]
      BY <2>2 DEF TypeOK
    <3> QED BY <2>2, <3>1 DEF TypeOK
  <2> QED BY <2>1, <2>2
<1>2. ASSUME NEW c \in Conns, Connect(c) PROVE g = General /\ u = UserOf[c]
  BY <1>1, <1>2, NameAssumption DEF Connect, JoinGroup
<1>3. ASSUME NEW c \in Conns, RegistryJoin(c) PROVE Subject(c) = <<g, u>>
  BY <1>1, <1>3, SubjectType, NameAssumption DEF RegistryJoin, JoinGroup, Subject
<1>4. ASSUME NEW m \in Nodes, Listen(m) PROVE m = n /\ Announced(n, g, u)
  <2>1. Head(inbox[m]).group \in Groups /\ Head(inbox[m]).user \in Users
    BY <1>4, ListenStep DEF Events
  <2>2. IsJoin(Head(inbox[m]))
    BY <1>4, ListenStep
  <2>3. m = n /\ Head(inbox[m]).group = g /\ Head(inbox[m]).user = u
    <3>1. members' = [members EXCEPT ![m][Head(inbox[m]).group] = @ \cup {Head(inbox[m]).user}]
      BY <1>4, <2>2, ListenStep
    <3> QED BY <1>1, <2>1, <3>1, Zenon
  <2>4. 1 \in 1 .. Len(inbox[m]) /\ Head(inbox[m]) = inbox[m][1]
    BY <1>4, ListenStep
  <2> QED BY <2>2, <2>3, <2>4 DEF Announced
<1>5. ASSUME NEW c \in Conns, RegistryLeave(c) PROVE FALSE
  <2>1. NodeOf[c] \in Nodes /\ cmd[c].group \in Groups
    BY SubjectType, NameAssumption
  <2>2. members' = [members EXCEPT ![NodeOf[c]][cmd[c].group] = @ \ {UserOf[c]}]
    BY <1>5 DEF RegistryLeave, LeaveGroup
  <2> QED BY <2>1, <2>2 DEF TypeOK
<1>6. ASSUME NEW c \in Conns, NEW h \in Groups, DeleteGroup(c, h) PROVE FALSE
  <2>1. members' = [members EXCEPT ![NodeOf[c]][h] = {}] /\ NodeOf[c] \in Nodes
    BY <1>6, NameAssumption DEF DeleteGroup
  <2> QED BY <2>1 DEF TypeOK
<1>7. ASSUME NEW m \in Nodes, Restart(m) PROVE FALSE
  BY <1>7 DEF Restart, TypeOK
<1>8. ASSUME NEW c \in Conns,
             \/ Disconnect(c) \/ JoinSelect(c) \/ InsertMember(c) \/ LeaveDelete(c)
             \/ DbError(c) \/ Publish(c) \/ PublishError(c)
             \/ \E h \in Groups : \E op \in Ops : Command(c, op, h)
             \/ \E id \in Convs : Upsert(c, id) \/ \E h \in Groups : Chat(c, h, id)
      PROVE  FALSE
  BY <1>8 DEF Disconnect, JoinSelect, InsertMember, LeaveDelete, DbError, Publish, PublishError,
              Command, Upsert, Chat
<1>9. ASSUME NEW m \in Nodes, ListenerEnd(m) \/ Subscribe(m) PROVE FALSE
  BY <1>9 DEF ListenerEnd, Subscribe
<1>10. ASSUME NEW k \in adrift,
              LandPublish(k) \/ LandInsert(k) \/ LandDelete(k) \/ \E id \in Convs : LandUpsert(k, id)
       PROVE  FALSE
  BY <1>10 DEF LandPublish, LandInsert, LandDelete, LandUpsert, Land
<1>11. CASE UNCHANGED vars
  BY <1>11 DEF vars
<1> QED BY <1>2, <1>3, <1>4, <1>5, <1>6, <1>7, <1>8, <1>9, <1>10, <1>11 DEF Next

\* A join waits at a node only if it did before or is being published, in time or
\* late.
LEMMA AnnouncedGain ==
  ASSUME TypeOK, [Next]_vars, NEW n \in Nodes, NEW g \in Groups, NEW u \in Users,
         Announced(n, g, u)'
  PROVE  \/ Announced(n, g, u)
         \/ \E c \in Conns : Publish(c) /\ cmd[c].op = "join" /\ Subject(c) = <<g, u>>
         \/ \E k \in adrift : /\ LandPublish(k) /\ listener[n] = "on"
                              /\ k.cmd.op = "join" /\ About(k) = <<g, u>>
<1>1. PICK i \in 1 .. Len(inbox'[n]) :
          IsJoin(inbox'[n][i]) /\ inbox'[n][i].group = g /\ inbox'[n][i].user = u
  BY DEF Announced
<1>2. inbox'[n] \in Seq(Events)
  BY TypeInductive DEF TypeOK
<1>3. PICK e \in Events : e = inbox'[n][i]
  BY <1>1, <1>2, ElementOfSeq
<1>4. Waiting(n, e)'
  BY <1>1, <1>3 DEF Waiting
<1>5. CASE Waiting(n, e)
  BY <1>1, <1>3, <1>5 DEF Waiting, Announced
<1>6. ASSUME NEW c \in Conns, Publish(c), e = Event(Call(c))
      PROVE  cmd[c].op = "join" /\ Subject(c) = <<g, u>>
  BY <1>1, <1>3, <1>6, CallType DEF Event, IsJoin, Subject
<1>7. ASSUME NEW k \in adrift, LandPublish(k), e = Event(k)
      PROVE  k.cmd.op = "join" /\ About(k) = <<g, u>>
  BY <1>1, <1>3, <1>7 DEF Event, IsJoin, About
<1> QED BY <1>1, <1>3, <1>4, <1>5, <1>6, <1>7, EventsFrom

\* Every step takes LEAVEs out of the history, but for a new LEAVE, which no other
\* command of the user is under way with.
LEMMA LeftGain ==
  ASSUME TypeOK, [Next]_vars, NEW l \in left', l \notin left
  PROVE  \E c \in Conns, g \in Groups :
            /\ Command(c, "leave", g) /\ l = <<NodeOf[c], <<g, UserOf[c]>>>>
            /\ \A d \in Conns : ~Works(d, g, UserOf[c])
<1>1. ASSUME NEW c \in Conns,
             \/ Connect(c) \/ Disconnect(c) \/ JoinSelect(c) \/ InsertMember(c) \/ RegistryJoin(c)
             \/ LeaveDelete(c) \/ RegistryLeave(c) \/ DbError(c) \/ Publish(c) \/ PublishError(c)
             \/ \E g \in Groups : DeleteGroup(c, g)
             \/ \E id \in Convs : Upsert(c, id) \/ \E g \in Groups : Chat(c, g, id)
      PROVE  left' \subseteq left
  BY <1>1 DEF Connect, Disconnect, JoinSelect, InsertMember, RegistryJoin, LeaveDelete,
              RegistryLeave, DbError, Publish, PublishError, DeleteGroup, Upsert, Chat,
              LeftWithout, history
<1>2. ASSUME NEW n \in Nodes, Listen(n) \/ ListenerEnd(n) \/ Restart(n) \/ Subscribe(n)
      PROVE  left' \subseteq left
  BY <1>2 DEF Listen, ListenIf, ListenerEnd, Restart, Subscribe, history
<1>3. ASSUME NEW c \in Conns, NEW g \in Groups, NEW op \in Ops, Command(c, op, g)
      PROVE  /\ Command(c, "leave", g) /\ l = <<NodeOf[c], <<g, UserOf[c]>>>>
             /\ \A d \in Conns : ~Works(d, g, UserOf[c])
  <2>1. op = "leave" /\ ~Busy(g, UserOf[c]) /\ l = <<NodeOf[c], <<g, UserOf[c]>>>>
    BY <1>3 DEF Command, LeftWithout
  <2> QED BY <1>3, <2>1 DEF Busy, Works
<1>4. ASSUME NEW k \in adrift,
             LandPublish(k) \/ LandInsert(k) \/ LandDelete(k) \/ \E id \in Convs : LandUpsert(k, id)
      PROVE  left' \subseteq left
  BY <1>4 DEF LandPublish, LandInsert, LandDelete, LandUpsert, Land, history
<1>5. CASE UNCHANGED vars
  BY <1>5 DEF vars, history
<1> QED BY <1>1, <1>2, <1>3, <1>4, <1>5 DEF Next

\* A user who is out stays out: no join of the user is under way, and one that is
\* published late takes the LEAVE out of the history.
LEMMA OutStays ==
  ASSUME TypeOK, LeftInv, [Next]_vars, NEW n \in Nodes, NEW g \in Groups, NEW u \in Users,
         <<n, <<g, u>>>> \in left, <<n, <<g, u>>>> \in left', Out(n, g, u)
  PROVE  Out(n, g, u)'
<1>1. \A c \in Conns :
         Works(c, g, u) => cmd[c].op = "leave" /\ pc[c] \in {"leave", "remove", "publish"}
  BY DEF LeftInv
<1>2. u \notin members'[n][g]
  <2> SUFFICES ASSUME u \in members'[n][g] PROVE FALSE
    OBVIOUS
  <2>1. ASSUME NEW c \in Conns, Connect(c), g = General, u = UserOf[c] PROVE FALSE
    BY <2>1 DEF Connect, LeftWithout
  <2>2. ASSUME NEW c \in Conns, RegistryJoin(c), Subject(c) = <<g, u>> PROVE FALSE
    BY <1>1, <2>2 DEF RegistryJoin, Works
  <2> QED BY <2>1, <2>2, MembersGain DEF Out
<1>3. ASSUME NEW c \in Conns, Publish(c), Subject(c) = <<g, u>>
      PROVE  cmd[c].op = "leave"
  BY <1>1, <1>3 DEF Publish, Works
<1>4. ASSUME NEW k \in adrift, LandPublish(k), listener[n] = "on",
             k.cmd.op = "join", About(k) = <<g, u>>
      PROVE  FALSE
  BY <1>4 DEF LandPublish
<1>5. ~Announced(n, g, u)'
  BY <1>3, <1>4, AnnouncedGain DEF Out
<1> QED BY <1>2, <1>5 DEF Out

\* What a step does to the handler of connection c.
LEMMA HandlerStep ==
  ASSUME TypeOK, [Next]_vars, NEW c \in Conns
  PROVE  \/ pc'[c] = pc[c] /\ cmd'[c] = cmd[c]
         \/ (pc'[c] \in {"off", "idle"} /\
                (pc[c] \in {"leave", "remove"} => Disconnect(c) \/ Restart(NodeOf[c])))
         \/ \E g \in Groups, op \in Ops : Command(c, op, g)
         \/ pc[c] \in {"join", "create", "insert", "add"} /\ cmd'[c] = cmd[c]
         \/ pc[c] = "leave" /\ pc'[c] = "remove" /\ cmd'[c] = cmd[c]
         \/ RegistryLeave(c) /\ pc'[c] = "publish" /\ cmd'[c] = cmd[c]
<1>1. ASSUME NEW d \in Conns, Connect(d) \/ Disconnect(d) \/ LeaveDelete(d) \/ RegistryLeave(d)
      PROVE  \/ pc'[c] = pc[c] /\ cmd'[c] = cmd[c]
             \/ (pc'[c] \in {"off", "idle"} /\ (pc[c] \in {"leave", "remove"} => Disconnect(c)))
             \/ pc[c] = "leave" /\ pc'[c] = "remove" /\ cmd'[c] = cmd[c]
             \/ RegistryLeave(c) /\ pc'[c] = "publish" /\ cmd'[c] = cmd[c]
  BY <1>1 DEF Connect, Disconnect, LeaveDelete, RegistryLeave, Return, Goto, TypeOK
<1>2. ASSUME NEW d \in Conns,
             \/ JoinSelect(d) \/ InsertMember(d) \/ RegistryJoin(d)
             \/ \E id \in Convs : Upsert(d, id)
      PROVE  \/ pc'[c] = pc[c] /\ cmd'[c] = cmd[c]
             \/ (pc'[c] = "idle" /\ pc[c] \notin {"leave", "remove"})
             \/ pc[c] \in {"join", "create", "insert", "add"} /\ cmd'[c] = cmd[c]
  BY <1>2 DEF JoinSelect, InsertMember, RegistryJoin, Upsert, Return, Goto, TypeOK
<1>3. ASSUME NEW d \in Conns, DbError(d)
      PROVE  \/ pc'[c] = pc[c] /\ cmd'[c] = cmd[c]
             \/ (pc'[c] = "idle" /\ pc[c] \notin {"leave", "remove"})
             \/ pc[c] = "insert" /\ cmd'[c] = cmd[c]
             \/ pc[c] = "leave" /\ pc'[c] = "remove" /\ cmd'[c] = cmd[c]
  BY <1>3 DEF DbError, Return, Goto, TypeOK
<1>4. ASSUME NEW d \in Conns, Publish(d) \/ PublishError(d)
      PROVE  \/ pc'[c] = pc[c] /\ cmd'[c] = cmd[c]
             \/ (pc'[c] = "idle" /\ pc[c] \notin {"leave", "remove"})
  BY <1>4 DEF Publish, PublishError, Return, Goto, TypeOK
<1>5. ASSUME NEW d \in Conns, NEW g \in Groups, NEW op \in Ops, Command(d, op, g)
      PROVE  (pc'[c] = pc[c] /\ cmd'[c] = cmd[c]) \/ Command(c, op, g)
  BY <1>5 DEF Command, Goto, TypeOK
<1>6. ASSUME NEW d \in Conns,
             \E g \in Groups : DeleteGroup(d, g) \/ \E id \in Convs : Chat(d, g, id)
      PROVE  pc' = pc /\ cmd' = cmd
  BY <1>6 DEF DeleteGroup, Chat, handler
<1>7. ASSUME NEW n \in Nodes, Restart(n)
      PROVE  (pc'[c] = pc[c] /\ cmd'[c] = cmd[c]) \/ (pc'[c] = "off" /\ Restart(NodeOf[c]))
  BY <1>7 DEF Restart, TypeOK
<1>8. ASSUME NEW n \in Nodes, Listen(n) \/ ListenerEnd(n) \/ Subscribe(n)
      PROVE  pc' = pc /\ cmd' = cmd
  BY <1>8 DEF Listen, ListenIf, ListenerEnd, Subscribe, handler
<1>9. ASSUME NEW k \in adrift,
             LandPublish(k) \/ LandInsert(k) \/ LandDelete(k) \/ \E id \in Convs : LandUpsert(k, id)
      PROVE  pc' = pc /\ cmd' = cmd
  BY <1>9 DEF LandPublish, LandInsert, LandDelete, LandUpsert, Land, handler
<1>10. CASE UNCHANGED vars
  BY <1>10 DEF vars, handler
<1> QED BY <1>1, <1>2, <1>3, <1>4, <1>5, <1>6, <1>7, <1>8, <1>9, <1>10 DEF Next

LEMMA LeftInductive == TypeOK /\ LeftInv /\ [Next]_vars => LeftInv'
<1> SUFFICES ASSUME TypeOK, LeftInv, [Next]_vars,
                    NEW n \in Nodes, NEW g \in Groups, NEW u \in Users, <<n, <<g, u>>>> \in left'
             PROVE  /\ \A c \in Conns : Works(c, g, u)' =>
                          cmd'[c].op = "leave" /\ pc'[c] \in {"leave", "remove", "publish"}
                    /\ \/ Out(n, g, u)'
                       \/ \E c \in Conns :
                            Works(c, g, u)' /\ pc'[c] \in {"leave", "remove"} /\ NodeOf[c] = n
  BY DEF LeftInv
<1>1. CASE <<n, <<g, u>>>> \notin left
  <2>1. PICK c \in Conns : /\ Command(c, "leave", g) /\ n = NodeOf[c] /\ u = UserOf[c]
                           /\ \A d \in Conns : ~Works(d, g, u)
    BY <1>1, LeftGain
  <2>2. /\ pc'[c] = "leave" /\ cmd'[c].op = "leave" /\ cmd'[c].group = g
        /\ \A d \in Conns : d # c => pc'[d] = pc[d] /\ cmd'[d] = cmd[d]
    BY <2>1 DEF Command, Goto, TypeOK
  <2>3. Works(c, g, u)' /\ \A d \in Conns : d # c => ~Works(d, g, u)'
    BY <2>1, <2>2 DEF Works, Subject
  <2> QED BY <2>1, <2>2, <2>3
<1>2. CASE <<n, <<g, u>>>> \in left
  <2>1. ASSUME NEW c \in Conns, Works(c, g, u)'
        PROVE  cmd'[c].op = "leave" /\ pc'[c] \in {"leave", "remove", "publish"}
    <3>1. Works(c, g, u) /\ cmd'[c] = cmd[c] =>
             cmd[c].op = "leave" /\ pc[c] \in {"leave", "remove", "publish"}
      BY <1>2 DEF LeftInv
    <3>2. ASSUME NEW h \in Groups, NEW op \in Ops, Command(c, op, h)
          PROVE  op = "leave" /\ pc'[c] = "leave" /\ cmd'[c].op = "leave"
      <4>1. cmd'[c] = [op |-> op, group |-> h] /\ pc'[c] = op
        BY <3>2 DEF Command, Goto, TypeOK
      <4>2. h = g /\ UserOf[c] = u
        BY <2>1, <4>1 DEF Works, Subject
      <4>3. op = "leave"
        BY <1>2, <3>2, <4>2 DEF Command, LeftWithout
      <4> QED BY <4>1, <4>3
    <3>3. cmd'[c] = cmd[c] /\ pc[c] \notin {"off", "idle"} => Works(c, g, u)
      BY <2>1 DEF Works, Subject
    <3>4. pc'[c] \notin {"off", "idle"}
      BY <2>1 DEF Works
    <3>5. CASE \E h \in Groups, op \in Ops : Command(c, op, h)
      BY <3>2, <3>5
    <3>6. CASE cmd'[c] = cmd[c]
      <4>1. CASE pc[c] \in {"off", "idle"}
        BY <3>4, <3>5, <4>1, HandlerStep DEF RegistryLeave
      <4>2. CASE pc[c] \notin {"off", "idle"}
        BY <3>1, <3>3, <3>4, <3>5, <3>6, <4>2, HandlerStep
      <4> QED BY <4>1, <4>2
    <3> QED BY <3>4, <3>5, <3>6, HandlerStep
  <2>2. CASE Out(n, g, u)
    BY <1>2, <2>1, <2>2, OutStays
  <2>3. ASSUME NEW c \in Conns, Works(c, g, u), pc[c] \in {"leave", "remove"}, NodeOf[c] = n
        PROVE  \/ Out(n, g, u)'
               \/ Works(c, g, u)' /\ pc'[c] \in {"leave", "remove"}
    <3>1. Subject(c) = <<g, u>> /\ cmd[c].group = g /\ UserOf[c] = u
      BY <2>3 DEF Works, Subject
    <3>2. ASSUME cmd'[c] = cmd[c], pc'[c] \in {"leave", "remove"} PROVE Works(c, g, u)'
      BY <3>1, <3>2 DEF Works, Subject
    <3>3. ~Disconnect(c)
      BY <2>3, <3>1 DEF Disconnect, LeftWithout
    <3>4. ~Restart(NodeOf[c])
      BY <2>3 DEF Restart
    <3>5. ASSUME RegistryLeave(c) PROVE Out(n, g, u)'
      <4>1. members' = [members EXCEPT ![n][g] = @ \ {u}]
        BY <2>3, <3>1, <3>5 DEF RegistryLeave, LeaveGroup
      <4>2. ~Announced(n, g, u) /\ inbox' = inbox
        BY <1>2, <2>3, <3>1, <3>5 DEF RegistryLeave, redis
      <4>3. u \notin members'[n][g]
        BY <4>1 DEF TypeOK
      <4> QED BY <4>2, <4>3 DEF Out, Announced
    <3>6. ASSUME NEW h \in Groups, NEW op \in Ops, Command(c, op, h) PROVE FALSE
      BY <2>3, <3>6 DEF Command
    <3> QED BY <2>3, <3>2, <3>3, <3>4, <3>5, <3>6, HandlerStep
  <2> QED BY <1>2, <2>1, <2>2, <2>3 DEF LeftInv
<1> QED BY <1>1, <1>2

\* A user whose last command about a group was LEAVE stays out of it on the node
\* that handled it, whatever the other nodes, the database and Redis do, unless a
\* join of the user reaches Redis after all.
THEOREM LeaveHoldsAlways == Spec => []LeaveHolds
<1>1. Init => LeftInv
  BY DEF Init, LeftInv
<1>2. TypeOK /\ LeftInv => LeaveHolds
  <2> SUFFICES ASSUME TypeOK, LeftInv, NEW l \in Over PROVE l[2][2] \notin members[l[1]][l[2][1]]
    BY DEF LeaveHolds
  <2>1. PICK n \in Nodes, g \in Groups, u \in Users : l = <<n, <<g, u>>>>
    BY DEF Over, TypeOK, Memberships
  <2>2. <<n, <<g, u>>>> \in left /\ \A c \in Conns : ~Works(c, g, u)
    BY <2>1 DEF Over, Busy, Works
  <2> QED BY <2>1, <2>2 DEF LeftInv, Out
<1> QED BY <1>1, <1>2, LeftInductive, TypeCorrect, PTL DEF Spec

-----------------------------------------------------------------------------
(* Who gets into the group list *)

\* A name that is not a spelling of a Uuid.
Plain(g) == Parse[g] = NoConv

\* A handler that is about to insert a row for group g, or an INSERT given up,
\* holds the conversation_id x.
Held(g, x) ==
    \/ \E c \in Conns : pc[c] = "insert" /\ cmd[c].group = g /\ conv[c] = x
    \/ \E k \in adrift : k.pc = "insert" /\ k.cmd.group = g /\ k.conv = x

\* The id x stands for group g somewhere: in the table, in an INSERT, or in a message.
Uses(g, x) == convOf[g] = x \/ Held(g, x) \/ \E m \in chats : m[1] = x /\ m[2] = g

\* An id in use was drawn or is that of a Uuid's group, which is in the table with
\* it; of the other groups, no two use one id; and the primary key.
IdInv ==
    /\ \A g \in Groups : \A x \in Convs : Uses(g, x) =>
          x \notin spare /\ (Plain(g) \/ (x = Parse[g] /\ convOf[g] = x))
    /\ \A g, h \in Groups : \A x \in Convs :
          Plain(g) /\ Plain(h) /\ Uses(g, x) /\ Uses(h, x) => g = h
    /\ \A g, h \in Groups : convOf[g] = convOf[h] /\ convOf[g] # NoConv => g = h

\* A step that takes id y into use for group g, and no other id for any group.
TakesUp(g, y) ==
    /\ y \in NewConv(g) /\ y \notin spare' /\ (Plain(g) \/ convOf'[g] = y)
    /\ \A h \in Groups : \A x \in Convs : Uses(h, x)' => Uses(h, x) \/ (h = g /\ x = y)

\* No id is taken into use.
TakesNone == \A h \in Groups : \A x \in Convs : Uses(h, x)' => Uses(h, x)

\* The INSERTs after each step: those of before, or what JOIN has read, or what
\* CREATE has set.
LEMMA HeldFrom ==
  ASSUME TypeOK, [Next]_vars, NEW h \in Groups, NEW x \in Convs, Held(h, x)'
  PROVE  \/ Held(h, x)
         \/ \E c \in Conns : JoinSelect(c) /\ cmd[c].group = h /\ convOf[h] = x
         \/ \E c \in Conns : /\ Upsert(c, x) /\ cmd[c].group = h /\ SetConv(h, x)
                            /\ pc'[c] = "insert" /\ conv'[c] = x
<1>1. ASSUME NEW k \in adrift', k.pc = "insert", k.cmd.group = h, k.conv = x
      PROVE  Held(h, x)
  <2>1. CASE k \in adrift
    BY <1>1, <2>1 DEF Held
  <2>2. ASSUME NEW c \in Conns, k = Call(c) PROVE Held(h, x)
    BY <1>1, <2>2, CallType DEF Held
  <2> QED BY <2>1, <2>2, AdriftFrom
<1>2. ASSUME NEW c \in Conns, pc'[c] = "insert", cmd'[c].group = h, conv'[c] = x
      PROVE  \/ Held(h, x)
             \/ JoinSelect(c) /\ cmd[c].group = h /\ convOf[h] = x
             \/ Upsert(c, x) /\ cmd[c].group = h /\ SetConv(h, x)
  <2>0. ASSUME pc'[c] = pc[c], cmd'[c] = cmd[c], conv'[c] = conv[c] PROVE Held(h, x)
    BY <1>2, <2>0 DEF Held
  <2>1. ASSUME NEW d \in Conns,
               \/ Connect(d) \/ Disconnect(d) \/ InsertMember(d) \/ RegistryJoin(d)
               \/ LeaveDelete(d) \/ RegistryLeave(d) \/ DbError(d) \/ Publish(d) \/ PublishError(d)
        PROVE  pc'[c] = pc[c] /\ cmd'[c] = cmd[c] /\ conv'[c] = conv[c]
    BY <1>2, <2>1 DEF Connect, Disconnect, InsertMember, RegistryJoin, LeaveDelete,
         RegistryLeave, DbError, Publish, PublishError, Return, Goto, TypeOK
  <2>2. ASSUME NEW d \in Conns,
               \E g \in Groups : DeleteGroup(d, g) \/ \E id \in Convs : Chat(d, g, id)
        PROVE  pc' = pc /\ cmd' = cmd /\ conv' = conv
    BY <2>2 DEF DeleteGroup, Chat, handler
  <2>3. ASSUME NEW d \in Conns, NEW g \in Groups, NEW op \in Ops, Command(d, op, g)
        PROVE  pc'[c] = pc[c] /\ cmd'[c] = cmd[c] /\ conv'[c] = conv[c]
    BY <1>2, <2>3 DEF Command, Goto, TypeOK, Ops
  <2>4. ASSUME NEW d \in Conns, JoinSelect(d)
        PROVE  \/ pc'[c] = pc[c] /\ cmd'[c] = cmd[c] /\ conv'[c] = conv[c]
               \/ JoinSelect(c) /\ cmd[c].group = h /\ convOf[h] = x
    BY <1>2, <2>4 DEF JoinSelect, Return, Goto, TypeOK
  <2>5. ASSUME NEW d \in Conns, NEW id \in Convs, Upsert(d, id)
        PROVE  \/ pc'[c] = pc[c] /\ cmd'[c] = cmd[c] /\ conv'[c] = conv[c]
               \/ Upsert(c, x) /\ cmd[c].group = h /\ SetConv(h, x)
    <3>1. CASE d # c
      BY <2>5, <3>1 DEF Upsert, Return, Goto, TypeOK
    <3>2. CASE d = c
      <4>1. ~Return(c, "idle")
        BY <1>2 DEF Return, Goto, TypeOK
      <4>2. SetConv(cmd[c].group, id) /\ conv' = [conv EXCEPT ![c] = id] /\ cmd' = cmd
        BY <2>5, <3>2, <4>1 DEF Upsert
      <4>3. conv'[c] = id
        BY <4>2 DEF TypeOK
      <4> QED BY <1>2, <2>5, <3>2, <4>2, <4>3
    <3> QED BY <3>1, <3>2
  <2>6. ASSUME NEW n \in Nodes, Restart(n)
        PROVE  pc'[c] = pc[c] /\ cmd'[c] = cmd[c] /\ conv'[c] = conv[c]
    BY <1>2, <2>6 DEF Restart, TypeOK
  <2>7. ASSUME NEW n \in Nodes, Listen(n) \/ ListenerEnd(n) \/ Subscribe(n)
        PROVE  pc' = pc /\ cmd' = cmd /\ conv' = conv
    BY <2>7 DEF Listen, ListenIf, ListenerEnd, Subscribe, handler
  <2>8. ASSUME NEW k \in adrift,
               LandPublish(k) \/ LandInsert(k) \/ LandDelete(k) \/ \E id \in Convs : LandUpsert(k, id)
        PROVE  pc' = pc /\ cmd' = cmd /\ conv' = conv
    BY <2>8 DEF LandPublish, LandInsert, LandDelete, LandUpsert, Land, handler
  <2>9. CASE UNCHANGED vars
    BY <2>0, <2>9 DEF vars, handler
  <2> QED BY <2>0, <2>1, <2>2, <2>3, <2>4, <2>5, <2>6, <2>7, <2>8, <2>9 DEF Next
<1> QED BY <1>1, <1>2 DEF Held

\* An id that CREATE sets, in time or late, is new, or that of the name, and no
\* other group has it.
LEMMA SetConvIds ==
  ASSUME TypeOK, IdInv, NEW g \in Groups, NEW id \in Convs, id \in NewConv(g),
         SetConv(g, id), ~Refused(g, id)
  PROVE  /\ convOf'[g] = id /\ \A h \in Groups : h # g => convOf'[h] = convOf[h]
         /\ id \notin spare' /\ spare' \subseteq spare
         /\ \A h \in Groups : ~Plain(h) /\ convOf[h] = Parse[h] => convOf'[h] = Parse[h]
         /\ \A h, i \in Groups : convOf'[h] = convOf'[i] /\ convOf'[h] # NoConv => h = i
<1>1. /\ convOf \in [Groups -> Convs \cup {NoConv}]
      /\ convOf' = [convOf EXCEPT ![g] = id] /\ spare' = spare \ {id}
  BY DEF SetConv, TypeOK
<1>2. convOf'[g] = id /\ \A h \in Groups : h # g => convOf'[h] = convOf[h]
  BY <1>1
<1>3. Parse[g] # NoConv => id = Parse[g]
  BY NewConvType
<1>4. \A h \in Groups : ~Plain(h) /\ convOf[h] = Parse[h] => convOf'[h] = Parse[h]
  BY <1>2, <1>3 DEF Plain
<1>5. \A h \in Groups : h # g => convOf[h] # id
  BY DEF Refused
<1> QED BY <1>1, <1>2, <1>4, <1>5 DEF IdInv

\* An id that the migration gives a name was in use for it already.
LEMMA BackfillIds ==
  ASSUME TypeOK, IdInv, NEW n \in Nodes, Restart(n)
  PROVE  /\ \A g \in Groups : convOf'[g] = convOf[g] \/
              (convOf[g] = NoConv /\ Uses(g, convOf'[g]) /\ convOf'[g] \in Convs /\ convOf'[g] # NoConv)
         /\ \A g, h \in Groups : convOf'[g] = convOf'[h] /\ convOf'[g] # NoConv => g = h
         /\ rows \subseteq rows'
         /\ \A r \in rows' : r \in rows \/
              \E m \in chats : r = <<m[1], m[3]>> /\ \E g \in Groups : convOf'[g] = m[1]
<1>1. PICK seen \in SUBSET chats : Backfill(seen)
  BY DEF Restart
<1>2. ASSUME NEW g \in Groups, convOf'[g] # convOf[g]
      PROVE  convOf[g] = NoConv /\ Uses(g, convOf'[g]) /\ convOf'[g] \in Convs /\ convOf'[g] # NoConv
  <2>1. convOf[g] = NoConv /\ \E m \in chats : convOf'[g] = m[1] /\ m[2] = g
    BY <1>1, <1>2 DEF Backfill, Nameless
  <2>2. \A m \in chats : m[1] \in Convs
    BY DEF TypeOK
  <2> QED BY <2>1, <2>2, IdAssumption DEF Uses
<1>3. \A g, h \in Groups : convOf'[g] = convOf'[h] /\ convOf'[g] # NoConv => g = h
  BY <1>1 DEF Backfill
<1>4. rows' = rows \cup {<<m[1], m[3]>> : m \in {m \in seen : \E g \in Groups : convOf'[g] = m[1]}}
  BY <1>1 DEF Backfill
<1> QED BY <1>2, <1>3, <1>4

LEMMA UpsertIds ==
  ASSUME TypeOK, IdInv, [Next]_vars, NEW g \in Groups, NEW id \in Convs, id \in NewConv(g),
         UNCHANGED chats,
         UNCHANGED convOf \/ (SetConv(g, id) /\ ~Refused(g, id)),
         \A h \in Groups : \A x \in Convs :
            Held(h, x)' => Held(h, x) \/ (h = g /\ x = id /\ SetConv(g, id))
  PROVE  TakesNone \/ TakesUp(g, id)
<1>1. CASE SetConv(g, id) /\ ~Refused(g, id)
  <2>1. /\ convOf'[g] = id /\ \A h \in Groups : h # g => convOf'[h] = convOf[h]
        /\ id \notin spare'
    BY <1>1, SetConvIds
  <2>2. \A h \in Groups : \A x \in Convs : Uses(h, x)' => Uses(h, x) \/ (h = g /\ x = id)
    BY <2>1 DEF Uses
  <2> QED BY <2>1, <2>2 DEF TakesUp
<1>2. CASE UNCHANGED convOf /\ ~SetConv(g, id)
  BY <1>2 DEF Uses, TakesNone
<1>3. CASE UNCHANGED convOf /\ SetConv(g, id)
  <2>1. convOf'[g] = id /\ spare' = spare \ {id}
    BY <1>3 DEF SetConv, TypeOK
  <2>2. \A h \in Groups : \A x \in Convs : Uses(h, x)' => Uses(h, x) \/ (h = g /\ x = id)
    BY <1>3 DEF Uses
  <2> QED BY <2>1, <2>2 DEF TakesUp
<1> QED BY <1>1, <1>2, <1>3

\* A message of a group that is named by a Uuid has the id that the table has for
\* it: whoever is in the group is backed.
LEMMA ChatIds ==
  ASSUME TypeOK, BackInv, IdInv, [Next]_vars,
         NEW c \in Conns, NEW g \in Groups, NEW id \in Convs, Chat(c, g, id)
  PROVE  TakesNone \/ TakesUp(g, id)
<1>1. /\ id \in NewConv(g) /\ spare' = spare \ {id} /\ convOf' = convOf
      /\ chats' = chats \cup {<<id, g, UserOf[c]>>}
      /\ UserOf[c] \in members[NodeOf[c]][g]
  BY DEF Chat
<1>2. \A h \in Groups : \A x \in Convs : Held(h, x)' => Held(h, x)
  BY HeldFrom DEF Chat, Held, handler
<1>3. \A h \in Groups : \A x \in Convs : Uses(h, x)' => Uses(h, x) \/ (h = g /\ x = id)
  BY <1>1, <1>2 DEF Uses
<1>4. CASE Plain(g)
  BY <1>1, <1>3, <1>4 DEF TakesUp
<1>5. CASE ~Plain(g)
  <2>1. id = Parse[g]
    BY <1>1, <1>5, NewConvType DEF Plain
  <2>2. g # General /\ NodeOf[c] \in Nodes
    BY <1>5, NameAssumption DEF Plain
  <2>3. convOf[g] # NoConv
    BY <1>1, <2>2 DEF BackInv, Backed
  <2>4. convOf[g] \in Convs
    BY <2>3 DEF TypeOK
  <2>5. convOf[g] = id
    BY <1>5, <2>1, <2>4 DEF IdInv, Uses
  <2> QED BY <1>3, <2>5 DEF TakesNone, Uses
<1> QED BY <1>4, <1>5

\* Every step takes at most one id into use.
LEMMA UsesGain ==
  ASSUME TypeOK, BackInv, IdInv, [Next]_vars
  PROVE  TakesNone \/ \E g \in Groups : \E y \in Convs : TakesUp(g, y)
<1>1. ASSUME NEW c \in Conns, NEW id \in Convs, Upsert(c, id)
      PROVE  TakesNone \/ TakesUp(cmd[c].group, id)
  <2> DEFINE g == cmd[c].group
  <2>1. g \in Groups /\ id \in NewConv(g) /\ UNCHANGED chats
    BY <1>1, SubjectType DEF Upsert
  <2>2. UNCHANGED convOf \/ (SetConv(g, id) /\ ~Refused(g, id))
    BY <1>1 DEF Upsert
  <2>3. ASSUME NEW h \in Groups, NEW x \in Convs, Held(h, x)'
        PROVE  Held(h, x) \/ (h = g /\ x = id /\ SetConv(g, id))
    <3>1. ASSUME NEW d \in Conns, JoinSelect(d) PROVE FALSE
      BY <1>1, <3>1 DEF JoinSelect, Upsert, Return, Goto, TypeOK
    <3>2. ASSUME NEW d \in Conns, Upsert(d, x), cmd[d].group = h,
                 pc'[d] = "insert", conv'[d] = x
          PROVE  h = g /\ x = id /\ SetConv(g, id)
      <4>1. d = c
        BY <1>1, <3>2 DEF Upsert, Return, Goto, TypeOK
      <4>2. ~Return(c, "idle")
        BY <3>2, <4>1 DEF Return, Goto, TypeOK
      <4>3. SetConv(g, id) /\ conv' = [conv EXCEPT ![c] = id]
        BY <1>1, <4>2 DEF Upsert
      <4> QED BY <3>2, <4>1, <4>3 DEF TypeOK
    <3> QED BY <2>3, <3>1, <3>2, HeldFrom
  <2> QED BY <2>1, <2>2, <2>3, UpsertIds
<1>2. ASSUME NEW k \in adrift, NEW id \in Convs, LandUpsert(k, id)
      PROVE  TakesNone \/ TakesUp(k.cmd.group, id)
  <2>1. k.cmd.group \in Groups /\ id \in NewConv(k.cmd.group) /\ UNCHANGED chats
    BY <1>2, AboutType DEF LandUpsert, TypeOK
  <2>2. UNCHANGED convOf \/ (SetConv(k.cmd.group, id) /\ ~Refused(k.cmd.group, id))
    BY <1>2 DEF LandUpsert
  <2>3. \A h \in Groups : \A x \in Convs : Held(h, x)' => Held(h, x)
    BY <1>2 DEF LandUpsert, Land, Held, handler
  <2> QED BY <2>1, <2>2, <2>3, UpsertIds
<1>3. ASSUME NEW c \in Conns, NEW g \in Groups, NEW id \in Convs, Chat(c, g, id)
      PROVE  TakesNone \/ TakesUp(g, id)
  BY <1>3, ChatIds
<1>4. ASSUME convOf' = convOf, chats' = chats,
             \A c \in Conns : \A id \in Convs : ~Upsert(c, id)
      PROVE  TakesNone
  <2>1. \A h \in Groups : \A x \in Convs : Held(h, x)' => Uses(h, x)
    BY <1>4, HeldFrom DEF Uses
  <2> QED BY <1>4, <2>1 DEF Uses, TakesNone
<1>5. ASSUME NEW n \in Nodes, Restart(n) PROVE TakesNone
  <2>1. \A h \in Groups : convOf'[h] = convOf[h] \/ Uses(h, convOf'[h])
    BY <1>5, BackfillIds
  <2>2. chats' = chats
    BY <1>5 DEF Restart
  <2>3. \A h \in Groups : \A x \in Convs : Held(h, x)' => Held(h, x)
    BY <1>5 DEF Restart, GiveUp, Held, Call, TypeOK
  <2> QED BY <2>1, <2>2, <2>3 DEF Uses, TakesNone
<1>6. ASSUME NEW c \in Conns,
             \/ Connect(c) \/ Disconnect(c) \/ JoinSelect(c) \/ InsertMember(c) \/ RegistryJoin(c)
             \/ LeaveDelete(c) \/ RegistryLeave(c) \/ DbError(c) \/ Publish(c) \/ PublishError(c)
             \/ \E g \in Groups : DeleteGroup(c, g) \/ \E op \in Ops : Command(c, op, g)
      PROVE  convOf' = convOf /\ chats' = chats
  BY <1>6 DEF Connect, Disconnect, JoinSelect, InsertMember, RegistryJoin, LeaveDelete,
     RegistryLeave, DbError, Publish, PublishError, DeleteGroup, Command, db
<1>7. ASSUME NEW n \in Nodes, Listen(n) \/ ListenerEnd(n) \/ Subscribe(n)
      PROVE  convOf' = convOf /\ chats' = chats
  BY <1>7 DEF Listen, ListenIf, ListenerEnd, Subscribe, db
<1>8. ASSUME NEW k \in adrift, LandPublish(k) \/ LandInsert(k) \/ LandDelete(k)
      PROVE  convOf' = convOf /\ chats' = chats
  BY <1>8 DEF LandPublish, LandInsert, LandDelete, db
<1>9. CASE UNCHANGED vars
  BY <1>4, <1>9 DEF vars, db, Uses, TakesNone, Held, handler
<1> QED
  <2>1. CASE \E c \in Conns : \E id \in Convs : Upsert(c, id)
    BY <1>1, <2>1, SubjectType
  <2>2. CASE \E k \in adrift : \E id \in Convs : LandUpsert(k, id)
    BY <1>2, <2>2, AboutType DEF TypeOK
  <2> QED BY <1>3, <1>4, <1>5, <1>6, <1>7, <1>8, <1>9, <2>1, <2>2 DEF Next

\* A group that is named by a Uuid keeps its id, and no id has two groups.
LEMMA ConvsKept ==
  ASSUME TypeOK, IdInv, [Next]_vars
  PROVE  /\ spare' \subseteq spare
         /\ \A h \in Groups : ~Plain(h) /\ convOf[h] = Parse[h] => convOf'[h] = Parse[h]
         /\ \A h, i \in Groups : convOf'[h] = convOf'[i] /\ convOf'[h] # NoConv => h = i
<1>1. ASSUME convOf' = convOf, spare' \subseteq spare
      PROVE  /\ spare' \subseteq spare
             /\ \A h \in Groups : ~Plain(h) /\ convOf[h] = Parse[h] => convOf'[h] = Parse[h]
             /\ \A h, i \in Groups : convOf'[h] = convOf'[i] /\ convOf'[h] # NoConv => h = i
  BY <1>1 DEF IdInv
<1>2. ASSUME NEW c \in Conns, NEW id \in Convs, Upsert(c, id)
      PROVE  /\ spare' \subseteq spare
             /\ \A h \in Groups : ~Plain(h) /\ convOf[h] = Parse[h] => convOf'[h] = Parse[h]
             /\ \A h, i \in Groups : convOf'[h] = convOf'[i] /\ convOf'[h] # NoConv => h = i
  <2>1. cmd[c].group \in Groups /\ id \in NewConv(cmd[c].group)
    BY <1>2, SubjectType DEF Upsert
  <2>2. \/ convOf' = convOf /\ spare' = spare
        \/ SetConv(cmd[c].group, id) /\ ~Refused(cmd[c].group, id)
    BY <1>2 DEF Upsert
  <2> QED BY <1>1, <2>1, <2>2, SetConvIds
<1>3. ASSUME NEW k \in adrift, NEW id \in Convs, LandUpsert(k, id)
      PROVE  /\ spare' \subseteq spare
             /\ \A h \in Groups : ~Plain(h) /\ convOf[h] = Parse[h] => convOf'[h] = Parse[h]
             /\ \A h, i \in Groups : convOf'[h] = convOf'[i] /\ convOf'[h] # NoConv => h = i
  <2>1. k.cmd.group \in Groups /\ id \in NewConv(k.cmd.group)
    BY <1>3, AboutType DEF LandUpsert, TypeOK
  <2>2. \/ convOf' = convOf /\ spare' = spare
        \/ SetConv(k.cmd.group, id) /\ ~Refused(k.cmd.group, id)
    BY <1>3 DEF LandUpsert
  <2> QED BY <1>1, <2>1, <2>2, SetConvIds
<1>4. ASSUME NEW n \in Nodes, Restart(n)
      PROVE  /\ spare' \subseteq spare
             /\ \A h \in Groups : ~Plain(h) /\ convOf[h] = Parse[h] => convOf'[h] = Parse[h]
             /\ \A h, i \in Groups : convOf'[h] = convOf'[i] /\ convOf'[h] # NoConv => h = i
  <2>1. spare' = spare
    BY <1>4 DEF Restart
  <2> QED BY <1>4, <2>1, BackfillIds DEF Plain
<1>5. ASSUME NEW c \in Conns,
             \/ Connect(c) \/ Disconnect(c) \/ JoinSelect(c) \/ InsertMember(c) \/ RegistryJoin(c)
             \/ LeaveDelete(c) \/ RegistryLeave(c) \/ DbError(c) \/ Publish(c) \/ PublishError(c)
             \/ \E g \in Groups : DeleteGroup(c, g) \/ \E op \in Ops : Command(c, op, g)
             \/ \E g \in Groups : \E id \in Convs : Chat(c, g, id)
      PROVE  convOf' = convOf /\ spare' \subseteq spare
  BY <1>5 DEF Connect, Disconnect, JoinSelect, InsertMember, RegistryJoin, LeaveDelete, Chat,
     RegistryLeave, DbError, Publish, PublishError, DeleteGroup, Command, db
<1>6. ASSUME NEW n \in Nodes, Listen(n) \/ ListenerEnd(n) \/ Subscribe(n)
      PROVE  convOf' = convOf /\ spare' \subseteq spare
  BY <1>6 DEF Listen, ListenIf, ListenerEnd, Subscribe, db
<1>7. ASSUME NEW k \in adrift, LandPublish(k) \/ LandInsert(k) \/ LandDelete(k)
      PROVE  convOf' = convOf /\ spare' \subseteq spare
  BY <1>7 DEF LandPublish, LandInsert, LandDelete, db
<1>8. CASE UNCHANGED vars
  BY <1>1, <1>8 DEF vars, db
<1> QED BY <1>1, <1>2, <1>3, <1>4, <1>5, <1>6, <1>7, <1>8 DEF Next

LEMMA IdInductive == TypeOK /\ BackInv /\ IdInv /\ [Next]_vars => IdInv'
<1> SUFFICES ASSUME TypeOK, BackInv, IdInv, [Next]_vars PROVE IdInv'
  OBVIOUS
<1>1. ASSUME NEW g \in Groups, NEW x \in Convs, Uses(g, x)'
      PROVE  x \notin spare' /\ (Plain(g) \/ (x = Parse[g] /\ convOf'[g] = x))
  <2>1. CASE Uses(g, x)
    BY <2>1, ConvsKept DEF IdInv
  <2>2. CASE TakesUp(g, x)
    BY <2>2, NewConvType DEF TakesUp, Plain
  <2> QED BY <1>1, <2>1, <2>2, UsesGain DEF TakesNone, TakesUp
<1>2. ASSUME NEW g \in Groups, NEW h \in Groups, NEW x \in Convs,
             Plain(g), Plain(h), Uses(g, x)', Uses(h, x)'
      PROVE  g = h
  <2>1. CASE TakesNone
    BY <1>2, <2>1 DEF TakesNone, IdInv
  <2>2. ASSUME NEW i \in Groups, NEW y \in Convs, TakesUp(i, y) PROVE g = h
    <3>1. CASE Uses(g, x) /\ Uses(h, x)
      BY <1>2, <3>1 DEF IdInv
    <3>2. CASE x = y /\ (i = g \/ i = h)
      <4>1. x \in spare
        BY <1>2, <2>2, <3>2, NewConvType DEF TakesUp, Plain
      <4>2. ~Uses(g, x) /\ ~Uses(h, x)
        BY <4>1 DEF IdInv
      <4> QED BY <1>2, <2>2, <4>2 DEF TakesUp
    <3> QED BY <1>2, <2>2, <3>1, <3>2 DEF TakesUp
  <2> QED BY <2>1, <2>2, UsesGain
<1> QED BY <1>1, <1>2, ConvsKept DEF IdInv, Plain

\* The foreign key, kept by the statements that change either table: a row
\* belongs to a group.
Owned == \A r \in rows : \E g \in Groups : convOf[g] = r[1]

\* The user has a claim on a row of the group.
Asked(g, u) == Inserting(g, u) \/ \E m \in chats : m[2] = g /\ m[3] = u

\* A step keeps the foreign key, and counts nobody anew in a plain group without a claim.
Granted == Owned' /\ \A g \in Groups : Plain(g) =>
            \A u \in Users : <<convOf'[g], u>> \in rows' /\ <<convOf[g], u>> \notin rows => Asked(g, u)

LEMMA RowTypes ==
  ASSUME TypeOK, NEW r \in rows
  PROVE  /\ r[1] \in Convs /\ r[2] \in Users /\ r = <<r[1], r[2]>>
         /\ r[1] # NoConv
BY IdAssumption DEF TypeOK

\* The steps that leave the groups, and add no row.
LEMMA FewerRows ==
  ASSUME Owned, convOf' = convOf, rows' \subseteq rows
  PROVE  Granted
BY DEF Owned, Granted

\* The group that gets an id has lost its rows, and no row has the new one.
LEMMA UpsertGranted ==
  ASSUME TypeOK, IdInv, Owned, NEW g \in Groups, NEW id \in Convs, id \in NewConv(g),
         rows' = rows, UNCHANGED convOf \/ (SetConv(g, id) /\ ~Refused(g, id))
  PROVE  Granted
<1>1. CASE UNCHANGED convOf
  BY <1>1, FewerRows
<1>2. CASE SetConv(g, id) /\ ~Refused(g, id) /\ convOf' # convOf
  <2>1. convOf'[g] = id /\ \A h \in Groups : h # g => convOf'[h] = convOf[h]
    BY <1>2, SetConvIds
  <2>2. id # convOf[g]
    BY <1>2 DEF SetConv, TypeOK
  <2>3. ASSUME NEW r \in rows PROVE \E h \in Groups : h # g /\ convOf[h] = r[1]
    <3>1. PICK h \in Groups : convOf[h] = r[1]
      BY DEF Owned
    <3>2. <<convOf[g], r[2]>> \notin rows
      BY <1>2, <2>2, RowTypes DEF Refused
    <3> QED BY <3>1, <3>2, RowTypes
  <2>4. \A u \in Users : <<id, u>> \notin rows
    BY <1>2, <2>3 DEF Refused
  <2> QED BY <2>1, <2>3, <2>4 DEF Owned, Granted
<1> QED BY <1>1, <1>2

\* A row inserted for the id of a plain group is that of the command's group.
LEMMA InsertGranted ==
  ASSUME TypeOK, IdInv, Owned, NEW k \in Calls, k.conv # NoConv, InsertRow(k), convOf' = convOf,
         Held(k.cmd.group, k.conv), Inserting(k.cmd.group, UserOf[k.conn])
  PROVE  Granted
<1>1. CASE rows' = rows
  BY <1>1, FewerRows
<1>2. CASE rows' = rows \cup {<<k.conv, UserOf[k.conn]>>} /\ \E h \in Groups : convOf[h] = k.conv
  <2>1. k.cmd.group \in Groups /\ k.conv \in Convs /\ Uses(k.cmd.group, k.conv)
    BY AboutType DEF Uses
  <2>2. ASSUME NEW g \in Groups, Plain(g), convOf[g] = k.conv PROVE g = k.cmd.group
    <3>1. Uses(g, k.conv)
      BY <2>2 DEF Uses
    <3>2. Plain(k.cmd.group) \/ convOf[k.cmd.group] = k.conv
      BY <2>1 DEF IdInv
    <3> QED BY <2>1, <2>2, <3>1, <3>2 DEF IdInv
  <2>3. Owned'
    BY <1>2 DEF Owned
  <2>4. ASSUME NEW g \in Groups, Plain(g), NEW u \in Users,
               <<convOf[g], u>> \in rows', <<convOf[g], u>> \notin rows
        PROVE  Asked(g, u)
    BY <1>2, <2>2, <2>4 DEF Asked
  <2> QED BY <2>3, <2>4 DEF Granted
<1> QED BY <1>1, <1>2 DEF InsertRow

\* A row the migration adds to a plain group is that of the sender of a message to it.
LEMMA RestartGranted ==
  ASSUME TypeOK, BackInv, IdInv, Owned, [Next]_vars, NEW n \in Nodes, Restart(n)
  PROVE  Granted
<1>1. ASSUME NEW r \in rows PROVE \E g \in Groups : convOf[g] = r[1] /\ convOf'[g] = r[1]
  <2>1. PICK g \in Groups : convOf[g] = r[1]
    BY DEF Owned
  <2> QED BY <2>1, RowTypes, BackfillIds
<1>2. Owned'
  BY <1>1, BackfillIds DEF Owned
<1>3. ASSUME NEW g \in Groups, Plain(g), NEW u \in Users,
             <<convOf'[g], u>> \in rows', <<convOf[g], u>> \notin rows
      PROVE  Asked(g, u)
  <2>1. CASE <<convOf'[g], u>> \in rows
    <3>1. PICK h \in Groups : convOf[h] = convOf'[g] /\ convOf'[h] = convOf'[g]
      BY <1>1, <2>1
    <3>2. convOf'[g] # NoConv
      BY <2>1, RowTypes
    <3> QED BY <1>3, <2>1, <3>1, <3>2, BackfillIds
  <2>2. CASE <<convOf'[g], u>> \notin rows
    <3>1. PICK m \in chats : <<convOf'[g], u>> = <<m[1], m[3]>>
      BY <1>3, <2>2, BackfillIds
    <3>2. m[1] \in Convs /\ m[2] \in Groups /\ convOf'[g] = m[1] /\ m[3] = u
      BY <3>1 DEF TypeOK
    <3>3. Uses(m[2], m[1])' /\ Uses(g, m[1])'
      BY <3>1, <3>2 DEF Restart, Uses
    <3>4. Plain(m[2]) \/ convOf'[m[2]] = m[1]
      BY <3>2, <3>3, IdInductive DEF IdInv, Plain
    <3>5. m[2] = g
      BY <1>3, <3>2, <3>3, <3>4, IdInductive, IdAssumption DEF IdInv, Plain
    <3> QED BY <3>2, <3>5 DEF Asked
  <2> QED BY <2>1, <2>2
<1> QED BY <1>2, <1>3 DEF Granted

LEMMA GrantedSteps ==
  ASSUME TypeOK, BackInv, IdInv, Owned, [Next]_vars
  PROVE  Granted
<1>1. ASSUME NEW c \in Conns, NEW id \in Convs, Upsert(c, id) PROVE Granted
  <2>1. cmd[c].group \in Groups /\ id \in NewConv(cmd[c].group) /\ rows' = rows
    BY <1>1, SubjectType DEF Upsert
  <2>2. UNCHANGED convOf \/ (SetConv(cmd[c].group, id) /\ ~Refused(cmd[c].group, id))
    BY <1>1 DEF Upsert
  <2> QED BY <2>1, <2>2, UpsertGranted
<1>2. ASSUME NEW k \in adrift, NEW id \in Convs, LandUpsert(k, id) PROVE Granted
  <2>1. k.cmd.group \in Groups /\ id \in NewConv(k.cmd.group) /\ rows' = rows
    BY <1>2, AboutType DEF LandUpsert, TypeOK
  <2>2. UNCHANGED convOf \/ (SetConv(k.cmd.group, id) /\ ~Refused(k.cmd.group, id))
    BY <1>2 DEF LandUpsert
  <2> QED BY <2>1, <2>2, UpsertGranted
<1>3. ASSUME NEW c \in Conns, InsertMember(c) PROVE Granted
  <2>1. /\ pc[c] = "insert" /\ Call(c) \in Calls /\ Call(c).conv # NoConv
        /\ InsertRow(Call(c)) /\ convOf' = convOf
    BY <1>3, CallType DEF InsertMember, Awaits
  <2>2. Held(Call(c).cmd.group, Call(c).conv) /\ Inserting(Call(c).cmd.group, UserOf[Call(c).conn])
    BY <2>1, CallType DEF Held, Inserting, Subject
  <2> QED BY <2>1, <2>2, InsertGranted
<1>4. ASSUME NEW k \in adrift, LandInsert(k) PROVE Granted
  <2>1. /\ k.pc = "insert" /\ k \in Calls /\ k.conv # NoConv
        /\ InsertRow(k) /\ convOf' = convOf
    BY <1>4 DEF LandInsert, Land, TypeOK
  <2>2. Held(k.cmd.group, k.conv) /\ Inserting(k.cmd.group, UserOf[k.conn])
    BY <2>1 DEF Held, Inserting, About
  <2> QED BY <2>1, <2>2, InsertGranted
<1>5. ASSUME NEW n \in Nodes, Restart(n) PROVE Granted
  BY <1>5, RestartGranted
<1>6. ASSUME NEW c \in Conns,
             \/ Connect(c) \/ Disconnect(c) \/ JoinSelect(c) \/ RegistryJoin(c)
             \/ LeaveDelete(c) \/ RegistryLeave(c) \/ DbError(c) \/ Publish(c) \/ PublishError(c)
             \/ \E g \in Groups : DeleteGroup(c, g) \/ \E op \in Ops : Command(c, op, g)
             \/ \E g \in Groups : \E id \in Convs : Chat(c, g, id)
      PROVE  convOf' = convOf /\ rows' \subseteq rows
  BY <1>6 DEF Connect, Disconnect, JoinSelect, RegistryJoin, LeaveDelete, DeleteRow, Chat,
     RegistryLeave, DbError, Publish, PublishError, DeleteGroup, Command, db
<1>7. ASSUME NEW n \in Nodes, Listen(n) \/ ListenerEnd(n) \/ Subscribe(n)
      PROVE  convOf' = convOf /\ rows' \subseteq rows
  BY <1>7 DEF Listen, ListenIf, ListenerEnd, Subscribe, db
<1>8. ASSUME NEW k \in adrift, LandPublish(k) \/ LandDelete(k)
      PROVE  convOf' = convOf /\ rows' \subseteq rows
  BY <1>8 DEF LandPublish, LandDelete, DeleteRow, db
<1>9. CASE UNCHANGED vars
  BY <1>9, FewerRows DEF vars, db
<1> QED BY <1>1, <1>2, <1>3, <1>4, <1>5, <1>6, <1>7, <1>8, <1>9, FewerRows DEF Next

\* However JOINs, CREATEs by any name, LEAVEs, late statements and backfills of any
\* number of nodes interleave, only those get into the list of a group whose name is
\* not a Uuid who have asked for this group.
THEOREM NoStrangersHolds == Spec => NoStrangers
<1> DEFINE Claimed == \A g \in Groups : Parse[g] = NoConv =>
                \A u \in Counted(g)' \ Counted(g) :
                    Inserting(g, u) \/ \E m \in chats : m[2] = g /\ m[3] = u
<1>1. Init => IdInv /\ Owned
  <2> SUFFICES ASSUME Init PROVE IdInv /\ Owned
    OBVIOUS
  <2>1. \A g \in Groups : \A x \in Convs : ~Uses(g, x)
    BY IdAssumption DEF Init, Uses, Held
  <2> QED BY <2>1 DEF Init, IdInv, Owned
<1>2. TypeOK /\ BackInv /\ IdInv /\ Owned /\ [Next]_vars => Owned' /\ Claimed
  BY GrantedSteps DEF Granted, Plain, Asked, Counted
<1>3. TypeOK /\ BackInv /\ IdInv /\ Owned /\ [Next]_vars => [Claimed]_vars
  BY <1>2
<1>4. NoStrangers <=> [][Claimed]_vars
  BY DEF NoStrangers
<1> HIDE DEF Claimed
<1> QED BY <1>1, <1>2, <1>3, <1>4, BackInit, BackInductive, IdInductive, TypeCorrect, PTL DEF Spec
=============================================================================
