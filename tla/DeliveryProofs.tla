--------------------------- MODULE DeliveryProofs ---------------------------
(***************************************************************************)
(* Theorems about Delivery for every number of nodes, tenants, users,      *)
(* groups and connections, and every bound on commands and faults.         *)
(***************************************************************************)
EXTENDS Delivery, TLAPS, SequenceTheorems, FiniteSetTheorems, FunctionTheorems

-----------------------------------------------------------------------------
(* Sequences of indexes, and the log *)

\* The log grows, and the indexes with it.
LEMMA BeginStep ==
    ASSUME TypeOK, NEW c \in Conns, NEW kind \in {"dm"} \cup Groupish,
           NEW to, IF kind = "dm" THEN to \in Names ELSE to \in Groups, pc[c] = "idle", Begin(c, kind, to)
    PROVE  /\ sent' \in Seq(Messages)
           /\ Len(sent') = Len(sent) + 1 /\ Len(sent) \in Nat
           /\ Ids' = Ids \cup {Len(sent) + 1}
           /\ \A i \in Ids : sent'[i] = sent[i]
           /\ sent'[Len(sent) + 1] =
                [kind |-> kind, tenant |-> TenantOf[c], to |-> to, sender |-> c]
<1> DEFINE m == [kind |-> kind, tenant |-> TenantOf[c], to |-> to, sender |-> c]
<1>1. m \in Messages
  BY IdentityAssumption DEF Messages, Groupish
<1>2. sent \in Seq(Messages) /\ sent' = Append(sent, m)
  BY DEF TypeOK, Begin
<1>3. /\ Append(sent, m) \in Seq(Messages)
      /\ Len(Append(sent, m)) = Len(sent) + 1
      /\ \A i \in 1 .. Len(sent) : Append(sent, m)[i] = sent[i]
      /\ Append(sent, m)[Len(sent) + 1] = m
  BY <1>1, <1>2, AppendProperties
<1>4. Len(sent) \in Nat
  BY <1>2, LenProperties
<1> HIDE DEF m
<1>5. 1 .. (Len(sent) + 1) = (1 .. Len(sent)) \cup {Len(sent) + 1}
  BY <1>4
<1> QED BY <1>2, <1>3, <1>4, <1>5 DEF Ids, m

LEMMA LogType == TypeOK => Len(sent) \in Nat /\ \A i \in Ids : i \in Nat \ {0} /\ sent[i] \in Messages
<1> SUFFICES ASSUME TypeOK PROVE Len(sent) \in Nat /\ \A i \in Ids : i \in Nat \ {0} /\ sent[i] \in Messages
  OBVIOUS
<1>1. sent \in Seq(Messages)
  BY DEF TypeOK
<1>2. Len(sent) \in Nat
  BY <1>1, LenProperties
<1> QED BY <1>1, <1>2, ElementOfSeq DEF Ids

\* Everything typed by the indexes stays so when there are more of them.
LEMMA LargerIds ==
    ASSUME TypeOK, NEW J, Ids \subseteq J
    PROVE  /\ inbox \in [Nodes -> Seq(J)]
           /\ got \in [Conns -> Seq(J \cup {0})]
<1>1. \A n \in Nodes : inbox[n] \in Seq(J)
  BY SeqMonotonic DEF TypeOK
<1>2. Ids \cup {0} \subseteq J \cup {0}
  OBVIOUS
<1>3. \A c \in Conns : got[c] \in Seq(J \cup {0})
  BY <1>2, SeqMonotonic DEF TypeOK
<1> QED BY <1>1, <1>3 DEF TypeOK

-----------------------------------------------------------------------------
(* Type correctness *)

LEMMA InitType == Init => TypeOK
<1> SUFFICES ASSUME Init PROVE TypeOK
  OBVIOUS
<1>1. << >> \in Seq(Ids) /\ << >> \in Seq(Ids \cup {0}) /\ << >> \in Seq(Messages)
  BY EmptySeq
<1> QED BY <1>1, BoundAssumption DEF Init, TypeOK

LEMMA FaultType == TypeOK /\ Fault => faults' \in 0 .. MaxFaults
BY BoundAssumption DEF TypeOK, Fault

LEMMA AskType == \A c \in Conns : TypeOK /\ Ask(c) => commands' \in 0 .. MaxCommands
BY BoundAssumption DEF TypeOK, Ask

\* What is put into channels.
LEMMA PutType ==
    ASSUME TypeOK, NEW C, NEW i \in Ids \cup {0}, Put(C, i)
    PROVE  got' \in [Conns -> Seq(Ids \cup {0})]
<1>1. \A c \in Conns : Append(got[c], i) \in Seq(Ids \cup {0})
  BY AppendProperties DEF TypeOK
<1> QED BY <1>1 DEF Put, TypeOK

LEMMA ConnectType == ASSUME TypeOK, NEW c \in Conns, Connect(c) PROVE TypeOK'
<1> USE DEF TypeOK, Connect, redis
<1>1. Membership(c, General) \in Tenants \X Groups \X Names /\ NodeOf[c] \in Nodes
  BY IdentityAssumption DEF Membership
<1>2. members' \in [Nodes -> SUBSET (Tenants \X Groups \X Names)]
  BY <1>1
<1>3. pc' \in [Conns -> {"off", "idle", "persist"} \cup Calls]
  OBVIOUS
<1>4. \A d \in Conns : cur'[d] = 0 <=> pc'[d] \in {"off", "idle"}
  OBVIOUS
<1>5. Ids' = Ids
  BY DEF Ids
<1> QED BY <1>2, <1>3, <1>4, <1>5

\* The end of connections.
LEMMA EndType ==
    ASSUME TypeOK, NEW C \in SUBSET Conns, End(C)
    PROVE  /\ adrift' \subseteq Ids \X Calls /\ stored' \subseteq Ids
           /\ strays' \subseteq Ids /\ cut' \subseteq Ids
           /\ pc' \in [Conns -> {"off", "idle", "persist"} \cup Calls]
           /\ cur' \in [Conns -> Ids \cup {0}]
           /\ \A c \in Conns : cur'[c] = 0 <=> pc'[c] \in {"off", "idle"}
           /\ got' \in [Conns -> Seq(Ids \cup {0})]
           /\ due' \in [Conns -> SUBSET Ids]
<1> USE DEF TypeOK
<1>1. \A c \in C : pc[c] \in Calls \cup {"persist"} => cur[c] \in Ids
  BY DEF Calls
<1>2. {<<cur[c], pc[c]>> : c \in {c \in C : pc[c] \in Calls}} \subseteq Ids \X Calls
  BY <1>1
<1>3. adrift' \subseteq Ids \X Calls
  BY <1>2 DEF End
<1>4. stored' \subseteq Ids
  BY <1>1 DEF End
<1>5. strays' \subseteq Ids /\ cut' \subseteq Ids
  BY <1>1 DEF End
<1>6. /\ pc' \in [Conns -> {"off", "idle", "persist"} \cup Calls]
      /\ cur' \in [Conns -> Ids \cup {0}]
      /\ \A c \in Conns : cur'[c] = 0 <=> pc'[c] \in {"off", "idle"}
  BY DEF End
<1>7. got' \in [Conns -> Seq(Ids \cup {0})]
  BY EmptySeq DEF End
<1>8. due' \in [Conns -> SUBSET Ids]
  BY DEF End
<1> QED BY <1>3, <1>4, <1>5, <1>6, <1>7, <1>8

\* The first step of a message or group command that makes a message.
LEMMA BeginType ==
    ASSUME TypeOK, NEW c \in Conns, NEW kind \in {"dm"} \cup Groupish,
           NEW to, IF kind = "dm" THEN to \in Names ELSE to \in Groups, Ask(c), Begin(c, kind, to),
           members' \in [Nodes -> SUBSET (Tenants \X Groups \X Names)],
           due' \in [Conns -> SUBSET Ids],
           UNCHANGED <<redis, stored, faults, strays, cut>>
    PROVE  TypeOK'
<1>1. pc[c] = "idle" /\ commands' \in 0 .. MaxCommands
  BY AskType DEF Ask
<1>2. /\ sent' \in Seq(Messages)
      /\ Len(sent) \in Nat
      /\ Ids' = Ids \cup {Len(sent) + 1}
  BY <1>1, BeginStep
<1>3. inbox \in [Nodes -> Seq(Ids')] /\ got \in [Conns -> Seq(Ids' \cup {0})]
  BY <1>2, LargerIds
<1>4. cur' \in [Conns -> Ids' \cup {0}]
  BY <1>2 DEF Begin, TypeOK
<1>5. /\ pc' \in [Conns -> {"off", "idle", "persist"} \cup Calls]
      /\ \A d \in Conns : cur'[d] = 0 <=> pc'[d] \in {"off", "idle"}
  BY <1>2 DEF Begin, TypeOK, Calls
<1>6. adrift' \subseteq Ids' \X Calls /\ stored' \subseteq Ids' /\ strays' \subseteq Ids' /\ cut' \subseteq Ids'
  BY <1>2 DEF TypeOK, redis
<1>7. due' \in [Conns -> SUBSET Ids']
  BY <1>2
<1> QED BY <1>1, <1>2, <1>3, <1>4, <1>5, <1>6, <1>7 DEF TypeOK, redis, Begin

LEMMA ReplyType ==
    ASSUME TypeOK, NEW c \in Conns, Ask(c), Reply(c),
           UNCHANGED <<members, redis, stored, faults, due, strays, cut>>
    PROVE  TypeOK'
<1>1. got' \in [Conns -> Seq(Ids \cup {0})]
  BY PutType DEF Reply
<1>2. Ids' = Ids
  BY DEF Reply, Ids
<1> QED BY <1>1, <1>2, AskType DEF TypeOK, Reply, redis, handler

LEMMA NotDueType ==
    ASSUME TypeOK, NEW n, NEW t, NEW g, NEW U
    PROVE  NotDue(n, t, g, U) \in [Conns -> SUBSET Ids]
BY DEF TypeOK, NotDue

LEMMA CommandType ==
    ASSUME TypeOK, NEW c \in Conns,
           \/ SendTooLarge(c) \/ \E u \in Names : SendDm(c, u)
           \/ \E g \in Groups :
                \/ SendGroup(c, g) \/ DeleteGroup(c, g)
                \/ \E op \in {"join", "leave", "create"} : GroupCommand(c, op, g)
    PROVE  TypeOK'
<1>0. /\ members \in [Nodes -> SUBSET (Tenants \X Groups \X Names)]
      /\ due \in [Conns -> SUBSET Ids]
  BY DEF TypeOK
<1>1. CASE SendTooLarge(c)
  BY <1>1, ReplyType DEF SendTooLarge
<1>2. ASSUME NEW u \in Names, SendDm(c, u) PROVE TypeOK'
  BY <1>0, <1>2, BeginType DEF SendDm
<1>3. ASSUME NEW g \in Groups, SendGroup(c, g) PROVE TypeOK'
  <2>1. CASE Membership(c, g) \in members[NodeOf[c]]
    BY <1>0, <1>3, <2>1, BeginType DEF SendGroup, Groupish
  <2>2. CASE Membership(c, g) \notin members[NodeOf[c]]
    BY <1>3, <2>2, ReplyType DEF SendGroup
  <2> QED BY <2>1, <2>2
<1>4. ASSUME NEW g \in Groups, DeleteGroup(c, g) PROVE TypeOK'
  <2>1. /\ members' \in [Nodes -> SUBSET (Tenants \X Groups \X Names)]
        /\ due' \in [Conns -> SUBSET Ids] /\ Ids' = Ids
    BY <1>0, <1>4, NotDueType DEF DeleteGroup, Ids
  <2>2. commands' \in 0 .. MaxCommands
    BY <1>4, AskType DEF DeleteGroup
  <2> QED BY <1>4, <2>1, <2>2 DEF DeleteGroup, TypeOK, redis, handler
<1>5. ASSUME NEW g \in Groups, NEW op \in {"join", "leave", "create"}, GroupCommand(c, op, g)
      PROVE  TypeOK'
  <2>1. Membership(c, g) \in Tenants \X Groups \X Names
    BY IdentityAssumption DEF Membership
  <2>2. members' \in [Nodes -> SUBSET (Tenants \X Groups \X Names)]
    BY <1>0, <1>5, <2>1 DEF GroupCommand
  <2>3. due' \in [Conns -> SUBSET Ids]
    BY <1>0, <1>5, NotDueType DEF GroupCommand
  <2> QED BY <1>5, <2>2, <2>3, BeginType DEF GroupCommand, Groupish
<1> QED BY <1>1, <1>2, <1>3, <1>4, <1>5

LEMMA BroadcastType ==
    ASSUME TypeOK, NEW i \in Ids, Broadcast(i)
    PROVE  /\ inbox' \in [Nodes -> Seq(Ids)]
           /\ due' \in [Conns -> SUBSET Ids]
           /\ Ids' = Ids
<1>1. \A n \in Nodes : Append(inbox[n], i) \in Seq(Ids)
  BY AppendProperties DEF TypeOK
<1>2. inbox' \in [Nodes -> Seq(Ids)]
  BY <1>1 DEF Broadcast, TypeOK
<1>3. due' \in [Conns -> SUBSET Ids]
  BY DEF Broadcast, TypeOK
<1>4. Ids' = Ids
  BY DEF Broadcast, Ids
<1> QED BY <1>2, <1>3, <1>4

\* What the two places a handler goes to from a call have in common.
LEMMA AfterCallType ==
    ASSUME TypeOK, NEW c \in Conns, pc[c] \in Calls, AfterCall(c)
    PROVE  /\ cur[c] \in Ids
           /\ pc' \in [Conns -> {"off", "idle", "persist"} \cup Calls]
           /\ cur' \in [Conns -> Ids \cup {0}]
           /\ \A d \in Conns : cur'[d] = 0 <=> pc'[d] \in {"off", "idle"}
<1>1. cur[c] \in Ids
  BY DEF TypeOK, Calls
<1>2. CASE \E l \in {"echo", "persist"} : pc' = [pc EXCEPT ![c] = l] /\ UNCHANGED cur
  BY <1>1, <1>2 DEF TypeOK, Calls
<1>3. CASE pc' = [pc EXCEPT ![c] = "idle"] /\ cur' = [cur EXCEPT ![c] = 0]
  BY <1>1, <1>3 DEF TypeOK, Calls
<1>4. \/ \E l \in {"echo", "persist"} : pc' = [pc EXCEPT ![c] = l] /\ UNCHANGED cur
      \/ pc' = [pc EXCEPT ![c] = "idle"] /\ cur' = [cur EXCEPT ![c] = 0]
  BY DEF AfterCall
<1> QED BY <1>1, <1>2, <1>3, <1>4

LEMMA CallType ==
    ASSUME TypeOK, NEW c \in Conns, Publish(c) \/ PublishError(c)
    PROVE  TypeOK'
<1>1. CASE Publish(c)
  <2>1. cur[c] \in Ids /\ Broadcast(cur[c])
    BY <1>1, AfterCallType DEF Publish
  <2> QED BY <1>1, <2>1, AfterCallType, BroadcastType DEF Publish, TypeOK, Broadcast
<1>2. CASE PublishError(c)
  <2>1. /\ cur[c] \in Ids /\ pc[c] \in Calls /\ FailCall(c) /\ Ids' = Ids
        /\ faults' \in 0 .. MaxFaults
    BY <1>2, AfterCallType, FaultType DEF PublishError, FailCall, Ids
  <2>2. adrift' \subseteq Ids \X Calls /\ strays' \subseteq Ids
    BY <2>1 DEF FailCall, TypeOK
  <2> QED BY <1>2, <2>1, <2>2, AfterCallType DEF PublishError, FailCall, TypeOK
<1> QED BY <1>1, <1>2

LEMMA LandType ==
    ASSUME TypeOK, NEW call \in adrift, Land(call)
    PROVE  TypeOK'
<1>1. call[1] \in Ids /\ Broadcast(call[1])
  BY DEF TypeOK, Land
<1>2. adrift' \subseteq Ids \X Calls
  BY DEF TypeOK, Land
<1> QED BY <1>1, <1>2, BroadcastType DEF Land, Broadcast, TypeOK, handler

LEMMA PersistType ==
    ASSUME TypeOK, NEW c \in Conns, Persist(c) \/ PersistError(c)
    PROVE  TypeOK'
<1>1. pc[c] = "persist" /\ Finish(c) /\ Ids' = Ids
  BY DEF Persist, PersistError, Ids
<1>2. cur[c] \in Ids
  BY <1>1 DEF TypeOK
<1>3. /\ pc' \in [Conns -> {"off", "idle", "persist"} \cup Calls]
      /\ cur' \in [Conns -> Ids \cup {0}]
      /\ \A d \in Conns : cur'[d] = 0 <=> pc'[d] \in {"off", "idle"}
  BY <1>1, <1>2 DEF TypeOK, Finish
<1>4. stored' \subseteq Ids /\ cut' \subseteq Ids
  BY <1>2 DEF TypeOK, Persist, PersistError
<1>5. faults' \in 0 .. MaxFaults
  BY FaultType DEF Persist, PersistError, TypeOK
<1> QED BY <1>1, <1>3, <1>4, <1>5 DEF TypeOK, Persist, PersistError, redis

\* A listener takes the first message of its inbox.
LEMMA ListenStep ==
    ASSUME TypeOK, NEW n \in Nodes, Listen(n)
    PROVE  LET box == inbox[n]
           IN  /\ box \in Seq(Ids) /\ box # << >>
               /\ Head(box) \in Ids /\ Head(box) = box[1]
               /\ Tail(box) \in Seq(Ids)
               /\ Len(box) \in Nat \ {0} /\ Len(Tail(box)) = Len(box) - 1
               /\ \A k \in 1 .. Len(Tail(box)) : Tail(box)[k] = box[k + 1]
               /\ inbox' = [inbox EXCEPT ![n] = Tail(box)]
               /\ sent[Head(box)] \in Messages
<1>1. inbox[n] \in Seq(Ids) /\ inbox[n] # << >>
  BY DEF TypeOK, Listen
<1>2. Len(inbox[n]) \in Nat \ {0}
  BY <1>1, EmptySeq
<1>3. /\ Head(inbox[n]) \in Ids /\ Tail(inbox[n]) \in Seq(Ids)
      /\ Len(Tail(inbox[n])) = Len(inbox[n]) - 1
      /\ \A k \in 1 .. Len(Tail(inbox[n])) : Tail(inbox[n])[k] = inbox[n][k + 1]
  BY <1>1, HeadTailProperties
<1>4. Head(inbox[n]) = inbox[n][1]
  BY <1>1
<1>5. inbox' = [inbox EXCEPT ![n] = Tail(inbox[n])]
  BY DEF Listen, Handle
<1>6. sent[Head(inbox[n])] \in Messages
  BY <1>3, LogType
<1> QED BY <1>1, <1>2, <1>3, <1>4, <1>5, <1>6

LEMMA ListenType == ASSUME TypeOK, NEW n \in Nodes, Listen(n) PROVE TypeOK'
<1> DEFINE i == Head(inbox[n])
           m == sent[i]
           all == IF m.kind = "join"
                  THEN members[n] \cup {<<m.tenant, m.to, NameOf[m.sender]>>} ELSE members[n]
<1>1. /\ i \in Ids /\ m \in Messages /\ Tail(inbox[n]) \in Seq(Ids)
      /\ inbox' = [inbox EXCEPT ![n] = Tail(inbox[n])]
  BY ListenStep
<1>2. all \subseteq Tenants \X Groups \X Names
  <2>1. CASE m.kind = "join"
    <3>1. m.tenant \in Tenants /\ m.sender \in Conns /\ m.to \in Groups
      BY <1>1, <2>1 DEF Messages
    <3> QED BY <2>1, <3>1, IdentityAssumption DEF TypeOK, Membership
  <2>2. CASE m.kind # "join"
    BY <2>2 DEF TypeOK
  <2> QED BY <2>1, <2>2
<1>3. members' = [members EXCEPT ![n] = all]
  BY DEF Listen, Handle
<1>4. members' \in [Nodes -> SUBSET (Tenants \X Groups \X Names)]
  <2> HIDE DEF all
  <2> QED BY <1>2, <1>3 DEF TypeOK
<1>5. \E C : Put(C, i)
  BY DEF Listen, Handle
<1>6. got' \in [Conns -> Seq(Ids \cup {0})]
  BY <1>1, <1>5, PutType
<1>7. inbox' \in [Nodes -> Seq(Ids)]
  BY <1>1 DEF TypeOK
<1>8. UNCHANGED <<listener, sent, adrift, stored, handler, commands, faults, due, strays, cut>> /\ Ids' = Ids
  BY DEF Listen, Handle, Ids
<1> HIDE DEF i, m, all
<1> QED BY <1>4, <1>6, <1>7, <1>8 DEF TypeOK, handler

LEMMA NodeType ==
    ASSUME TypeOK, NEW n \in Nodes, ListenerEnd(n) \/ Restart(n) \/ Subscribe(n)
    PROVE  TypeOK'
<1>1. << >> \in Seq(Ids)
  BY EmptySeq
<1>2. CASE ListenerEnd(n)
  <2>1. inbox' \in [Nodes -> Seq(Ids)] /\ Ids' = Ids
    BY <1>1, <1>2 DEF TypeOK, ListenerEnd, Ids
  <2>2. faults' \in 0 .. MaxFaults
    BY <1>2, FaultType DEF ListenerEnd
  <2> QED BY <1>2, <2>1, <2>2 DEF TypeOK, ListenerEnd, handler
<1>3. CASE Restart(n)
  <2>1. inbox' \in [Nodes -> Seq(Ids)] /\ Ids' = Ids
    BY <1>1, <1>3 DEF TypeOK, Restart, Ids
  <2>2. faults' \in 0 .. MaxFaults
    BY <1>3, FaultType DEF Restart
  <2>3. members' \in [Nodes -> SUBSET (Tenants \X Groups \X Names)]
    BY <1>3 DEF TypeOK, Restart
  <2>4. End({c \in Conns : NodeOf[c] = n})
    BY <1>3 DEF Restart
  <2> QED BY <1>3, <2>1, <2>2, <2>3, <2>4, EndType DEF TypeOK, Restart
<1>4. CASE Subscribe(n)
  BY <1>4 DEF TypeOK, Subscribe, handler, Ids
<1> QED BY <1>2, <1>3, <1>4

LEMMA DisconnectType == ASSUME TypeOK, NEW c \in Conns, Disconnect(c) PROVE TypeOK'
<1>1. End({c}) /\ Ids' = Ids
  BY DEF Disconnect, Ids
<1>2. faults' \in 0 .. MaxFaults
  BY FaultType DEF Disconnect
<1> QED BY <1>1, <1>2, EndType DEF TypeOK, Disconnect

LEMMA NextType == TypeOK /\ [Next]_vars => TypeOK'
<1> SUFFICES ASSUME TypeOK, [Next]_vars PROVE TypeOK'
  OBVIOUS
<1>1. CASE UNCHANGED vars
  BY <1>1 DEF vars, redis, handler, TypeOK, Ids
<1>2. ASSUME NEW c \in Conns,
             \/ Connect(c) \/ Disconnect(c)
             \/ SendTooLarge(c) \/ \E u \in Names : SendDm(c, u)
             \/ \E g \in Groups :
                \/ SendGroup(c, g) \/ DeleteGroup(c, g)
                \/ \E op \in {"join", "leave", "create"} : GroupCommand(c, op, g)
             \/ Publish(c) \/ PublishError(c) \/ Persist(c) \/ PersistError(c)
      PROVE  TypeOK'
  BY <1>2, ConnectType, DisconnectType, CommandType, CallType, PersistType
<1>3. ASSUME NEW call \in adrift, Land(call) PROVE TypeOK'
  BY <1>3, LandType
<1>4. ASSUME NEW n \in Nodes, Listen(n) \/ ListenerEnd(n) \/ Restart(n) \/ Subscribe(n)
      PROVE  TypeOK'
  BY <1>4, ListenType, NodeType
<1> QED BY <1>1, <1>2, <1>3, <1>4 DEF Next

\* Every index in an inbox, a channel, or a handler is that of a message in the
\* log, and a handler has a message exactly while it is at work on one.
THEOREM TypeCorrect == Spec => []TypeOK
BY InitType, NextType, PTL DEF Spec

-----------------------------------------------------------------------------
(* Storage *)

\* The end of connections leaves each message of an aborted handler in cut.
LEMMA EndStored ==
    ASSUME TypeOK, StoredUnlessCut, NEW C \in SUBSET Conns, End(C), UNCHANGED sent
    PROVE  StoredUnlessCut'
<1> SUFFICES ASSUME NEW i \in Ids', sent'[i].kind \in {"dm", "chat"}
             PROVE  i \in stored' \cup cut' \/ \E c \in Conns : cur'[c] = i
  BY DEF StoredUnlessCut
<1>1. i \in Ids /\ sent[i].kind \in {"dm", "chat"}
  BY DEF Ids
<1>2. CASE i \in stored \cup cut
  BY <1>2 DEF End
<1>3. ASSUME NEW c \in Conns, cur[c] = i PROVE i \in cut' \/ cur'[c] = i
  <2>1. CASE c \in C
    <3>1. pc[c] \in Calls \cup {"persist"}
      BY <1>1, <1>3, LogType DEF TypeOK
    <3> QED BY <1>3, <2>1, <3>1 DEF End
  <2>2. CASE c \notin C
    BY <1>3, <2>2 DEF End, TypeOK
  <2> QED BY <2>1, <2>2
<1> QED BY <1>1, <1>2, <1>3 DEF StoredUnlessCut

LEMMA BeginStored ==
    ASSUME TypeOK, StoredUnlessCut, NEW c \in Conns, NEW kind \in {"dm"} \cup Groupish,
           NEW to, IF kind = "dm" THEN to \in Names ELSE to \in Groups,
           pc[c] = "idle", Begin(c, kind, to), UNCHANGED <<stored, cut>>
    PROVE  StoredUnlessCut'
<1> SUFFICES ASSUME NEW i \in Ids', sent'[i].kind \in {"dm", "chat"}
             PROVE  i \in stored' \cup cut' \/ \E d \in Conns : cur'[d] = i
  BY DEF StoredUnlessCut
<1>1. Ids' = Ids \cup {Len(sent) + 1} /\ \A j \in Ids : sent'[j] = sent[j]
  BY BeginStep
<1>2. CASE i = Len(sent) + 1
  BY <1>2 DEF Begin, TypeOK
<1>3. CASE i \in Ids
  <2>1. i \in stored \cup cut \/ \E d \in Conns : cur[d] = i
    BY <1>1, <1>3 DEF StoredUnlessCut
  <2>2. cur[c] = 0 /\ i # 0
    BY <1>3, LogType DEF TypeOK
  <2>3. \A d \in Conns : cur[d] = i => cur'[d] = i
    BY <2>2 DEF Begin, TypeOK
  <2> QED BY <2>1, <2>3
<1> QED BY <1>1, <1>2, <1>3

\* A handler that goes on from a call, or is done with a group command.
LEMMA AfterCallStored ==
    ASSUME TypeOK, StoredUnlessCut, NEW c \in Conns, pc[c] \in Calls, AfterCall(c),
           UNCHANGED <<sent, stored, cut>>
    PROVE  StoredUnlessCut'
<1>1. CASE UNCHANGED cur
  BY <1>1 DEF StoredUnlessCut, Ids
<1>2. CASE sent[cur[c]].kind \notin {"dm", "chat"} /\ cur' = [cur EXCEPT ![c] = 0]
  BY <1>2 DEF StoredUnlessCut, Ids, TypeOK
<1> QED BY <1>1, <1>2 DEF AfterCall

LEMMA FinishStored ==
    ASSUME TypeOK, StoredUnlessCut, NEW c \in Conns, Persist(c) \/ PersistError(c)
    PROVE  StoredUnlessCut'
<1>1. /\ UNCHANGED sent /\ cur' = [cur EXCEPT ![c] = 0]
      /\ stored \cup cut \subseteq stored' \cup cut'
      /\ cur[c] \in stored' \cup cut'
  BY DEF Persist, PersistError, Finish
<1> QED BY <1>1 DEF StoredUnlessCut, Ids, TypeOK

LEMMA NextStored == TypeOK /\ StoredUnlessCut /\ [Next]_vars => StoredUnlessCut'
<1> SUFFICES ASSUME TypeOK, StoredUnlessCut, [Next]_vars PROVE StoredUnlessCut'
  OBVIOUS
<1>1. CASE UNCHANGED <<sent, stored, cut, cur>>
  BY <1>1 DEF StoredUnlessCut, Ids
<1>2. ASSUME NEW c \in Conns,
             Connect(c) \/ SendTooLarge(c) \/ \E g \in Groups : DeleteGroup(c, g)
      PROVE  UNCHANGED <<sent, stored, cut, cur>>
  BY <1>2 DEF Connect, SendTooLarge, Reply, DeleteGroup, handler
<1>3. ASSUME NEW c \in Conns, Disconnect(c) PROVE StoredUnlessCut'
  BY <1>3, EndStored DEF Disconnect
<1>4. ASSUME NEW c \in Conns, NEW u \in Names, SendDm(c, u) PROVE StoredUnlessCut'
  BY <1>4, BeginStored DEF SendDm, Ask
<1>5. ASSUME NEW c \in Conns, NEW g \in Groups, SendGroup(c, g) PROVE StoredUnlessCut'
  <2>1. CASE Begin(c, "chat", g)
    BY <1>5, <2>1, BeginStored DEF SendGroup, Ask, Groupish
  <2>2. CASE Reply(c)
    BY <1>1, <1>5, <2>2 DEF SendGroup, Reply, handler
  <2> QED BY <1>5, <2>1, <2>2 DEF SendGroup
<1>6. ASSUME NEW c \in Conns, NEW g \in Groups, NEW op \in {"join", "leave", "create"},
             GroupCommand(c, op, g)
      PROVE  StoredUnlessCut'
  BY <1>6, BeginStored DEF GroupCommand, Ask, Groupish
<1>7. ASSUME NEW c \in Conns, Publish(c) \/ PublishError(c) PROVE StoredUnlessCut'
  BY <1>7, AfterCallStored DEF Publish, PublishError, FailCall, Broadcast
<1>8. ASSUME NEW c \in Conns, Persist(c) \/ PersistError(c) PROVE StoredUnlessCut'
  BY <1>8, FinishStored
<1>9. ASSUME NEW call \in adrift, Land(call) PROVE UNCHANGED <<sent, stored, cut, cur>>
  BY <1>9 DEF Land, Broadcast, handler
<1>10. ASSUME NEW n \in Nodes, Listen(n) \/ ListenerEnd(n) \/ Subscribe(n)
       PROVE  UNCHANGED <<sent, stored, cut, cur>>
  BY <1>10 DEF Listen, Handle, ListenerEnd, Subscribe, handler
<1>11. ASSUME NEW n \in Nodes, Restart(n) PROVE StoredUnlessCut'
  BY <1>11, EndStored DEF Restart
<1>12. CASE UNCHANGED vars
  BY <1>1, <1>12 DEF vars, handler
<1> QED BY <1>1, <1>2, <1>3, <1>4, <1>5, <1>6, <1>7, <1>8, <1>9, <1>10, <1>11, <1>12 DEF Next

\* No message is lost between PUBLISH and the store but by an error of the
\* store or the end of the sender's connection, whatever Redis does.
THEOREM StoredUnlessCutHolds == Spec => []StoredUnlessCut
<1>1. Init => StoredUnlessCut
  BY DEF Init, StoredUnlessCut, Ids
<1> QED BY <1>1, NextStored, TypeCorrect, PTL DEF Spec

-----------------------------------------------------------------------------
(* Order *)

\* What InOrder asks of two messages of which the first is handled first.
Before(i, j) ==
    i \in Ids \ strays /\ j \in Ids \ strays /\ sent[i].sender = sent[j].sender => i <= j

InboxOrder ==
    \A n \in Nodes : \A k, l \in 1 .. Len(inbox[n]) :
        k < l => Before(inbox[n][k], inbox[n][l])

GotOrder ==
    \A c \in Conns : \A k, l \in 1 .. Len(got[c]) :
        k < l => Before(got[c][k], got[c][l])

\* What a device has comes before what its node has still to read.
GotThenInbox ==
    \A c \in Conns : \A k \in 1 .. Len(got[c]), l \in 1 .. Len(inbox[NodeOf[c]]) :
        Before(got[c][k], inbox[NodeOf[c]][l])

\* A handler is at the last message of its connection, and a call that was
\* given up is one of a stray.
Latest(c) ==
    cur[c] # 0 => /\ sent[cur[c]].sender = c
                  /\ \A j \in Ids : sent[j].sender = c => j <= cur[c]

HandlersLatest == \A c \in Conns : Latest(c)
AdriftStrays == \A call \in adrift : call[1] \in strays

OrderInv == InboxOrder /\ GotOrder /\ GotThenInbox /\ HandlersLatest /\ AdriftStrays

\* The log only grows.
LogKept == Ids \subseteq Ids' /\ (\A i \in Ids : sent'[i] = sent[i]) /\ 0 \notin Ids'

LEMMA SeqsOfIds ==
    TypeOK => /\ \A n \in Nodes : /\ Len(inbox[n]) \in Nat
                                  /\ \A k \in 1 .. Len(inbox[n]) : inbox[n][k] \in Ids
              /\ \A c \in Conns : /\ Len(got[c]) \in Nat
                                  /\ \A k \in 1 .. Len(got[c]) : got[c][k] \in Ids \cup {0}
<1> SUFFICES ASSUME TypeOK
             PROVE  /\ \A n \in Nodes : /\ Len(inbox[n]) \in Nat
                                        /\ \A k \in 1 .. Len(inbox[n]) : inbox[n][k] \in Ids
                    /\ \A c \in Conns : /\ Len(got[c]) \in Nat
                                        /\ \A k \in 1 .. Len(got[c]) : got[c][k] \in Ids \cup {0}
  OBVIOUS
<1>1. \A n \in Nodes : inbox[n] \in Seq(Ids)
  BY DEF TypeOK
<1>2. \A c \in Conns : got[c] \in Seq(Ids \cup {0})
  BY DEF TypeOK
<1> QED BY <1>1, <1>2, LenProperties, ElementOfSeq

\* Steps that leave the sequences as they are, or empty them.
LEMMA KeptOrder ==
    ASSUME TypeOK, OrderInv, LogKept, strays \subseteq strays',
           \A n \in Nodes : inbox'[n] \in {inbox[n], << >>},
           \A c \in Conns : got'[c] \in {got[c], << >>}
    PROVE  (InboxOrder /\ GotOrder /\ GotThenInbox)'
<1> USE SeqsOfIds DEF OrderInv
<1>0. Len(<< >>) = 0
  OBVIOUS
<1>1. InboxOrder'
  <2> SUFFICES ASSUME NEW n \in Nodes, NEW k \in 1 .. Len(inbox'[n]), NEW l \in 1 .. Len(inbox'[n]), k < l
               PROVE  Before(inbox[n][k], inbox[n][l])'
    BY DEF InboxOrder
  <2>1. inbox'[n] = inbox[n]
    BY <1>0
  <2>2. Before(inbox[n][k], inbox[n][l])
    BY <2>1 DEF InboxOrder
  <2>3. inbox[n][k] \in Ids /\ inbox[n][l] \in Ids
    BY <2>1
  <2> QED BY <2>1, <2>2, <2>3 DEF Before, LogKept
<1>2. GotOrder'
  <2> SUFFICES ASSUME NEW c \in Conns, NEW k \in 1 .. Len(got'[c]), NEW l \in 1 .. Len(got'[c]), k < l
               PROVE  Before(got[c][k], got[c][l])'
    BY DEF GotOrder
  <2>1. got'[c] = got[c]
    BY <1>0
  <2>2. Before(got[c][k], got[c][l])
    BY <2>1 DEF GotOrder
  <2>3. got[c][k] \in Ids \cup {0} /\ got[c][l] \in Ids \cup {0}
    BY <2>1
  <2> QED BY <2>1, <2>2, <2>3 DEF Before, LogKept
<1>3. GotThenInbox'
  <2> SUFFICES ASSUME NEW c \in Conns, NEW k \in 1 .. Len(got'[c]), NEW l \in 1 .. Len(inbox'[NodeOf[c]])
               PROVE  Before(got[c][k], inbox[NodeOf[c]][l])'
    BY DEF GotThenInbox
  <2>0. NodeOf[c] \in Nodes
    BY IdentityAssumption
  <2>1. got'[c] = got[c] /\ inbox'[NodeOf[c]] = inbox[NodeOf[c]]
    BY <1>0, <2>0
  <2>2. Before(got[c][k], inbox[NodeOf[c]][l])
    BY <2>1 DEF GotThenInbox
  <2>3. got[c][k] \in Ids \cup {0} /\ inbox[NodeOf[c]][l] \in Ids
    BY <2>0, <2>1
  <2> QED BY <2>1, <2>2, <2>3 DEF Before, LogKept
<1> QED BY <1>1, <1>2, <1>3

\* A refusal, which is no message, is put into channels.
LEMMA ReplyOrder ==
    ASSUME TypeOK, OrderInv, NEW C, Put(C, 0), UNCHANGED <<sent, inbox, strays>>
    PROVE  (InboxOrder /\ GotOrder /\ GotThenInbox)'
<1> USE SeqsOfIds
<1>0. Ids' = Ids /\ 0 \notin Ids
  BY LogType DEF Ids
<1>1. InboxOrder'
  BY <1>0 DEF OrderInv, InboxOrder, Before
<1>2. \A c \in Conns : \A k \in 1 .. Len(got'[c]) :
        got'[c][k] = 0 \/ (k \in 1 .. Len(got[c]) /\ got'[c][k] = got[c][k])
  <2> SUFFICES ASSUME NEW c \in Conns
               PROVE  \A k \in 1 .. Len(got'[c]) :
                        got'[c][k] = 0 \/ (k \in 1 .. Len(got[c]) /\ got'[c][k] = got[c][k])
    OBVIOUS
  <2>1. CASE c \in C
    <3>1. got[c] \in Seq(Ids \cup {0}) /\ got'[c] = Append(got[c], 0)
      BY <2>1 DEF TypeOK, Put
    <3>2. /\ Len(got'[c]) = Len(got[c]) + 1
          /\ \A k \in 1 .. Len(got[c]) : got'[c][k] = got[c][k]
          /\ got'[c][Len(got[c]) + 1] = 0
      BY <3>1, AppendProperties
    <3> QED BY <3>2
  <2>2. CASE c \notin C
    BY <2>2 DEF TypeOK, Put
  <2> QED BY <2>1, <2>2
<1>3. GotOrder'
  BY <1>0, <1>2 DEF OrderInv, GotOrder, Before
<1>4. GotThenInbox'
  BY <1>0, <1>2 DEF OrderInv, GotThenInbox, Before
<1> QED BY <1>1, <1>3, <1>4

\* A message is broadcast that no later one of its sender has overtaken, or
\* that is a stray.
LEMMA BroadcastOrder ==
    ASSUME TypeOK, OrderInv, NEW i \in Ids, Broadcast(i), UNCHANGED strays,
           \A j \in Ids : Before(j, i)
    PROVE  (InboxOrder /\ GotOrder /\ GotThenInbox)'
<1> USE SeqsOfIds
<1>0. Ids' = Ids /\ sent' = sent /\ got' = got
  BY DEF Broadcast, Ids
<1>1. \A n \in Nodes : \A k \in 1 .. Len(inbox'[n]) :
        \/ k \in 1 .. Len(inbox[n]) /\ inbox'[n][k] = inbox[n][k]
        \/ k = Len(inbox[n]) + 1 /\ inbox'[n][k] = i /\ Len(inbox'[n]) = k
  <2> SUFFICES ASSUME NEW n \in Nodes
               PROVE  \A k \in 1 .. Len(inbox'[n]) :
                        \/ k \in 1 .. Len(inbox[n]) /\ inbox'[n][k] = inbox[n][k]
                        \/ k = Len(inbox[n]) + 1 /\ inbox'[n][k] = i /\ Len(inbox'[n]) = k
    OBVIOUS
  <2>1. CASE listener[n] = "on"
    <3>1. inbox[n] \in Seq(Ids) /\ inbox'[n] = Append(inbox[n], i)
      BY <2>1 DEF TypeOK, Broadcast
    <3>2. /\ Len(inbox'[n]) = Len(inbox[n]) + 1
          /\ \A k \in 1 .. Len(inbox[n]) : inbox'[n][k] = inbox[n][k]
          /\ inbox'[n][Len(inbox[n]) + 1] = i
      BY <3>1, AppendProperties
    <3> QED BY <3>2
  <2>2. CASE listener[n] # "on"
    BY <2>2 DEF TypeOK, Broadcast
  <2> QED BY <2>1, <2>2
<1>2. InboxOrder'
  <2> SUFFICES ASSUME NEW n \in Nodes, NEW k \in 1 .. Len(inbox'[n]), NEW l \in 1 .. Len(inbox'[n]), k < l
               PROVE  Before(inbox[n][k], inbox[n][l])'
    BY DEF InboxOrder
  <2>1. k \in 1 .. Len(inbox[n]) /\ inbox'[n][k] = inbox[n][k]
    BY <1>1
  <2>2. CASE l \in 1 .. Len(inbox[n]) /\ inbox'[n][l] = inbox[n][l]
    BY <1>0, <2>1, <2>2 DEF OrderInv, InboxOrder, Before
  <2>3. CASE inbox'[n][l] = i
    BY <1>0, <2>1, <2>3 DEF Before
  <2> QED BY <1>1, <2>2, <2>3
<1>3. GotOrder'
  BY <1>0 DEF OrderInv, GotOrder, Before
<1>4. GotThenInbox'
  <2> SUFFICES ASSUME NEW c \in Conns, NEW k \in 1 .. Len(got'[c]), NEW l \in 1 .. Len(inbox'[NodeOf[c]])
               PROVE  Before(got[c][k], inbox[NodeOf[c]][l])'
    BY DEF GotThenInbox
  <2>1. NodeOf[c] \in Nodes
    BY IdentityAssumption
  <2>2. CASE l \in 1 .. Len(inbox[NodeOf[c]]) /\ inbox'[NodeOf[c]][l] = inbox[NodeOf[c]][l]
    BY <1>0, <2>2 DEF OrderInv, GotThenInbox, Before
  <2>3. CASE inbox'[NodeOf[c]][l] = i
    BY <1>0, <2>3 DEF Before
  <2> QED BY <1>1, <2>1, <2>2, <2>3
<1> QED BY <1>2, <1>3, <1>4

\* The listener takes the first message of an inbox that is in order.
LEMMA ListenOrder ==
    ASSUME TypeOK, OrderInv, NEW n \in Nodes, Listen(n)
    PROVE  (InboxOrder /\ GotOrder /\ GotThenInbox)'
<1> DEFINE i == Head(inbox[n])
<1> USE SeqsOfIds
<1>0. Ids' = Ids /\ sent' = sent /\ strays' = strays
  BY DEF Listen, Handle, Ids
<1>1. /\ i = inbox[n][1] /\ Len(inbox[n]) \in Nat \ {0} /\ 1 \in 1 .. Len(inbox[n])
      /\ Len(inbox'[n]) = Len(inbox[n]) - 1
      /\ \A k \in 1 .. Len(inbox'[n]) : inbox'[n][k] = inbox[n][k + 1] /\ k + 1 \in 1 .. Len(inbox[n])
      /\ \A o \in Nodes \ {n} : inbox'[o] = inbox[o]
  <2>1. inbox'[n] = Tail(inbox[n]) /\ \A o \in Nodes \ {n} : inbox'[o] = inbox[o]
    BY ListenStep DEF TypeOK
  <2>2. /\ i = inbox[n][1] /\ Len(inbox[n]) \in Nat \ {0}
        /\ Len(Tail(inbox[n])) = Len(inbox[n]) - 1
        /\ \A k \in 1 .. Len(Tail(inbox[n])) : Tail(inbox[n])[k] = inbox[n][k + 1]
    BY ListenStep
  <2> HIDE DEF i
  <2> QED BY <2>1, <2>2
<1>2. i \in Ids
  BY ListenStep
<1>3. \E C : Put(C, i) /\ \A c \in C : NodeOf[c] = n
  <2>1. Put(IF sent[i].kind = "dm" THEN Devices(n, sent[i].tenant, sent[i].to)
            ELSE GroupDevices(n, sent[i].tenant, sent[i].to,
                    IF sent[i].kind = "join"
                    THEN members[n] \cup {<<sent[i].tenant, sent[i].to, NameOf[sent[i].sender]>>}
                    ELSE members[n]), i)
    BY DEF Listen, Handle
  <2> HIDE DEF i
  <2>2. /\ \A t, u : \A c \in Devices(n, t, u) : NodeOf[c] = n
        /\ \A t, g, all : \A c \in GroupDevices(n, t, g, all) : NodeOf[c] = n
    BY DEF Devices, GroupDevices
  <2>3. CASE sent[i].kind = "dm"
    BY <2>1, <2>2, <2>3
  <2>4. CASE sent[i].kind # "dm"
    BY <2>1, <2>2, <2>4
  <2> QED BY <2>3, <2>4
<1>4. PICK C : Put(C, i) /\ \A c \in C : NodeOf[c] = n
  BY <1>3
<1> HIDE DEF i
<1>5. \A c \in Conns : \A k \in 1 .. Len(got'[c]) :
        \/ k \in 1 .. Len(got[c]) /\ got'[c][k] = got[c][k]
        \/ k = Len(got[c]) + 1 /\ got'[c][k] = i /\ Len(got'[c]) = k /\ NodeOf[c] = n
  <2> SUFFICES ASSUME NEW c \in Conns
               PROVE  \A k \in 1 .. Len(got'[c]) :
                        \/ k \in 1 .. Len(got[c]) /\ got'[c][k] = got[c][k]
                        \/ k = Len(got[c]) + 1 /\ got'[c][k] = i /\ Len(got'[c]) = k /\ NodeOf[c] = n
    OBVIOUS
  <2>1. CASE c \in C
    <3>1. got[c] \in Seq(Ids \cup {0}) /\ got'[c] = Append(got[c], i)
      BY <1>4, <2>1 DEF TypeOK, Put
    <3>2. /\ Len(got'[c]) = Len(got[c]) + 1
          /\ \A k \in 1 .. Len(got[c]) : got'[c][k] = got[c][k]
          /\ got'[c][Len(got[c]) + 1] = i
      BY <1>2, <3>1, AppendProperties
    <3> QED BY <1>4, <2>1, <3>2
  <2>2. CASE c \notin C
    BY <1>4, <2>2 DEF TypeOK, Put
  <2> QED BY <2>1, <2>2
<1>6. InboxOrder'
  <2> SUFFICES ASSUME NEW o \in Nodes, NEW k \in 1 .. Len(inbox'[o]), NEW l \in 1 .. Len(inbox'[o]), k < l
               PROVE  Before(inbox[o][k], inbox[o][l])'
    BY DEF InboxOrder
  <2>1. CASE o = n
    <3>0. k \in 1 .. Len(inbox'[n]) /\ l \in 1 .. Len(inbox'[n]) /\ k \in Int /\ l \in Int
      BY <2>1
    <3>1. /\ k + 1 \in 1 .. Len(inbox[n]) /\ l + 1 \in 1 .. Len(inbox[n]) /\ k + 1 < l + 1
          /\ inbox'[n][k] = inbox[n][k + 1] /\ inbox'[n][l] = inbox[n][l + 1]
      <4>1. inbox'[n][k] = inbox[n][k + 1] /\ inbox'[n][l] = inbox[n][l + 1]
        BY <1>1, <3>0
      <4>2. Len(inbox[n]) \in Nat /\ Len(inbox'[n]) = Len(inbox[n]) - 1
        BY <1>1
      <4>3. 1 <= k /\ k <= Len(inbox'[n]) /\ 1 <= l /\ l <= Len(inbox'[n])
        BY <3>0, <4>2
      <4> QED BY <3>0, <4>1, <4>2, <4>3
    <3>2. Before(inbox[n][k + 1], inbox[n][l + 1])
      BY <3>1 DEF OrderInv, InboxOrder
    <3> QED BY <1>0, <2>1, <3>1, <3>2 DEF Before
  <2>2. CASE o # n
    BY <1>0, <1>1, <2>2 DEF OrderInv, InboxOrder, Before
  <2> QED BY <2>1, <2>2
<1>7. GotOrder'
  <2> SUFFICES ASSUME NEW c \in Conns, NEW k \in 1 .. Len(got'[c]), NEW l \in 1 .. Len(got'[c]), k < l
               PROVE  Before(got[c][k], got[c][l])'
    BY DEF GotOrder
  <2>1. k \in 1 .. Len(got[c]) /\ got'[c][k] = got[c][k]
    BY <1>5
  <2>2. CASE l \in 1 .. Len(got[c]) /\ got'[c][l] = got[c][l]
    BY <1>0, <2>1, <2>2 DEF OrderInv, GotOrder, Before
  <2>3. CASE got'[c][l] = i /\ NodeOf[c] = n
    <3>1. Before(got[c][k], inbox[n][1])
      BY <1>1, <2>1, <2>3 DEF OrderInv, GotThenInbox
    <3> QED BY <1>0, <1>1, <2>1, <2>3, <3>1 DEF Before
  <2> QED BY <1>5, <2>2, <2>3
<1>8. GotThenInbox'
  <2> SUFFICES ASSUME NEW c \in Conns, NEW k \in 1 .. Len(got'[c]), NEW l \in 1 .. Len(inbox'[NodeOf[c]])
               PROVE  Before(got[c][k], inbox[NodeOf[c]][l])'
    BY DEF GotThenInbox
  <2>0. NodeOf[c] \in Nodes
    BY IdentityAssumption
  <2>1. CASE NodeOf[c] # n
    BY <1>0, <1>1, <1>5, <2>0, <2>1 DEF OrderInv, GotThenInbox, Before
  <2>2. CASE NodeOf[c] = n
    <3>1. l + 1 \in 1 .. Len(inbox[n]) /\ inbox'[n][l] = inbox[n][l + 1] /\ 1 < l + 1
      BY <1>1, <2>2
    <3>2. CASE k \in 1 .. Len(got[c]) /\ got'[c][k] = got[c][k]
      <4>1. Before(got[c][k], inbox[n][l + 1])
        BY <2>2, <3>1, <3>2 DEF OrderInv, GotThenInbox
      <4> QED BY <1>0, <2>2, <3>1, <3>2, <4>1 DEF Before
    <3>3. CASE got'[c][k] = i
      <4>1. Before(inbox[n][1], inbox[n][l + 1])
        BY <1>1, <3>1 DEF OrderInv, InboxOrder
      <4> QED BY <1>0, <1>1, <2>2, <3>1, <3>3, <4>1 DEF Before
    <3> QED BY <1>5, <3>2, <3>3
  <2> QED BY <2>1, <2>2
<1> QED BY <1>6, <1>7, <1>8

\* Handlers that stay at their message or let go of it.
LEMMA HandlersKept ==
    ASSUME TypeOK, OrderInv, UNCHANGED sent, \A c \in Conns : cur'[c] \in {cur[c], 0},
           \A call \in adrift' : call \in adrift \/ call[1] \in strays',
           strays \subseteq strays'
    PROVE  HandlersLatest' /\ AdriftStrays'
BY DEF OrderInv, HandlersLatest, Latest, AdriftStrays, Ids

LEMMA SameLog == ASSUME TypeOK, UNCHANGED sent PROVE LogKept
BY LogType DEF LogKept, Ids

\* Steps that change neither the order nor the handlers.
LEMMA KeptOrderInv ==
    ASSUME TypeOK, OrderInv, UNCHANGED sent, strays \subseteq strays',
           \A n \in Nodes : inbox'[n] \in {inbox[n], << >>},
           \A c \in Conns : got'[c] \in {got[c], << >>},
           \A c \in Conns : cur'[c] \in {cur[c], 0},
           \A call \in adrift' : call \in adrift \/ call[1] \in strays'
    PROVE  OrderInv'
BY SameLog, KeptOrder, HandlersKept DEF OrderInv

LEMMA EndOrder ==
    ASSUME TypeOK, OrderInv, NEW C \in SUBSET Conns, End(C), UNCHANGED sent,
           \A n \in Nodes : inbox'[n] \in {inbox[n], << >>}
    PROVE  OrderInv'
<1>1. strays \subseteq strays' /\ \A call \in adrift' : call \in adrift \/ call[1] \in strays'
  BY DEF End
<1>2. /\ \A c \in Conns : got'[c] \in {got[c], << >>}
      /\ \A c \in Conns : cur'[c] \in {cur[c], 0}
  BY DEF End
<1> QED BY <1>1, <1>2, KeptOrderInv

LEMMA BeginOrder ==
    ASSUME TypeOK, OrderInv, NEW c \in Conns, NEW kind \in {"dm"} \cup Groupish,
           NEW to, IF kind = "dm" THEN to \in Names ELSE to \in Groups,
           pc[c] = "idle", Begin(c, kind, to), UNCHANGED <<inbox, adrift, strays>>
    PROVE  OrderInv'
<1>1. /\ Len(sent) \in Nat
      /\ Ids' = Ids \cup {Len(sent) + 1}
      /\ \A i \in Ids : sent'[i] = sent[i]
      /\ sent'[Len(sent) + 1].sender = c
  <2>1. sent'[Len(sent) + 1] = [kind |-> kind, tenant |-> TenantOf[c], to |-> to, sender |-> c]
    BY BeginStep
  <2>2. sent'[Len(sent) + 1].sender = c
    BY <2>1
  <2> QED BY <2>2, BeginStep
<1>2. LogKept
  BY <1>1, LogType DEF LogKept
<1>3. (InboxOrder /\ GotOrder /\ GotThenInbox)'
  BY <1>2, KeptOrder DEF Begin
<1>4. ASSUME NEW d \in Conns PROVE Latest(d)'
  <2>1. CASE d = c
    <3>1. cur'[c] = Len(sent) + 1
      BY DEF Begin, TypeOK
    <3>2. \A j \in Ids : j <= Len(sent) + 1
      BY <1>1 DEF Ids
    <3> QED BY <1>1, <2>1, <3>1, <3>2 DEF Latest
  <2>2. CASE d # c
    <3>1. cur'[d] = cur[d] /\ (cur[d] # 0 => cur[d] \in Ids)
      BY <2>2 DEF Begin, TypeOK
    <3> QED BY <1>1, <2>2, <3>1 DEF OrderInv, HandlersLatest, Latest
  <2> QED BY <2>1, <2>2
<1>5. AdriftStrays'
  BY DEF OrderInv, AdriftStrays
<1> QED BY <1>3, <1>4, <1>5 DEF OrderInv, HandlersLatest

LEMMA ReplyOrderInv ==
    ASSUME TypeOK, OrderInv, NEW c \in Conns, Reply(c), UNCHANGED <<inbox, adrift, strays>>
    PROVE  OrderInv'
<1>1. UNCHANGED <<sent, cur>> /\ \E C : Put(C, 0)
  BY DEF Reply, handler
<1>2. (InboxOrder /\ GotOrder /\ GotThenInbox)'
  BY <1>1, ReplyOrder
<1>3. HandlersLatest' /\ AdriftStrays'
  BY <1>1, HandlersKept
<1> QED BY <1>2, <1>3 DEF OrderInv

LEMMA CallOrder ==
    ASSUME TypeOK, OrderInv, NEW c \in Conns, Publish(c) \/ PublishError(c)
    PROVE  OrderInv'
<1>1. cur[c] \in Ids /\ cur[c] # 0 /\ UNCHANGED sent
  BY AfterCallType, LogType DEF Publish, PublishError, FailCall, Broadcast
<1>2. \A d \in Conns : cur'[d] \in {cur[d], 0}
  BY DEF Publish, PublishError, AfterCall, TypeOK
<1>3. CASE Publish(c)
  <2>1. Latest(c)
    BY DEF OrderInv, HandlersLatest
  <2>2. \A j \in Ids : Before(j, cur[c])
    BY <1>1, <2>1 DEF Latest, Before
  <2>3. (InboxOrder /\ GotOrder /\ GotThenInbox)'
    BY <1>1, <1>3, <2>2, BroadcastOrder DEF Publish
  <2>4. HandlersLatest' /\ AdriftStrays'
    BY <1>1, <1>2, <1>3, HandlersKept DEF Publish
  <2> QED BY <2>3, <2>4 DEF OrderInv
<1>4. CASE PublishError(c)
  <2>1. strays \subseteq strays' /\ \A call \in adrift' : call \in adrift \/ call[1] \in strays'
    BY <1>4 DEF PublishError, FailCall
  <2>2. UNCHANGED <<inbox, got>>
    BY <1>4 DEF PublishError, FailCall
  <2> QED BY <1>1, <1>2, <2>1, <2>2, KeptOrderInv
<1> QED BY <1>3, <1>4

LEMMA LandOrder ==
    ASSUME TypeOK, OrderInv, NEW call \in adrift, Land(call)
    PROVE  OrderInv'
<1>1. call[1] \in Ids /\ call[1] \in strays
  BY DEF TypeOK, OrderInv, AdriftStrays
<1>2. \A j \in Ids : Before(j, call[1])
  BY <1>1 DEF Before
<1>3. (InboxOrder /\ GotOrder /\ GotThenInbox)'
  BY <1>1, <1>2, BroadcastOrder DEF Land
<1>4. HandlersLatest' /\ AdriftStrays'
  <2>1. UNCHANGED <<sent, cur, strays>> /\ adrift' \subseteq adrift
    BY DEF Land, Broadcast, handler
  <2> QED BY <2>1, HandlersKept
<1> QED BY <1>3, <1>4 DEF OrderInv

LEMMA ListenOrderInv == ASSUME TypeOK, OrderInv, NEW n \in Nodes, Listen(n) PROVE OrderInv'
<1>1. UNCHANGED <<sent, cur, adrift, strays>>
  BY DEF Listen, Handle, handler
<1> QED BY <1>1, ListenOrder, HandlersKept DEF OrderInv

LEMMA NextOrder == TypeOK /\ OrderInv /\ [Next]_vars => OrderInv'
<1> SUFFICES ASSUME TypeOK, OrderInv, [Next]_vars PROVE OrderInv'
  OBVIOUS
<1>1. CASE UNCHANGED <<sent, inbox, got, cur, adrift, strays>>
  BY <1>1, KeptOrderInv
<1>2. ASSUME NEW c \in Conns, Connect(c) \/ \E g \in Groups : DeleteGroup(c, g)
      PROVE  UNCHANGED <<sent, inbox, got, cur, adrift, strays>>
  BY <1>2 DEF Connect, DeleteGroup, handler, redis
<1>3. ASSUME NEW c \in Conns, Disconnect(c) PROVE OrderInv'
  BY <1>3, EndOrder DEF Disconnect
<1>4. ASSUME NEW c \in Conns, SendTooLarge(c) PROVE OrderInv'
  BY <1>4, ReplyOrderInv DEF SendTooLarge, redis
<1>5. ASSUME NEW c \in Conns, NEW u \in Names, SendDm(c, u) PROVE OrderInv'
  BY <1>5, BeginOrder DEF SendDm, Ask, redis
<1>6. ASSUME NEW c \in Conns, NEW g \in Groups, SendGroup(c, g) PROVE OrderInv'
  <2>1. CASE Begin(c, "chat", g)
    BY <1>6, <2>1, BeginOrder DEF SendGroup, Ask, Groupish, redis
  <2>2. CASE Reply(c)
    BY <1>6, <2>2, ReplyOrderInv DEF SendGroup, redis
  <2> QED BY <1>6, <2>1, <2>2 DEF SendGroup
<1>7. ASSUME NEW c \in Conns, NEW g \in Groups, NEW op \in {"join", "leave", "create"},
             GroupCommand(c, op, g)
      PROVE  OrderInv'
  BY <1>7, BeginOrder DEF GroupCommand, Ask, Groupish, redis
<1>8. ASSUME NEW c \in Conns, Publish(c) \/ PublishError(c) PROVE OrderInv'
  BY <1>8, CallOrder
<1>9. ASSUME NEW c \in Conns, Persist(c) \/ PersistError(c) PROVE OrderInv'
  <2>1. /\ UNCHANGED <<sent, inbox, got, adrift, strays>>
        /\ \A d \in Conns : cur'[d] \in {cur[d], 0}
    BY <1>9 DEF Persist, PersistError, Finish, redis, TypeOK
  <2> QED BY <2>1, KeptOrderInv
<1>10. ASSUME NEW call \in adrift, Land(call) PROVE OrderInv'
  BY <1>10, LandOrder
<1>11. ASSUME NEW n \in Nodes, Listen(n) PROVE OrderInv'
  BY <1>11, ListenOrderInv
<1>12. ASSUME NEW n \in Nodes, ListenerEnd(n) \/ Restart(n) \/ Subscribe(n) PROVE OrderInv'
  <2>1. \A o \in Nodes : inbox'[o] \in {inbox[o], << >>}
    BY <1>12 DEF ListenerEnd, Restart, Subscribe, TypeOK
  <2>2. CASE Restart(n)
    BY <2>1, <2>2, EndOrder DEF Restart
  <2>3. CASE ListenerEnd(n) \/ Subscribe(n)
    BY <2>1, <2>3, KeptOrderInv DEF ListenerEnd, Subscribe, handler
  <2> QED BY <1>12, <2>2, <2>3
<1>13. CASE UNCHANGED vars
  BY <1>1, <1>13 DEF vars, handler, redis
<1> QED BY <1>1, <1>2, <1>3, <1>4, <1>5, <1>6, <1>7, <1>8, <1>9, <1>10, <1>11, <1>12, <1>13
        DEF Next

LEMMA InitOrder == Init => OrderInv
<1>1. Len(<< >>) = 0
  OBVIOUS
<1> QED BY <1>1, IdentityAssumption
        DEF Init, OrderInv, InboxOrder, GotOrder, GotThenInbox, HandlersLatest, Latest, AdriftStrays

LEMMA OrderInvariance == Spec => []OrderInv
BY InitOrder, NextOrder, TypeCorrect, PTL DEF Spec

LEMMA OrderInvInOrder == TypeOK /\ OrderInv => InOrder
<1> SUFFICES ASSUME TypeOK, OrderInv, NEW c \in Conns, NEW i \in Ids \ strays, NEW j \in Ids \ strays,
                    i < j, sent[i].sender = sent[j].sender,
                    NEW k \in Copies(c, i), NEW l \in Copies(c, j)
             PROVE  k < l
  BY DEF InOrder
<1>1. k \in 1 .. Len(got[c]) /\ l \in 1 .. Len(got[c]) /\ Len(got[c]) \in Nat /\ got[c][k] = i /\ got[c][l] = j
  BY SeqsOfIds DEF Copies
<1>2. l < k => Before(j, i)
  BY <1>1 DEF OrderInv, GotOrder
<1>3. i \in Nat /\ j \in Nat
  BY LogType
<1> QED BY <1>1, <1>2, <1>3 DEF Before

\* The messages of a connection arrive in order on every device, strays aside.
THEOREM InOrderHolds == Spec => []InOrder
BY OrderInvariance, TypeCorrect, OrderInvInOrder, PTL

-----------------------------------------------------------------------------
(* Tenants *)

Fits(c, i) ==
    /\ sent[i].tenant = TenantOf[c]
    /\ sent[i].kind = "dm" => sent[i].to = NameOf[c]

Apart ==
    \A c \in Conns : \A k \in 1 .. Len(got[c]) : got[c][k] # 0 => Fits(c, got[c][k])

\* What a step may put into channels: nothing, or a message that fits.
LEMMA PutApart ==
    ASSUME TypeOK, Apart, LogKept, NEW C, NEW i \in Ids \cup {0}, Put(C, i),
           i # 0 => \A c \in C \cap Conns : Fits(c, i)
    PROVE  Apart'
<1> SUFFICES ASSUME NEW c \in Conns, NEW k \in 1 .. Len(got'[c]), got'[c][k] # 0
             PROVE  Fits(c, got[c][k])'
  BY DEF Apart
<1>0. /\ got[c] \in Seq(Ids \cup {0}) /\ Len(got[c]) \in Nat
      /\ \A l \in 1 .. Len(got[c]) : got[c][l] \in Ids \cup {0}
  BY SeqsOfIds DEF TypeOK
<1>1. \/ k \in 1 .. Len(got[c]) /\ got'[c][k] = got[c][k]
      \/ c \in C /\ got'[c][k] = i
  <2>1. CASE c \in C
    <3>1. got'[c] = Append(got[c], i)
      BY <2>1 DEF TypeOK, Put
    <3>2. /\ Len(got'[c]) = Len(got[c]) + 1
          /\ \A l \in 1 .. Len(got[c]) : got'[c][l] = got[c][l]
          /\ got'[c][Len(got[c]) + 1] = i
      BY <1>0, <3>1, AppendProperties
    <3> QED BY <1>0, <2>1, <3>2
  <2>2. CASE c \notin C
    BY <2>2 DEF TypeOK, Put
  <2> QED BY <2>1, <2>2
<1>2. CASE k \in 1 .. Len(got[c]) /\ got'[c][k] = got[c][k]
  <2>1. got[c][k] \in Ids /\ Fits(c, got[c][k])
    BY <1>0, <1>2 DEF Apart
  <2> QED BY <1>2, <2>1 DEF Fits, LogKept
<1>3. CASE c \in C /\ got'[c][k] = i
  BY <1>3 DEF Fits, LogKept
<1> QED BY <1>1, <1>2, <1>3

LEMMA KeptApart ==
    ASSUME TypeOK, Apart, LogKept, \A c \in Conns : got'[c] \in {got[c], << >>}
    PROVE  Apart'
<1>1. Len(<< >>) = 0
  OBVIOUS
<1> SUFFICES ASSUME NEW c \in Conns, NEW k \in 1 .. Len(got'[c]), got'[c][k] # 0
             PROVE  Fits(c, got[c][k])'
  BY DEF Apart
<1>2. got'[c] = got[c]
  BY <1>1
<1>3. got[c][k] \in Ids /\ Fits(c, got[c][k])
  BY <1>2, SeqsOfIds DEF Apart
<1> QED BY <1>2, <1>3 DEF Fits, LogKept

\* The listener routes by the tenant and the channel_id of the message.
LEMMA ListenApart == ASSUME TypeOK, Apart, NEW n \in Nodes, Listen(n) PROVE Apart'
<1> DEFINE i == Head(inbox[n])
<1>1. i \in Ids /\ UNCHANGED sent
  BY ListenStep DEF Listen, Handle
<1>2. \E C : Put(C, i) /\ \A c \in C : Fits(c, i)
  <2>1. Put(IF sent[i].kind = "dm" THEN Devices(n, sent[i].tenant, sent[i].to)
            ELSE GroupDevices(n, sent[i].tenant, sent[i].to,
                    IF sent[i].kind = "join"
                    THEN members[n] \cup {<<sent[i].tenant, sent[i].to, NameOf[sent[i].sender]>>}
                    ELSE members[n]), i)
    BY DEF Listen, Handle
  <2> HIDE DEF i
  <2>2. \A c \in Devices(n, sent[i].tenant, sent[i].to) : Fits(c, i)
    BY DEF Devices, Fits
  <2>3. sent[i].kind # "dm" =>
            \A all : \A c \in GroupDevices(n, sent[i].tenant, sent[i].to, all) : Fits(c, i)
    BY DEF GroupDevices, Fits
  <2>4. CASE sent[i].kind = "dm"
    BY <2>1, <2>2, <2>4
  <2>5. CASE sent[i].kind # "dm"
    BY <2>1, <2>3, <2>5
  <2> QED BY <2>4, <2>5
<1>3. LogKept
  BY <1>1, SameLog
<1> HIDE DEF i
<1> QED BY <1>1, <1>2, <1>3, PutApart

LEMMA NextApart == TypeOK /\ Apart /\ [Next]_vars => Apart'
<1> SUFFICES ASSUME TypeOK, Apart, [Next]_vars PROVE Apart'
  OBVIOUS
<1>1. CASE UNCHANGED <<sent, got>>
  BY <1>1, SameLog, KeptApart
<1>2. ASSUME NEW C \in SUBSET Conns, End(C), UNCHANGED sent PROVE Apart'
  <2>1. \A c \in Conns : got'[c] \in {got[c], << >>}
    BY <1>2 DEF End
  <2> QED BY <1>2, <2>1, SameLog, KeptApart
<1>3. ASSUME NEW c \in Conns, NEW kind \in {"dm"} \cup Groupish,
             NEW to, IF kind = "dm" THEN to \in Names ELSE to \in Groups,
             pc[c] = "idle", Begin(c, kind, to)
      PROVE  Apart'
  <2>1. LogKept
    <3>1. Len(sent) \in Nat /\ Ids' = Ids \cup {Len(sent) + 1} /\ \A j \in Ids : sent'[j] = sent[j]
      BY <1>3, BeginStep
    <3> QED BY <3>1, LogType DEF LogKept
  <2> QED BY <1>3, <2>1, KeptApart DEF Begin
<1>4. ASSUME NEW c \in Conns, Reply(c) PROVE Apart'
  <2>1. UNCHANGED sent /\ \E C : Put(C, 0)
    BY <1>4 DEF Reply
  <2> QED BY <2>1, SameLog, PutApart
<1>5. ASSUME NEW c \in Conns,
             \/ Connect(c) \/ \E g \in Groups : DeleteGroup(c, g)
             \/ Publish(c) \/ PublishError(c) \/ Persist(c) \/ PersistError(c)
      PROVE  UNCHANGED <<sent, got>>
  BY <1>5 DEF Connect, DeleteGroup, Publish, Broadcast, PublishError, FailCall, Persist, PersistError
<1>6. ASSUME NEW c \in Conns, Disconnect(c) PROVE Apart'
  BY <1>2, <1>6 DEF Disconnect
<1>7. ASSUME NEW c \in Conns, SendTooLarge(c) PROVE Apart'
  BY <1>4, <1>7 DEF SendTooLarge
<1>8. ASSUME NEW c \in Conns, NEW u \in Names, SendDm(c, u) PROVE Apart'
  BY <1>3, <1>8 DEF SendDm, Ask
<1>9. ASSUME NEW c \in Conns, NEW g \in Groups, SendGroup(c, g) PROVE Apart'
  BY <1>3, <1>4, <1>9 DEF SendGroup, Ask, Groupish
<1>10. ASSUME NEW c \in Conns, NEW g \in Groups, NEW op \in {"join", "leave", "create"},
              GroupCommand(c, op, g)
       PROVE  Apart'
  BY <1>3, <1>10 DEF GroupCommand, Ask, Groupish
<1>11. ASSUME NEW call \in adrift, Land(call) PROVE UNCHANGED <<sent, got>>
  BY <1>11 DEF Land, Broadcast
<1>12. ASSUME NEW n \in Nodes, Listen(n) PROVE Apart'
  BY <1>12, ListenApart
<1>13. ASSUME NEW n \in Nodes, ListenerEnd(n) \/ Subscribe(n) PROVE UNCHANGED <<sent, got>>
  BY <1>13 DEF ListenerEnd, Subscribe
<1>14. ASSUME NEW n \in Nodes, Restart(n) PROVE Apart'
  BY <1>2, <1>14 DEF Restart
<1>15. CASE UNCHANGED vars
  BY <1>1, <1>15 DEF vars
<1> QED BY <1>1, <1>5, <1>6, <1>7, <1>8, <1>9, <1>10, <1>11, <1>12, <1>13, <1>14, <1>15 DEF Next

\* No tenant sees a message of another, and nobody a DM between two others, for
\* any number of tenants that share the names of users and groups.
THEOREM TenantsApartHolds == Spec => []TenantsApart
<1>1. Init => Apart
  <2>1. Len(<< >>) = 0
    OBVIOUS
  <2> QED BY <2>1 DEF Init, Apart
<1>2. TypeOK /\ Apart => TenantsApart
  BY LogType DEF Apart, TenantsApart, Fits, Copies
<1> QED BY <1>1, <1>2, NextApart, TypeCorrect, PTL DEF Spec

-----------------------------------------------------------------------------
(* Delivery *)

Has(c, i) == \E k \in 1 .. Len(got[c]) : got[c][k] = i

\* Message j is a join of c's user to group g.
JoinOf(c, g, j) ==
    /\ sent[j].kind = "join" /\ sent[j].tenant = TenantOf[c]
    /\ sent[j].to = g /\ NameOf[sent[j].sender] = NameOf[c]

\* When the listener of c's node has read its inbox up to entry k, the user is
\* one whom message i is for.
Heard(c, i, k) ==
    \/ sent[i].kind = "dm"
    \/ Membership(c, sent[i].to) \in members[NodeOf[c]]
    \/ \E l \in 1 .. k : JoinOf(c, sent[i].to, inbox[NodeOf[c]][l])

OnItsWay(c, i) ==
    \E k \in 1 .. Len(inbox[NodeOf[c]]) : inbox[NodeOf[c]][k] = i /\ Heard(c, i, k)

DueOf(c) ==
    /\ due[c] # {} => pc[c] # "off" /\ listener[NodeOf[c]] # "starting"
    /\ listener[NodeOf[c]] = "on" =>
        \A i \in due[c] : Fits(c, i) /\ (Has(c, i) \/ OnItsWay(c, i))

DueInv == \A c \in Conns : DueOf(c)

\* What a device is due stays on its way while its node changes only for the
\* better.
LEMMA KeptDue ==
    ASSUME TypeOK, LogKept, NEW c \in Conns, DueOf(c), due'[c] \subseteq due[c],
           due'[c] # {} => pc'[c] # "off",
           listener'[NodeOf[c]] = listener[NodeOf[c]],
           inbox'[NodeOf[c]] = inbox[NodeOf[c]],
           \A i \in due'[c] :
                Membership(c, sent[i].to) \in members[NodeOf[c]] =>
                    sent[i].kind = "dm" \/ Membership(c, sent[i].to) \in members'[NodeOf[c]],
           \A i \in due'[c] : Has(c, i) => Has(c, i)'
    PROVE  DueOf(c)'
<1> DEFINE n == NodeOf[c]
<1>0. n \in Nodes /\ due[c] \subseteq Ids
  BY IdentityAssumption DEF TypeOK
<1>1. due'[c] # {} => pc'[c] # "off" /\ listener'[n] # "starting"
  BY DEF DueOf
<1>2. ASSUME listener'[n] = "on", NEW i \in due'[c]
      PROVE  Fits(c, i)' /\ (Has(c, i)' \/ OnItsWay(c, i)')
  <2>1. i \in Ids /\ Fits(c, i) /\ (Has(c, i) \/ OnItsWay(c, i)) /\ sent'[i] = sent[i]
    BY <1>0, <1>2 DEF DueOf, LogKept
  <2>2. Fits(c, i)'
    BY <2>1 DEF Fits
  <2>3. CASE OnItsWay(c, i)
    <3>1. PICK k \in 1 .. Len(inbox[n]) : inbox[n][k] = i /\ Heard(c, i, k)
      BY <2>3 DEF OnItsWay
    <3>2. \A l \in 1 .. k : inbox[n][l] \in Ids
      BY <1>0, SeqsOfIds, <3>1
    <3>3. Heard(c, i, k)'
      <4>1. CASE sent[i].kind = "dm" \/ Membership(c, sent[i].to) \in members[n]
        BY <1>2, <2>1, <4>1 DEF Heard, Membership
      <4>2. ASSUME NEW l \in 1 .. k, JoinOf(c, sent[i].to, inbox[n][l])
            PROVE  JoinOf(c, sent[i].to, inbox[n][l])'
        BY <2>1, <3>2, <4>2 DEF JoinOf, LogKept
      <4> QED BY <3>1, <4>1, <4>2 DEF Heard
    <3> QED BY <2>2, <3>1, <3>3 DEF OnItsWay
  <2> QED BY <1>2, <2>1, <2>2, <2>3
<1> QED BY <1>1, <1>2 DEF DueOf

LEMMA NothingDue == \A c \in Conns : due'[c] = {} => DueOf(c)'
BY DEF DueOf

\* What is put into channels is there with what was there.
LEMMA PutHas ==
    ASSUME TypeOK, NEW C, NEW i \in Ids \cup {0}, Put(C, i), NEW c \in Conns
    PROVE  /\ \A j : Has(c, j) => Has(c, j)'
           /\ c \in C => Has(c, i)'
<1>1. got[c] \in Seq(Ids \cup {0}) /\ Len(got[c]) \in Nat
  BY LenProperties DEF TypeOK
<1>2. CASE c \in C
  <2>1. got'[c] = Append(got[c], i)
    BY <1>2 DEF Put
  <2>2. /\ Len(got'[c]) = Len(got[c]) + 1
        /\ \A k \in 1 .. Len(got[c]) : got'[c][k] = got[c][k]
        /\ got'[c][Len(got[c]) + 1] = i
    BY <1>1, <2>1, AppendProperties
  <2>3. Has(c, i)'
    BY <1>1, <2>2 DEF Has
  <2>4. \A j : Has(c, j) => Has(c, j)'
    BY <1>1, <2>2 DEF Has
  <2> QED BY <2>3, <2>4
<1>3. CASE c \notin C
  BY <1>3 DEF Put, Has
<1> QED BY <1>2, <1>3

\* What Redis carries out is on its way to everyone it is for.
LEMMA BroadcastDue ==
    ASSUME TypeOK, DueInv, NEW i \in Ids, Broadcast(i), NEW c \in Conns,
           pc[c] # "off" => pc'[c] # "off"
    PROVE  DueOf(c)'
<1> DEFINE n == NodeOf[c]
<1>1. n \in Nodes /\ DueOf(c) /\ LogKept
  BY IdentityAssumption, SameLog DEF DueInv, Broadcast
<1>2. UNCHANGED <<listener, sent, members, got>>
  BY DEF Broadcast
<1>3. CASE listener[n] # "on"
  <2>1. due'[c] = due[c] /\ inbox'[n] = inbox[n]
    BY <1>1, <1>3 DEF Broadcast, TypeOK
  <2> QED BY <1>1, <1>2, <2>1, KeptDue DEF Has, DueOf
<1>4. CASE listener[n] = "on"
  <2>1. inbox[n] \in Seq(Ids) /\ inbox'[n] = Append(inbox[n], i)
    BY <1>1, <1>4 DEF Broadcast, TypeOK
  <2>2. /\ Len(inbox[n]) \in Nat /\ Len(inbox'[n]) = Len(inbox[n]) + 1
        /\ \A k \in 1 .. Len(inbox[n]) : inbox'[n][k] = inbox[n][k]
        /\ inbox'[n][Len(inbox[n]) + 1] = i
    BY <2>1, AppendProperties, LenProperties
  <2>3. due'[c] = IF c \in Addressed(n, i, inbox'[n]) THEN due[c] \cup {i} ELSE due[c]
    BY <1>4 DEF Broadcast, TypeOK
  <2>4. ASSUME NEW j \in due[c] PROVE Fits(c, j)' /\ (Has(c, j)' \/ OnItsWay(c, j)')
    <3>1. Fits(c, j) /\ (Has(c, j) \/ OnItsWay(c, j))
      BY <1>1, <1>4, <2>4 DEF DueOf
    <3>2. Fits(c, j)' /\ (Has(c, j) => Has(c, j)')
      BY <1>2, <3>1 DEF Fits, Has
    <3>3. ASSUME OnItsWay(c, j) PROVE OnItsWay(c, j)'
      <4>1. PICK k \in 1 .. Len(inbox[n]) : inbox[n][k] = j /\ Heard(c, j, k)
        BY <3>3 DEF OnItsWay
      <4>2. k \in 1 .. Len(inbox'[n]) /\ inbox'[n][k] = j
        BY <2>2, <4>1
      <4>3. Heard(c, j, k)'
        <5>1. CASE sent[j].kind = "dm" \/ Membership(c, sent[j].to) \in members[n]
          BY <1>2, <5>1 DEF Heard, Membership
        <5>2. ASSUME NEW l \in 1 .. k, JoinOf(c, sent[j].to, inbox[n][l])
              PROVE  JoinOf(c, sent[j].to, inbox[n][l])'
          <6>1. inbox'[n][l] = inbox[n][l]
            BY <2>2, <4>1
          <6> QED BY <1>2, <5>2, <6>1 DEF JoinOf
        <5> QED BY <4>1, <5>1, <5>2 DEF Heard
      <4> QED BY <4>2, <4>3 DEF OnItsWay
    <3> QED BY <3>1, <3>2, <3>3
  <2>5. ASSUME c \in Addressed(n, i, inbox'[n])
        PROVE  pc[c] # "off" /\ Fits(c, i)' /\ OnItsWay(c, i)'
    <3>1. pc[c] # "off" /\ Fits(c, i)
      BY <2>5 DEF Addressed, Devices, Fits
    <3>0. PICK last : last = Len(inbox[n]) + 1
      OBVIOUS
    <3>2. Heard(c, i, last)'
      <4>1. \/ sent[i].kind = "dm" \/ Membership(c, sent[i].to) \in members[n]
            \/ Announced(inbox'[n], sent[i].tenant, sent[i].to, NameOf[c])
        BY <2>5 DEF Addressed
      <4>2. ASSUME Announced(inbox'[n], sent[i].tenant, sent[i].to, NameOf[c])
            PROVE  \E l \in 1 .. last : JoinOf(c, sent[i].to, inbox[n][l])'
        <5>1. PICK l \in 1 .. Len(inbox'[n]) :
                /\ sent[inbox'[n][l]].kind = "join" /\ sent[inbox'[n][l]].tenant = sent[i].tenant
                /\ sent[inbox'[n][l]].to = sent[i].to /\ NameOf[sent[inbox'[n][l]].sender] = NameOf[c]
          BY <4>2 DEF Announced
        <5>2. JoinOf(c, sent[i].to, inbox[n][l])'
          BY <1>2, <3>1, <5>1 DEF JoinOf, Fits
        <5> QED BY <2>2, <3>0, <5>1, <5>2
      <4> QED BY <1>2, <4>1, <4>2 DEF Heard, Membership
    <3>3. last \in 1 .. Len(inbox'[n]) /\ inbox'[n][last] = i
      BY <2>2, <3>0
    <3>4. OnItsWay(c, i)'
      BY <3>2, <3>3 DEF OnItsWay
    <3> QED BY <1>2, <3>1, <3>4 DEF Fits
  <2>6. due'[c] # {} => pc'[c] # "off" /\ listener'[n] # "starting"
    BY <1>1, <1>2, <1>4, <2>3, <2>5 DEF DueOf
  <2> HIDE DEF n
  <2>7. \A j \in due'[c] : Fits(c, j)' /\ (Has(c, j)' \/ OnItsWay(c, j)')
    BY <2>3, <2>4, <2>5
  <2> QED BY <2>6, <2>7 DEF DueOf, n
<1> QED BY <1>3, <1>4

\* The listener takes the first message out of its inbox and puts it into the
\* channels of those it is for, among them who joined on the way.
LEMMA ListenDue ==
    ASSUME TypeOK, DueInv, NEW n \in Nodes, Listen(n), NEW c \in Conns
    PROVE  DueOf(c)'
<1>0. PICK i : i = Head(inbox[n])
  OBVIOUS
<1> DEFINE all == IF sent[i].kind = "join"
                  THEN members[n] \cup {<<sent[i].tenant, sent[i].to, NameOf[sent[i].sender]>>}
                  ELSE members[n]
           C == IF sent[i].kind = "dm" THEN Devices(n, sent[i].tenant, sent[i].to)
                ELSE GroupDevices(n, sent[i].tenant, sent[i].to, all)
<1>1. /\ i \in Ids /\ i = inbox[n][1]
      /\ Len(inbox[n]) \in Nat \ {0} /\ Len(inbox'[n]) = Len(inbox[n]) - 1
      /\ \A k \in 1 .. Len(inbox'[n]) : inbox'[n][k] = inbox[n][k + 1]
      /\ \A o \in Nodes \ {n} : inbox'[o] = inbox[o]
  <2>1. /\ i \in Ids /\ i = inbox[n][1]
        /\ Len(inbox[n]) \in Nat \ {0} /\ Len(Tail(inbox[n])) = Len(inbox[n]) - 1
        /\ \A k \in 1 .. Len(Tail(inbox[n])) : Tail(inbox[n])[k] = inbox[n][k + 1]
    BY <1>0, ListenStep
  <2>2. inbox' = [inbox EXCEPT ![n] = Tail(inbox[n])]
    BY ListenStep
  <2>3. inbox'[n] = Tail(inbox[n]) /\ \A o \in Nodes \ {n} : inbox'[o] = inbox[o]
    BY <2>2 DEF TypeOK
  <2> QED BY <2>1, <2>3
<1>2. Put(C, i) /\ members' = [members EXCEPT ![n] = all]
  BY <1>0 DEF Listen, Handle
<1>3. UNCHANGED <<sent, pc, due, listener>>
  BY DEF Listen, Handle, handler
<1>4. NodeOf[c] \in Nodes /\ DueOf(c) /\ LogKept /\ i \in Ids \cup {0}
  BY <1>1, <1>3, IdentityAssumption, SameLog DEF DueInv
<1>5. members'[n] = all /\ members[n] \subseteq all
  BY <1>2 DEF TypeOK
<1> HIDE DEF C
<1>6. (\A j : Has(c, j) => Has(c, j)') /\ (c \in C => Has(c, i)')
  BY <1>2, <1>4, PutHas
<1>7. CASE NodeOf[c] # n
  <2>1. members'[NodeOf[c]] = members[NodeOf[c]] /\ inbox'[NodeOf[c]] = inbox[NodeOf[c]]
    BY <1>1, <1>2, <1>4, <1>7 DEF TypeOK
  <2> HIDE DEF all
  <2> QED BY <1>3, <1>4, <1>6, <2>1, KeptDue DEF DueOf
<1>8. CASE NodeOf[c] = n
  <2>1. due'[c] # {} => pc'[c] # "off" /\ listener'[NodeOf[c]] # "starting"
    BY <1>3, <1>4 DEF DueOf
  <2>2. ASSUME listener'[NodeOf[c]] = "on", NEW j \in due'[c]
        PROVE  Fits(c, j)' /\ (Has(c, j)' \/ OnItsWay(c, j)')
    <3>1. pc[c] # "off" /\ Fits(c, j) /\ (Has(c, j) \/ OnItsWay(c, j))
      BY <1>3, <1>4, <2>2 DEF DueOf
    <3>2. Fits(c, j)'
      BY <1>3, <3>1 DEF Fits
    <3>3. CASE OnItsWay(c, j)
      <4>1. PICK k \in 1 .. Len(inbox[n]) : inbox[n][k] = j /\ Heard(c, j, k)
        BY <1>8, <3>3 DEF OnItsWay
      <4>2. ASSUME JoinOf(c, sent[j].to, i) PROVE Membership(c, sent[j].to) \in all
        BY <4>2 DEF JoinOf, Membership
      <4>3. CASE k = 1
        <5>1. j = i
          BY <1>1, <4>1, <4>3
        <5>2. sent[i].kind # "dm" => Membership(c, sent[i].to) \in all
          <6>1. CASE Membership(c, sent[i].to) \in members[n]
            BY <1>5, <6>1
          <6>2. CASE \E l \in 1 .. k : JoinOf(c, sent[i].to, inbox[n][l])
            <7>1. JoinOf(c, sent[i].to, i)
              BY <1>1, <4>3, <6>2
            <7> QED BY <4>2, <5>1, <7>1
          <6> QED BY <1>8, <4>1, <5>1, <6>1, <6>2 DEF Heard
        <5>3. c \in C
          <6> HIDE DEF all
          <6>1. CASE sent[i].kind = "dm"
            BY <1>8, <3>1, <5>1, <6>1 DEF C, Devices, Fits
          <6>2. CASE sent[i].kind # "dm"
            BY <1>8, <3>1, <5>1, <5>2, <6>2 DEF C, GroupDevices, Fits, Membership
          <6> QED BY <6>1, <6>2
        <5> QED BY <1>6, <3>2, <5>1, <5>3
      <4>4. CASE k # 1
        <5>1. PICK e : e = k - 1
          OBVIOUS
        <5>2. e \in 1 .. Len(inbox'[n]) /\ inbox'[n][e] = j
          <6>1. k \in Int /\ k # 1 /\ 1 <= k /\ k <= Len(inbox[n])
            BY <1>1, <4>1, <4>4
          <6>2. e \in 1 .. Len(inbox'[n]) /\ e + 1 = k
            BY <1>1, <5>1, <6>1
          <6> QED BY <1>1, <4>1, <6>2
        <5>3. Heard(c, j, e)'
          <6>1. CASE sent[j].kind = "dm"
            BY <1>3, <6>1 DEF Heard
          <6>2. CASE Membership(c, sent[j].to) \in all
            BY <1>3, <1>5, <1>8, <6>2 DEF Heard, Membership
          <6>3. ASSUME NEW l \in 1 .. k, JoinOf(c, sent[j].to, inbox[n][l]), l # 1
                PROVE  \E p \in 1 .. e : JoinOf(c, sent[j].to, inbox[n][p])'
            <7>1. PICK p : p = l - 1
              OBVIOUS
            <7>2. p \in 1 .. e /\ p \in 1 .. Len(inbox'[n]) /\ p + 1 = l
              BY <5>1, <5>2, <6>3, <7>1
            <7>3. inbox'[n][p] = inbox[n][l]
              BY <1>1, <7>2
            <7>4. JoinOf(c, sent[j].to, inbox[n][p])'
              BY <1>3, <6>3, <7>3 DEF JoinOf
            <7> QED BY <7>2, <7>4
          <6>4. CASE \E l \in 1 .. k : JoinOf(c, sent[j].to, inbox[n][l])
            <7>1. PICK l \in 1 .. k : JoinOf(c, sent[j].to, inbox[n][l])
              BY <6>4
            <7>2. CASE l = 1
              BY <1>1, <4>2, <6>2, <7>1, <7>2
            <7>3. CASE l # 1
              <8>1. \E p \in 1 .. e : JoinOf(c, sent[j].to, inbox[n][p])'
                BY <6>3, <7>1, <7>3
              <8> QED BY <1>3, <1>8, <8>1 DEF Heard
            <7> QED BY <7>2, <7>3
          <6> QED BY <1>5, <1>8, <4>1, <6>1, <6>2, <6>4 DEF Heard
        <5>4. OnItsWay(c, j)'
          BY <1>8, <5>2, <5>3 DEF OnItsWay
        <5> QED BY <3>2, <5>4
      <4> QED BY <4>3, <4>4
    <3> QED BY <1>6, <3>1, <3>2, <3>3
  <2> QED BY <2>1, <2>2 DEF DueOf
<1> QED BY <1>7, <1>8

\* The end of connections, with that of their node or without.
LEMMA EndDue ==
    ASSUME TypeOK, DueInv, NEW C \in SUBSET Conns, End(C), UNCHANGED sent, NEW c \in Conns,
           c \notin C => /\ members'[NodeOf[c]] = members[NodeOf[c]]
                         /\ listener'[NodeOf[c]] = listener[NodeOf[c]]
                         /\ inbox'[NodeOf[c]] = inbox[NodeOf[c]]
    PROVE  DueOf(c)'
<1>1. CASE c \in C
  BY <1>1, NothingDue DEF End
<1>2. CASE c \notin C
  <2>1. pc'[c] = pc[c] /\ got'[c] = got[c] /\ due'[c] = due[c]
    BY <1>2 DEF End
  <2>2. DueOf(c) /\ LogKept /\ (due[c] # {} => pc[c] # "off")
    BY SameLog DEF DueInv, DueOf
  <2>3. \A i : Has(c, i) => Has(c, i)'
    BY <2>1 DEF Has
  <2> QED BY <1>2, <2>1, <2>2, <2>3, KeptDue
<1> QED BY <1>1, <1>2

\* A LEAVE or DELETE takes with the membership what the user was due by it.
LEMMA NotDueKept ==
    ASSUME TypeOK, NEW n, NEW t, NEW g, NEW U, NEW c \in Conns
    PROVE  /\ NotDue(n, t, g, U)[c] \subseteq due[c]
           /\ NodeOf[c] = n /\ TenantOf[c] = t /\ NameOf[c] \in U =>
                \A i \in NotDue(n, t, g, U)[c] : sent[i].kind = "dm" \/ sent[i].to # g
BY DEF NotDue

\* A handler that makes a message.
LEMMA BeginDue ==
    ASSUME TypeOK, DueInv, NEW b \in Conns, NEW kind \in {"dm"} \cup Groupish,
           NEW to, IF kind = "dm" THEN to \in Names ELSE to \in Groups,
           pc[b] = "idle", Begin(b, kind, to), UNCHANGED <<listener, inbox>>,
           NEW c \in Conns, due'[c] \subseteq due[c],
           \A i \in due'[c] :
                Membership(c, sent[i].to) \in members[NodeOf[c]] =>
                    sent[i].kind = "dm" \/ Membership(c, sent[i].to) \in members'[NodeOf[c]]
    PROVE  DueOf(c)'
<1>1. LogKept
  <2>1. Len(sent) \in Nat /\ Ids' = Ids \cup {Len(sent) + 1} /\ \A j \in Ids : sent'[j] = sent[j]
    BY BeginStep
  <2> QED BY <2>1, LogType DEF LogKept
<1>2. (pc[c] # "off" => pc'[c] # "off") /\ got' = got
  BY DEF Begin, TypeOK
<1>3. DueOf(c) /\ (due[c] # {} => pc[c] # "off")
  BY DEF DueInv, DueOf
<1>4. \A i : Has(c, i) => Has(c, i)'
  BY <1>2 DEF Has
<1> QED BY <1>1, <1>2, <1>3, <1>4, KeptDue

\* Steps that leave the registry and what is due alone.
LEMMA QuietDue ==
    ASSUME TypeOK, DueInv, UNCHANGED <<members, listener, inbox, sent, due>>, NEW c \in Conns,
           pc[c] # "off" => pc'[c] # "off", \A i : Has(c, i) => Has(c, i)'
    PROVE  DueOf(c)'
<1>1. DueOf(c) /\ LogKept /\ (due[c] # {} => pc[c] # "off")
  BY SameLog DEF DueInv, DueOf
<1> QED BY <1>1, KeptDue

LEMMA GroupCommandDue ==
    ASSUME TypeOK, DueInv, NEW b \in Conns, NEW g \in Groups, NEW op \in {"join", "leave", "create"},
           GroupCommand(b, op, g), NEW c \in Conns
    PROVE  DueOf(c)'
<1> DEFINE n == NodeOf[b]
<1>1. Begin(b, op, g) /\ pc[b] = "idle" /\ UNCHANGED <<listener, inbox>> /\ op \in {"dm"} \cup Groupish
  BY DEF GroupCommand, Ask, redis, Groupish
<1>2. CASE op = "leave"
  <2>1. /\ members' = [members EXCEPT ![n] = @ \ {Membership(b, g)}]
        /\ due' = NotDue(n, TenantOf[b], g, {NameOf[b]})
    BY <1>2 DEF GroupCommand
  <2>2. ASSUME NEW i \in due'[c], Membership(c, sent[i].to) \in members[NodeOf[c]], sent[i].kind # "dm"
        PROVE  Membership(c, sent[i].to) \in members'[NodeOf[c]]
    <3>1. ~(NodeOf[c] = n /\ Membership(c, sent[i].to) = Membership(b, g))
      BY <2>1, <2>2, NotDueKept DEF Membership
    <3> QED BY <2>1, <2>2, <3>1 DEF TypeOK
  <2> QED BY <1>1, <2>1, <2>2, NotDueKept, BeginDue
<1>3. CASE op # "leave"
  <2>1. members[NodeOf[c]] \subseteq members'[NodeOf[c]] /\ due' = due
    BY <1>3, IdentityAssumption DEF GroupCommand, TypeOK
  <2> QED BY <1>1, <2>1, BeginDue
<1> QED BY <1>2, <1>3

LEMMA DeleteGroupDue ==
    ASSUME TypeOK, DueInv, NEW b \in Conns, NEW g \in Groups, DeleteGroup(b, g), NEW c \in Conns
    PROVE  DueOf(c)'
<1> DEFINE n == NodeOf[b]
<1>1. /\ members' = [members EXCEPT ![n] = @ \ ({TenantOf[b]} \X {g} \X Names)]
      /\ due' = NotDue(n, TenantOf[b], g, Names)
      /\ UNCHANGED <<listener, inbox, sent, pc, got>>
  BY DEF DeleteGroup, redis, handler
<1>2. ASSUME NEW i \in due'[c], Membership(c, sent[i].to) \in members[NodeOf[c]], sent[i].kind # "dm"
      PROVE  Membership(c, sent[i].to) \in members'[NodeOf[c]]
  <2>1. NameOf[c] \in Names
    BY IdentityAssumption
  <2>2. NodeOf[c] = n /\ TenantOf[c] = TenantOf[b] => sent[i].to # g
    BY <1>1, <1>2, <2>1, NotDueKept
  <2>3. NodeOf[c] = n => Membership(c, sent[i].to) \notin {TenantOf[b]} \X {g} \X Names
    BY <2>2 DEF Membership
  <2> QED BY <1>1, <1>2, <2>3 DEF TypeOK
<1>3. DueOf(c) /\ LogKept /\ due'[c] \subseteq due[c]
  BY <1>1, SameLog, NotDueKept DEF DueInv
<1>4. (due[c] # {} => pc[c] # "off") /\ \A i : Has(c, i) => Has(c, i)'
  BY <1>1, <1>3 DEF DueOf, Has
<1> HIDE DEF n
<1> QED BY <1>1, <1>2, <1>3, <1>4, KeptDue

LEMMA NodeDue ==
    ASSUME TypeOK, DueInv, NEW n \in Nodes, ListenerEnd(n) \/ Subscribe(n) \/ Restart(n), NEW c \in Conns
    PROVE  DueOf(c)'
<1>0. DueOf(c) /\ NodeOf[c] \in Nodes
  BY IdentityAssumption DEF DueInv
<1>1. CASE Restart(n)
  <2>1. /\ members' = [members EXCEPT ![n] = {}] /\ inbox' = [inbox EXCEPT ![n] = << >>]
        /\ listener' = [listener EXCEPT ![n] = "starting"]
        /\ UNCHANGED sent /\ End({d \in Conns : NodeOf[d] = n})
    BY <1>1 DEF Restart
  <2>2. NodeOf[c] # n => /\ members'[NodeOf[c]] = members[NodeOf[c]]
                         /\ listener'[NodeOf[c]] = listener[NodeOf[c]]
                         /\ inbox'[NodeOf[c]] = inbox[NodeOf[c]]
    BY <1>0, <2>1 DEF TypeOK
  <2> DEFINE C == {d \in Conns : NodeOf[d] = n}
  <2>3. C \in SUBSET Conns /\ End(C) /\ (c \notin C => NodeOf[c] # n)
    BY <2>1
  <2> HIDE DEF C
  <2> QED BY <2>1, <2>2, <2>3, EndDue
<1>2. CASE (ListenerEnd(n) \/ Subscribe(n)) /\ NodeOf[c] # n
  <2>1. /\ members' = members /\ inbox'[NodeOf[c]] = inbox[NodeOf[c]] /\ listener'[NodeOf[c]] = listener[NodeOf[c]]
        /\ UNCHANGED <<sent, pc, got, due>>
    BY <1>0, <1>2 DEF ListenerEnd, Subscribe, TypeOK, handler
  <2>2. LogKept /\ (due[c] # {} => pc[c] # "off") /\ \A i : Has(c, i) => Has(c, i)'
    BY <1>0, <2>1, SameLog DEF DueOf, Has
  <2> QED BY <1>0, <2>1, <2>2, KeptDue
<1>3. CASE ListenerEnd(n) /\ NodeOf[c] = n
  BY <1>0, <1>3 DEF ListenerEnd, TypeOK, DueOf, handler
<1>4. CASE Subscribe(n) /\ NodeOf[c] = n
  <2>1. due[c] = {} /\ due' = due
    BY <1>0, <1>4 DEF Subscribe, DueOf
  <2> QED BY <2>1, NothingDue
<1> QED BY <1>1, <1>2, <1>3, <1>4

LEMMA NextDue == TypeOK /\ DueInv /\ [Next]_vars => DueInv'
<1> SUFFICES ASSUME TypeOK, DueInv, [Next]_vars, NEW c \in Conns PROVE DueOf(c)'
  BY DEF DueInv
<1>1. ASSUME NEW b \in Conns, Connect(b) PROVE DueOf(c)'
  <2>1. members[NodeOf[c]] \subseteq members'[NodeOf[c]] /\ (pc[c] # "off" => pc'[c] # "off")
    BY <1>1, IdentityAssumption DEF Connect, TypeOK
  <2>2. UNCHANGED <<listener, inbox, sent, got, due>>
    BY <1>1 DEF Connect, redis
  <2>3. DueOf(c) /\ LogKept /\ (due[c] # {} => pc[c] # "off") /\ \A i : Has(c, i) => Has(c, i)'
    BY <2>2, SameLog DEF DueInv, DueOf, Has
  <2> QED BY <2>1, <2>2, <2>3, KeptDue
<1>2. ASSUME NEW b \in Conns, Disconnect(b) PROVE DueOf(c)'
  <2>1. End({b}) /\ {b} \in SUBSET Conns /\ UNCHANGED <<members, listener, inbox, sent>>
    BY <1>2 DEF Disconnect
  <2> QED BY <2>1, EndDue
<1>3. ASSUME NEW b \in Conns, Reply(b), UNCHANGED <<members, redis, due>> PROVE DueOf(c)'
  <2>1. UNCHANGED <<members, listener, inbox, sent, due, pc>> /\ \E C : Put(C, 0)
    BY <1>3 DEF Reply, redis, handler
  <2>2. \A i : Has(c, i) => Has(c, i)'
    BY <2>1, PutHas
  <2> QED BY <2>1, <2>2, QuietDue
<1>4. ASSUME NEW b \in Conns, SendTooLarge(b) PROVE DueOf(c)'
  BY <1>3, <1>4 DEF SendTooLarge
<1>5. ASSUME NEW b \in Conns, NEW u \in Names, SendDm(b, u) PROVE DueOf(c)'
  BY <1>5, BeginDue DEF SendDm, Ask, redis
<1>6. ASSUME NEW b \in Conns, NEW g \in Groups, SendGroup(b, g) PROVE DueOf(c)'
  <2>1. CASE Begin(b, "chat", g)
    BY <1>6, <2>1, BeginDue DEF SendGroup, Ask, redis, Groupish
  <2>2. CASE Reply(b)
    BY <1>3, <1>6, <2>2 DEF SendGroup
  <2> QED BY <1>6, <2>1, <2>2 DEF SendGroup
<1>7. ASSUME NEW b \in Conns, NEW g \in Groups, DeleteGroup(b, g) PROVE DueOf(c)'
  BY <1>7, DeleteGroupDue
<1>8. ASSUME NEW b \in Conns, NEW g \in Groups, NEW op \in {"join", "leave", "create"},
             GroupCommand(b, op, g)
      PROVE  DueOf(c)'
  BY <1>8, GroupCommandDue
<1>9. ASSUME NEW b \in Conns, Publish(b) PROVE DueOf(c)'
  <2>1. cur[b] \in Ids /\ Broadcast(cur[b]) /\ (pc[c] # "off" => pc'[c] # "off")
    BY <1>9, AfterCallType DEF Publish, AfterCall, TypeOK
  <2> QED BY <2>1, BroadcastDue
<1>10. ASSUME NEW b \in Conns, PublishError(b) PROVE DueOf(c)'
  <2>1. /\ UNCHANGED <<members, listener, inbox, sent, due, got>>
        /\ pc[c] # "off" => pc'[c] # "off"
    BY <1>10 DEF PublishError, FailCall, AfterCall, TypeOK
  <2> QED BY <2>1, QuietDue DEF Has
<1>11. ASSUME NEW b \in Conns, Persist(b) \/ PersistError(b) PROVE DueOf(c)'
  <2>1. /\ UNCHANGED <<members, listener, inbox, sent, due, got>>
        /\ pc[c] # "off" => pc'[c] # "off"
    BY <1>11 DEF Persist, PersistError, Finish, redis, TypeOK
  <2> QED BY <2>1, QuietDue DEF Has
<1>12. ASSUME NEW call \in adrift, Land(call) PROVE DueOf(c)'
  <2>1. call[1] \in Ids /\ Broadcast(call[1]) /\ UNCHANGED pc
    BY <1>12 DEF TypeOK, Land, handler
  <2> QED BY <2>1, BroadcastDue
<1>13. ASSUME NEW n \in Nodes, Listen(n) PROVE DueOf(c)'
  BY <1>13, ListenDue
<1>14. ASSUME NEW n \in Nodes, ListenerEnd(n) \/ Restart(n) \/ Subscribe(n) PROVE DueOf(c)'
  BY <1>14, NodeDue
<1>15. CASE UNCHANGED vars
  <2>1. UNCHANGED <<members, listener, inbox, sent, due, got, pc>>
    BY <1>15 DEF vars, redis, handler
  <2> QED BY <2>1, QuietDue DEF Has
<1> QED BY <1>1, <1>2, <1>4, <1>5, <1>6, <1>7, <1>8, <1>9, <1>10, <1>11, <1>12, <1>13, <1>14, <1>15
        DEF Next

\* No message that Redis carried out is lost on its way to a device it is for,
\* whatever joins, leaves, reconnections and restarts come in between.
THEOREM ReachesDevicesHolds == Spec => []ReachesDevices
<1>1. Init => DueInv
  BY DEF Init, DueInv, DueOf
<1>2. DueInv => ReachesDevices
  <2> SUFFICES ASSUME DueInv, NEW c \in Conns, listener[NodeOf[c]] = "on", NEW i \in due[c]
               PROVE  \/ Copies(c, i) # {}
                      \/ \E k \in 1 .. Len(inbox[NodeOf[c]]) : inbox[NodeOf[c]][k] = i
    BY DEF ReachesDevices
  <2>1. Has(c, i) \/ OnItsWay(c, i)
    BY DEF DueInv, DueOf
  <2>2. Has(c, i) => Copies(c, i) # {}
    BY DEF Has, Copies
  <2>3. OnItsWay(c, i) => \E k \in 1 .. Len(inbox[NodeOf[c]]) : inbox[NodeOf[c]][k] = i
    BY DEF OnItsWay
  <2> QED BY <2>1, <2>2, <2>3
<1> QED BY <1>1, <1>2, NextDue, TypeCorrect, PTL DEF Spec

-----------------------------------------------------------------------------
(* Copies *)

\* The places of a message in a sequence, and their number.
Places(s, i) == {k \in 1 .. Len(s) : s[k] = i}
Count(s, i) == Cardinality(Places(s, i))

LEMMA PlacesFinite ==
    ASSUME NEW S, NEW s \in Seq(S), NEW i
    PROVE  IsFiniteSet(Places(s, i)) /\ Count(s, i) \in Nat
<1>1. Len(s) \in Nat
  BY LenProperties
<1>2. IsFiniteSet(1 .. Len(s))
  BY <1>1, FS_Interval
<1>3. Places(s, i) \in SUBSET (1 .. Len(s))
  BY DEF Places
<1>4. IsFiniteSet(Places(s, i))
  BY <1>2, <1>3, FS_Subset
<1> QED BY <1>4, FS_CardinalityType DEF Count

LEMMA CountEmpty == \A i : Count(<< >>, i) = 0
<1> SUFFICES ASSUME NEW i PROVE Count(<< >>, i) = 0
  OBVIOUS
<1>1. Len(<< >>) = 0 /\ 1 .. 0 = {}
  OBVIOUS
<1>2. Places(<< >>, i) = {}
  BY <1>1 DEF Places
<1> QED BY <1>2, FS_EmptySet DEF Count

\* What does not occur counts nothing.
LEMMA CountNone ==
    ASSUME NEW s, NEW i, \A k \in 1 .. Len(s) : s[k] # i
    PROVE  Count(s, i) = 0
<1>1. Places(s, i) = {}
  BY DEF Places
<1> QED BY <1>1, FS_EmptySet DEF Count

LEMMA CountAppend ==
    ASSUME NEW S, NEW s \in Seq(S), NEW x \in S, NEW i
    PROVE  Count(Append(s, x), i) = IF x = i THEN Count(s, i) + 1 ELSE Count(s, i)
<1>1. /\ Len(s) \in Nat /\ Len(Append(s, x)) = Len(s) + 1
      /\ \A k \in 1 .. Len(s) : Append(s, x)[k] = s[k]
      /\ Append(s, x)[Len(s) + 1] = x
  BY LenProperties, AppendProperties
<1>2. 1 .. Len(s) + 1 = (1 .. Len(s)) \cup {Len(s) + 1} /\ Len(s) + 1 \notin 1 .. Len(s)
  BY <1>1
<1>3. CASE x = i
  <2>1. Places(Append(s, x), i) = Places(s, i) \cup {Len(s) + 1}
    BY <1>1, <1>2, <1>3 DEF Places
  <2>2. Len(s) + 1 \notin Places(s, i)
    BY <1>2 DEF Places
  <2> QED BY <1>3, <2>1, <2>2, PlacesFinite, FS_AddElement DEF Count
<1>4. CASE x # i
  <2>1. Places(Append(s, x), i) = Places(s, i)
    BY <1>1, <1>2, <1>4 DEF Places
  <2> QED BY <1>4, <2>1 DEF Count
<1> QED BY <1>3, <1>4

LEMMA CountTail ==
    ASSUME NEW S, NEW s \in Seq(S), s # << >>, NEW i
    PROVE  Count(s, i) = IF Head(s) = i THEN Count(Tail(s), i) + 1 ELSE Count(Tail(s), i)
<1> DEFINE P == Places(Tail(s), i)
           Q == Places(s, i) \ {1}
<1>1. /\ Len(s) \in Nat \ {0} /\ Tail(s) \in Seq(S) /\ Len(Tail(s)) = Len(s) - 1
      /\ \A k \in 1 .. Len(Tail(s)) : Tail(s)[k] = s[k + 1]
      /\ Head(s) = s[1]
  BY HeadTailProperties, LenProperties, EmptySeq
<1>2. ExistsBijection(P, Q)
  <2> DEFINE f == [k \in P |-> k + 1]
  <2>1. ASSUME NEW k \in P PROVE k + 1 \in Q /\ k \in Nat
    <3>1. k \in 1 .. Len(Tail(s)) /\ Tail(s)[k] = i
      BY DEF Places
    <3>2. k \in Nat /\ k + 1 \in 1 .. Len(s) /\ k + 1 # 1
      BY <1>1, <3>1
    <3> QED BY <1>1, <3>1, <3>2 DEF Places
  <2>2. ASSUME NEW q \in Q PROVE \E k \in P : k + 1 = q
    <3>1. q \in 1 .. Len(s) /\ q # 1 /\ s[q] = i
      BY DEF Places
    <3>2. q - 1 \in 1 .. Len(Tail(s)) /\ (q - 1) + 1 = q
      BY <1>1, <3>1
    <3>3. Tail(s)[q - 1] = i
      BY <1>1, <3>1, <3>2
    <3>4. q - 1 \in P
      BY <3>2, <3>3 DEF Places
    <3> QED BY <3>2, <3>4
  <2> HIDE DEF P, Q
  <2>3. f \in [P -> Q] /\ \A a, b \in P : f[a] = f[b] => a = b
    BY <2>1
  <2>4. \A q \in Q : \E k \in P : f[k] = q
    BY <2>2
  <2>5. f \in Bijection(P, Q)
    <3> HIDE DEF f
    <3> QED BY <2>3, <2>4, Fun_IsBij
  <2> QED BY <2>5 DEF ExistsBijection
<1>3. IsFiniteSet(Q) /\ Cardinality(Q) = Count(Tail(s), i)
  <2>1. IsFiniteSet(P)
    BY <1>1, PlacesFinite
  <2> HIDE DEF Q
  <2> QED BY <1>2, <2>1, FS_Bijection DEF Count
<1>4. CASE Head(s) = i
  <2>1. Places(s, i) = Q \cup {1} /\ 1 \notin Q
    BY <1>1, <1>4 DEF Places
  <2> HIDE DEF Q
  <2> QED BY <1>3, <1>4, <2>1, FS_AddElement DEF Count
<1>5. CASE Head(s) # i
  <2>1. Places(s, i) = Q
    BY <1>1, <1>5 DEF Places
  <2> HIDE DEF Q
  <2> QED BY <1>3, <1>5, <2>1 DEF Count
<1> QED BY <1>4, <1>5

\* The calls that a handler has still to make, and those that may still be
\* carried out for a message.
ToDo(c) ==
    IF pc[c] = "publish" THEN IF sent[cur[c]].kind = "dm" THEN Calls ELSE {"publish"}
    ELSE IF pc[c] = "echo" THEN {"echo"} ELSE {}

Open(i) == {a \in Calls : <<i, a>> \in adrift \/ \E c \in Conns : cur[c] = i /\ a \in ToDo(c)}

Budget(i) == IF sent[i].kind = "dm" THEN 2 ELSE 1

\* A call is with its handler or adrift, never both.
CallsInv == \A c \in Conns : \A a \in ToDo(c) : <<cur[c], a>> \notin adrift

\* Each copy has used up a call.
CountInv ==
    \A c \in Conns : \A i \in Ids :
        Count(got[c], i) + Count(inbox[NodeOf[c]], i) + Cardinality(Open(i)) <= Budget(i)

LEMMA OpenFinite == \A i : IsFiniteSet(Open(i)) /\ Cardinality(Open(i)) \in Nat
<1> SUFFICES ASSUME NEW i PROVE IsFiniteSet(Open(i)) /\ Cardinality(Open(i)) \in Nat
  OBVIOUS
<1>1. IsFiniteSet({}) /\ Calls = ({} \cup {"publish"}) \cup {"echo"}
  BY FS_EmptySet DEF Calls
<1>2. IsFiniteSet({} \cup {"publish"})
  BY <1>1, FS_AddElement
<1>3. IsFiniteSet(Calls)
  BY <1>1, <1>2, FS_AddElement
<1>4. Open(i) \in SUBSET Calls
  BY DEF Open
<1> QED BY <1>3, <1>4, FS_Subset, FS_CardinalityType

LEMMA OpenCalls ==
    /\ Cardinality({"publish"}) = 1 /\ Cardinality(Calls) = 2
<1>1. IsFiniteSet({}) /\ Cardinality({}) = 0 /\ {"publish"} = {} \cup {"publish"}
  BY FS_EmptySet
<1>2. IsFiniteSet({"publish"}) /\ Cardinality({"publish"}) = 1
  BY <1>1, FS_AddElement
<1>3. Calls = {"publish"} \cup {"echo"} /\ "echo" \notin {"publish"}
  BY DEF Calls
<1> QED BY <1>2, <1>3, FS_AddElement

\* The counts of a device are numbers.
LEMMA CountTypes ==
    TypeOK => \A c \in Conns : \A i : /\ Count(got[c], i) \in Nat
                                       /\ Count(inbox[NodeOf[c]], i) \in Nat
                                       /\ Cardinality(Open(i)) \in Nat
<1> SUFFICES ASSUME TypeOK, NEW c \in Conns, NEW i
             PROVE  /\ Count(got[c], i) \in Nat
                    /\ Count(inbox[NodeOf[c]], i) \in Nat
                    /\ Cardinality(Open(i)) \in Nat
  OBVIOUS
<1>1. got[c] \in Seq(Ids \cup {0}) /\ NodeOf[c] \in Nodes /\ inbox[NodeOf[c]] \in Seq(Ids)
  BY IdentityAssumption DEF TypeOK
<1> QED BY <1>1, PlacesFinite, OpenFinite

\* A handler that has a message is its sender's only one, and a handler that
\* has none has nothing to do.
LEMMA OneHandler ==
    ASSUME TypeOK, OrderInv, NEW c \in Conns, NEW d \in Conns, cur[c] = cur[d],
           ToDo(c) # {} \/ cur[c] # 0
    PROVE  c = d
<1>1. cur[c] # 0
  BY DEF ToDo, TypeOK
<1> QED BY <1>1 DEF OrderInv, HandlersLatest, Latest

\* Calls get fewer: a handler drops one only by making it or by leaving it
\* adrift.
LEMMA CallsKept ==
    ASSUME TypeOK, OrderInv, CallsInv,
           \A c \in Conns : ToDo(c)' \subseteq ToDo(c) /\ (ToDo(c)' # {} => cur'[c] = cur[c]),
           \A call \in adrift' :
               \/ call \in adrift
               \/ \E c \in Conns : \E a \in ToDo(c) : a \notin ToDo(c)' /\ call = <<cur[c], a>>
    PROVE  CallsInv' /\ \A i : Open(i)' \subseteq Open(i)
<1>1. ASSUME NEW c \in Conns, NEW a \in ToDo(c)' PROVE <<cur[c], a>>' \notin adrift'
  <2>1. a \in ToDo(c) /\ cur'[c] = cur[c] /\ <<cur[c], a>> \notin adrift
    BY <1>1 DEF CallsInv
  <2>2. SUFFICES ASSUME NEW d \in Conns, NEW b \in ToDo(d), b \notin ToDo(d)',
                        <<cur[c], a>> = <<cur[d], b>>
                 PROVE  FALSE
    BY <2>1
  <2>3. cur[c] = cur[d] /\ a = b
    BY <2>2
  <2>4. c = d
    BY <2>1, <2>3, OneHandler
  <2> QED BY <1>1, <2>2, <2>3, <2>4
<1>2. ASSUME NEW i, NEW a \in Open(i)' PROVE a \in Open(i)
  <2>1. a \in Calls
    BY <1>2 DEF Open
  <2>2. CASE <<i, a>> \in adrift'
    <3>1. CASE <<i, a>> \in adrift
      BY <2>1, <3>1 DEF Open
    <3>2. ASSUME NEW c \in Conns, NEW b \in ToDo(c), <<i, a>> = <<cur[c], b>> PROVE a \in Open(i)
      <4>1. i = cur[c] /\ a = b
        BY <3>2
      <4> QED BY <2>1, <4>1 DEF Open
    <3> QED BY <2>2, <3>1, <3>2
  <2>3. ASSUME NEW c \in Conns, cur'[c] = i, a \in ToDo(c)' PROVE a \in Open(i)
    <3>1. cur[c] = i /\ a \in ToDo(c)
      BY <2>3
    <3> QED BY <2>1, <3>1 DEF Open
  <2> QED BY <1>2, <2>2, <2>3 DEF Open
<1> QED BY <1>1, <1>2 DEF CallsInv

\* Fewer calls are no more of them.
LEMMA FewerCalls ==
    ASSUME NEW i, Open(i)' \subseteq Open(i)
    PROVE  /\ Cardinality(Open(i)') <= Cardinality(Open(i))
           /\ Cardinality(Open(i)') \in Nat
           /\ \A a \in Open(i) : a \notin Open(i)' => Cardinality(Open(i)') + 1 <= Cardinality(Open(i))
<1> DEFINE S == Open(i)
           T == Open(i)'
<1>0. IsFiniteSet(S) /\ Cardinality(S) \in Nat
  BY OpenFinite
<1>1. T \in SUBSET S
  OBVIOUS
<1> HIDE DEF S, T
<1>2. IsFiniteSet(T) /\ Cardinality(T) <= Cardinality(S) /\ Cardinality(T) \in Nat
  BY <1>0, <1>1, FS_Subset, FS_CardinalityType
<1>3. ASSUME NEW a \in S, a \notin T PROVE Cardinality(T) + 1 <= Cardinality(S)
  <2>1. Cardinality(T) = Cardinality(S) => S = T
    BY <1>0, <1>1, FS_Subset
  <2>2. Cardinality(T) # Cardinality(S)
    BY <1>3, <2>1
  <2> QED BY <1>0, <1>2, <2>2
<1> QED BY <1>2, <1>3 DEF S, T

\* Steps that put nothing into channels or inboxes.
LEMMA CountKept ==
    ASSUME TypeOK, CountInv, UNCHANGED sent, \A i : Open(i)' \subseteq Open(i),
           \A c \in Conns : got'[c] \in {got[c], << >>},
           \A n \in Nodes : inbox'[n] \in {inbox[n], << >>}
    PROVE  CountInv'
<1> SUFFICES ASSUME NEW c \in Conns, NEW i \in Ids
             PROVE  Count(got'[c], i) + Count(inbox'[NodeOf[c]], i) + Cardinality(Open(i)') <= Budget(i)
  BY DEF CountInv, Budget, Ids
<1>1. NodeOf[c] \in Nodes
  BY IdentityAssumption
<1>2. Count(got[c], i) \in Nat /\ Count(inbox[NodeOf[c]], i) \in Nat /\ Cardinality(Open(i)) \in Nat
  BY CountTypes
<1>3. Count(got'[c], i) <= Count(got[c], i) /\ Count(got'[c], i) \in Nat
  BY <1>2, CountEmpty
<1>4. Count(inbox'[NodeOf[c]], i) <= Count(inbox[NodeOf[c]], i) /\ Count(inbox'[NodeOf[c]], i) \in Nat
  BY <1>1, <1>2, CountEmpty
<1>5. Cardinality(Open(i)') <= Cardinality(Open(i)) /\ Cardinality(Open(i)') \in Nat
  BY FewerCalls
<1>6. Count(got[c], i) + Count(inbox[NodeOf[c]], i) + Cardinality(Open(i)) <= Budget(i)
  BY DEF CountInv
<1>7. Budget(i) \in Nat
  BY DEF Budget
<1> QED BY <1>2, <1>3, <1>4, <1>5, <1>6, <1>7

\* PUBLISH uses up the call it carries out.
LEMMA BroadcastCount ==
    ASSUME TypeOK, CountInv, NEW i \in Ids, Broadcast(i), \A j : Open(j)' \subseteq Open(j),
           NEW a \in Open(i), a \notin Open(i)'
    PROVE  CountInv'
<1> SUFFICES ASSUME NEW c \in Conns, NEW j \in Ids
             PROVE  Count(got'[c], j) + Count(inbox'[NodeOf[c]], j) + Cardinality(Open(j)') <= Budget(j)
  BY DEF CountInv, Budget, Ids, Broadcast
<1>1. NodeOf[c] \in Nodes /\ inbox[NodeOf[c]] \in Seq(Ids)
  BY IdentityAssumption DEF TypeOK
<1>2. Count(got[c], j) \in Nat /\ Count(inbox[NodeOf[c]], j) \in Nat /\ Cardinality(Open(j)) \in Nat
  BY CountTypes
<1>3. got' = got /\ inbox'[NodeOf[c]] \in {inbox[NodeOf[c]], Append(inbox[NodeOf[c]], i)}
  BY <1>1 DEF Broadcast
<1>4. Count(Append(inbox[NodeOf[c]], i), j) =
        IF i = j THEN Count(inbox[NodeOf[c]], j) + 1 ELSE Count(inbox[NodeOf[c]], j)
  BY <1>1, CountAppend
<1>5. Count(got[c], j) + Count(inbox[NodeOf[c]], j) + Cardinality(Open(j)) <= Budget(j) /\ Budget(j) \in Nat
  BY DEF CountInv, Budget
<1>6. Cardinality(Open(j)') <= Cardinality(Open(j)) /\ Cardinality(Open(j)') \in Nat
  BY FewerCalls
<1>7. CASE i = j
  <2>1. Cardinality(Open(j)') + 1 <= Cardinality(Open(j))
    BY <1>7, FewerCalls
  <2>2. Count(inbox'[NodeOf[c]], j) <= Count(inbox[NodeOf[c]], j) + 1 /\ Count(inbox'[NodeOf[c]], j) \in Nat
    <3>1. CASE inbox'[NodeOf[c]] = inbox[NodeOf[c]]
      BY <1>2, <3>1
    <3>2. CASE inbox'[NodeOf[c]] = Append(inbox[NodeOf[c]], i)
      BY <1>2, <1>4, <1>7, <3>2
    <3> QED BY <1>3, <3>1, <3>2
  <2> QED BY <1>2, <1>3, <1>5, <1>6, <2>1, <2>2
<1>8. CASE i # j
  <2>1. Count(inbox'[NodeOf[c]], j) = Count(inbox[NodeOf[c]], j)
    BY <1>3, <1>4, <1>8
  <2> QED BY <1>2, <1>3, <1>5, <1>6, <2>1
<1> QED BY <1>7, <1>8

\* A listener moves one copy from its inbox into channels.
LEMMA ListenCount ==
    ASSUME TypeOK, CountInv, NEW n \in Nodes, Listen(n)
    PROVE  CountInv'
<1> DEFINE x == Head(inbox[n])
<1>1. /\ inbox[n] \in Seq(Ids) /\ inbox[n] # << >> /\ x \in Ids
      /\ inbox' = [inbox EXCEPT ![n] = Tail(inbox[n])]
  BY ListenStep
<1>2. UNCHANGED <<sent, adrift, pc, cur>>
  BY DEF Listen, Handle, handler
<1>3. PICK C : Put(C, x) /\ \A c \in C : NodeOf[c] = n
  <2>1. Put(IF sent[x].kind = "dm" THEN Devices(n, sent[x].tenant, sent[x].to)
            ELSE GroupDevices(n, sent[x].tenant, sent[x].to,
                    IF sent[x].kind = "join"
                    THEN members[n] \cup {<<sent[x].tenant, sent[x].to, NameOf[sent[x].sender]>>}
                    ELSE members[n]), x)
    BY DEF Listen, Handle
  <2> HIDE DEF x
  <2>2. CASE sent[x].kind = "dm"
    BY <2>1, <2>2 DEF Devices
  <2>3. CASE sent[x].kind # "dm"
    <3>1. \A all : \A c \in GroupDevices(n, sent[x].tenant, sent[x].to, all) : NodeOf[c] = n
      BY DEF GroupDevices
    <3> QED BY <2>1, <2>3, <3>1
  <2> QED BY <2>2, <2>3
<1> HIDE DEF x
<1> SUFFICES ASSUME NEW c \in Conns, NEW i \in Ids
             PROVE  Count(got'[c], i) + Count(inbox'[NodeOf[c]], i) + Cardinality(Open(i)) <= Budget(i)
  BY <1>2 DEF CountInv, Budget, Ids, Open, ToDo
<1>4. Count(got[c], i) \in Nat /\ Count(inbox[NodeOf[c]], i) \in Nat /\ Cardinality(Open(i)) \in Nat
  BY CountTypes
<1>5. Count(got[c], i) + Count(inbox[NodeOf[c]], i) + Cardinality(Open(i)) <= Budget(i) /\ Budget(i) \in Nat
  BY DEF CountInv, Budget
<1>6. got'[c] = IF c \in C THEN Append(got[c], x) ELSE got[c]
  BY <1>3 DEF Put
<1>7. Count(Append(got[c], x), i) = IF x = i THEN Count(got[c], i) + 1 ELSE Count(got[c], i)
  <2>1. got[c] \in Seq(Ids \cup {0}) /\ x \in Ids \cup {0}
    BY <1>1 DEF TypeOK
  <2> QED BY <2>1, CountAppend
<1>8. CASE NodeOf[c] = n
  <2>1. inbox'[NodeOf[c]] = Tail(inbox[n])
    BY <1>1, <1>8 DEF TypeOK
  <2>2. Count(inbox[n], i) = IF x = i THEN Count(Tail(inbox[n]), i) + 1 ELSE Count(Tail(inbox[n]), i)
    BY <1>1, CountTail DEF x
  <2>3. Count(Tail(inbox[n]), i) \in Nat
    <3>1. Tail(inbox[n]) \in Seq(Ids)
      BY ListenStep
    <3> QED BY <3>1, PlacesFinite
  <2>4. CASE x = i
    <3>1. Count(got'[c], i) <= Count(got[c], i) + 1 /\ Count(got'[c], i) \in Nat
      BY <1>4, <1>6, <1>7, <2>4
    <3> QED BY <1>4, <1>5, <1>8, <2>1, <2>2, <2>3, <2>4, <3>1
  <2>5. CASE x # i
    <3>1. Count(got'[c], i) = Count(got[c], i)
      BY <1>6, <1>7, <2>5
    <3> QED BY <1>4, <1>5, <1>8, <2>1, <2>2, <2>3, <2>5, <3>1
  <2> QED BY <2>4, <2>5
<1>9. CASE NodeOf[c] # n
  <2>1. NodeOf[c] \in Nodes
    BY IdentityAssumption
  <2>2. inbox'[NodeOf[c]] = inbox[NodeOf[c]] /\ got'[c] = got[c]
    BY <1>1, <1>3, <1>6, <1>9, <2>1 DEF TypeOK
  <2> QED BY <1>5, <2>2
<1> QED BY <1>8, <1>9

\* An answer is not a copy of a message.
LEMMA ReplyCount ==
    ASSUME TypeOK, CountInv, NEW C, Put(C, 0), UNCHANGED <<sent, inbox, adrift, pc, cur>>
    PROVE  CountInv'
<1> SUFFICES ASSUME NEW c \in Conns, NEW i \in Ids
             PROVE  Count(got'[c], i) + Count(inbox[NodeOf[c]], i) + Cardinality(Open(i)) <= Budget(i)
  BY DEF CountInv, Budget, Ids, Open, ToDo
<1>1. i # 0
  BY LogType
<1>2. got[c] \in Seq(Ids \cup {0}) /\ 0 \in Ids \cup {0}
  BY DEF TypeOK
<1>3. Count(Append(got[c], 0), i) = Count(got[c], i)
  BY <1>1, <1>2, CountAppend
<1>4. Count(got'[c], i) = Count(got[c], i)
  BY <1>3 DEF Put
<1> QED BY <1>4 DEF CountInv

\* A message starts with the calls its handler is to make, and no copy.
LEMMA BeginCount ==
    ASSUME TypeOK, OrderInv, CallsInv, CountInv, NEW c \in Conns, NEW kind \in {"dm"} \cup Groupish,
           NEW to, IF kind = "dm" THEN to \in Names ELSE to \in Groups,
           pc[c] = "idle", Begin(c, kind, to), UNCHANGED <<inbox, adrift>>
    PROVE  CallsInv' /\ CountInv'
<1>0. PICK new : new = Len(sent) + 1
  OBVIOUS
<1>1. /\ Len(sent) \in Nat /\ Ids' = Ids \cup {new} /\ new \notin Ids /\ new # 0
      /\ \A i \in Ids : sent'[i] = sent[i]
      /\ sent'[new].kind = kind
  <2>1. sent'[new] = [kind |-> kind, tenant |-> TenantOf[c], to |-> to, sender |-> c]
    BY <1>0, BeginStep
  <2>2. sent'[new].kind = kind
    BY <2>1
  <2>3. Len(sent) \in Nat /\ Ids' = Ids \cup {new} /\ \A i \in Ids : sent'[i] = sent[i]
    BY <1>0, BeginStep
  <2>4. new \notin Ids /\ new # 0
    BY <1>0, <2>3 DEF Ids
  <2> QED BY <2>2, <2>3, <2>4
<1>2. /\ pc' = [pc EXCEPT ![c] = "publish"] /\ cur' = [cur EXCEPT ![c] = new] /\ got' = got
      /\ cur[c] = 0 /\ ToDo(c) = {}
  BY <1>0 DEF Begin, TypeOK, ToDo
<1>3. ASSUME NEW d \in Conns, d # c
      PROVE  cur'[d] = cur[d] /\ ToDo(d)' = ToDo(d) /\ (cur[d] # 0 => cur[d] \in Ids)
  <2>1. cur'[d] = cur[d] /\ pc'[d] = pc[d] /\ (cur[d] # 0 => cur[d] \in Ids)
    BY <1>2, <1>3 DEF TypeOK
  <2>2. pc[d] = "publish" => cur[d] \in Ids
    BY <2>1 DEF TypeOK
  <2> QED BY <1>1, <2>1, <2>2 DEF ToDo
<1>4. cur'[c] = new /\ ToDo(c)' = IF kind = "dm" THEN Calls ELSE {"publish"}
  <2>1. cur'[c] = new /\ pc'[c] = "publish"
    BY <1>2 DEF TypeOK
  <2> QED BY <1>1, <2>1 DEF ToDo
<1>5. adrift' = adrift /\ \A a : <<new, a>> \notin adrift
  BY <1>1 DEF TypeOK
<1>6. CallsInv'
  BY <1>3, <1>4, <1>5 DEF CallsInv
<1>7. ASSUME NEW i \in Ids PROVE Open(i)' = Open(i)
  <2>1. i # new /\ i # 0
    BY <1>1, LogType
  <2> QED BY <1>2, <1>3, <1>4, <1>5, <2>1 DEF Open
<1>8. Open(new)' = IF kind = "dm" THEN Calls ELSE {"publish"}
  <2>1. \A d \in Conns : cur'[d] = new => d = c
    BY <1>1, <1>3
  <2>2. ASSUME NEW a PROVE a \in Open(new)' <=> a \in Calls /\ a \in ToDo(c)'
    BY <1>4, <1>5, <2>1 DEF Open
  <2>3. ToDo(c)' \subseteq Calls
    BY <1>4 DEF Calls
  <2> QED BY <1>4, <2>2, <2>3
<1>9. ASSUME NEW d \in Conns, NEW i \in Ids'
      PROVE  Count(got[d], i) + Count(inbox[NodeOf[d]], i) + Cardinality(Open(i)') <= Budget(i)'
  <2>1. CASE i \in Ids
    BY <1>1, <1>7, <2>1 DEF CountInv, Budget
  <2>2. CASE i = new
    <3>1. NodeOf[d] \in Nodes
      BY IdentityAssumption
    <3>2. (\A k \in 1 .. Len(got[d]) : got[d][k] # new)
          /\ (\A k \in 1 .. Len(inbox[NodeOf[d]]) : inbox[NodeOf[d]][k] # new)
      BY <1>1, <3>1, SeqsOfIds
    <3>3. Count(got[d], new) = 0 /\ Count(inbox[NodeOf[d]], new) = 0
      BY <3>2, CountNone
    <3>4. Cardinality(Open(new)') = Budget(new)' /\ Budget(new)' \in Nat
      <4>1. CASE kind = "dm"
        BY <1>1, <1>8, <4>1, OpenCalls DEF Budget
      <4>2. CASE kind # "dm"
        BY <1>1, <1>8, <4>2, OpenCalls DEF Budget
      <4> QED BY <4>1, <4>2
    <3> QED BY <2>2, <3>3, <3>4
  <2> QED BY <1>1, <2>1, <2>2
<1> QED BY <1>2, <1>6, <1>9 DEF CountInv

CopiesInv == CallsInv /\ CountInv

\* A handler that goes on from a call has that call behind it.
LEMMA AfterCallToDo ==
    ASSUME TypeOK, NEW c \in Conns, pc[c] \in Calls, AfterCall(c), UNCHANGED sent
    PROVE  /\ cur[c] \in Ids /\ cur[c] # 0
           /\ pc[c] \in ToDo(c) /\ pc[c] \notin ToDo(c)'
           /\ \A d \in Conns : ToDo(d)' \subseteq ToDo(d) /\ (ToDo(d)' # {} => cur'[d] = cur[d])
<1>1. cur[c] \in Ids /\ cur[c] # 0
  BY LogType DEF TypeOK, Calls
<1>2. pc[c] \in ToDo(c)
  BY DEF ToDo, Calls
<1>3. ASSUME NEW d \in Conns, d # c PROVE ToDo(d)' = ToDo(d) /\ cur'[d] = cur[d]
  <2>1. pc'[d] = pc[d] /\ cur'[d] = cur[d]
    BY <1>3 DEF AfterCall, TypeOK
  <2> QED BY <2>1 DEF ToDo
<1>4. /\ pc[c] \notin ToDo(c)' /\ ToDo(c)' \subseteq ToDo(c)
      /\ (ToDo(c)' # {} => cur'[c] = cur[c])
  <2>1. CASE sent[cur[c]].kind = "dm" /\ pc[c] = "publish"
    <3>1. pc'[c] = "echo" /\ cur'[c] = cur[c]
      BY <2>1 DEF AfterCall, TypeOK
    <3> QED BY <2>1, <3>1 DEF ToDo, Calls
  <2>2. CASE ~(sent[cur[c]].kind = "dm" /\ pc[c] = "publish")
    <3>1. pc'[c] \in {"persist", "idle"}
      BY <2>2 DEF AfterCall, TypeOK
    <3>2. ToDo(c)' = {}
      BY <3>1 DEF ToDo
    <3> QED BY <3>2
  <2> QED BY <2>1, <2>2
<1> QED BY <1>1, <1>2, <1>3, <1>4

LEMMA CallCopies ==
    ASSUME TypeOK, OrderInv, CopiesInv, NEW c \in Conns, Publish(c) \/ PublishError(c)
    PROVE  CopiesInv'
<1>1. pc[c] \in Calls /\ AfterCall(c) /\ UNCHANGED sent
  BY DEF Publish, PublishError, FailCall, Broadcast
<1>2. /\ cur[c] \in Ids /\ cur[c] # 0 /\ pc[c] \in ToDo(c) /\ pc[c] \notin ToDo(c)'
      /\ \A d \in Conns : ToDo(d)' \subseteq ToDo(d) /\ (ToDo(d)' # {} => cur'[d] = cur[d])
  BY <1>1, AfterCallToDo
<1>3. adrift' \in {adrift, adrift \cup {<<cur[c], pc[c]>>}}
  BY DEF Publish, PublishError, FailCall
<1>4. \A call \in adrift' :
        \/ call \in adrift
        \/ \E d \in Conns : \E a \in ToDo(d) : a \notin ToDo(d)' /\ call = <<cur[d], a>>
  BY <1>2, <1>3
<1>5. CallsInv' /\ \A i : Open(i)' \subseteq Open(i)
  BY <1>2, <1>4, CallsKept DEF CopiesInv
<1>6. CASE Publish(c)
  <2>1. Broadcast(cur[c]) /\ adrift' = adrift
    BY <1>6 DEF Publish
  <2>2. PICK i : i = cur[c]
    OBVIOUS
  <2>3. PICK a : a = pc[c]
    OBVIOUS
  <2>4. a \in Open(i)
    BY <1>1, <1>2, <2>2, <2>3 DEF Open
  <2>5. a \notin Open(i)'
    <3>1. <<i, a>> \notin adrift'
      BY <1>2, <2>1, <2>2, <2>3 DEF CopiesInv, CallsInv
    <3>2. ASSUME NEW d \in Conns, cur'[d] = i, a \in ToDo(d)' PROVE FALSE
      <4>1. cur[d] = i
        BY <1>2, <3>2
      <4>2. d = c
        BY <1>2, <2>2, <4>1, OneHandler
      <4> QED BY <1>2, <2>3, <3>2, <4>2
    <3> QED BY <3>1, <3>2 DEF Open
  <2>6. CountInv'
    BY <1>2, <1>5, <2>1, <2>2, <2>4, <2>5, BroadcastCount DEF CopiesInv
  <2> QED BY <1>5, <2>6 DEF CopiesInv
<1>7. CASE PublishError(c)
  <2>1. UNCHANGED <<got, inbox>>
    BY <1>7 DEF PublishError, FailCall
  <2> QED BY <1>1, <1>5, <2>1, CountKept DEF CopiesInv
<1> QED BY <1>6, <1>7

LEMMA LandCopies ==
    ASSUME TypeOK, OrderInv, CopiesInv, NEW call \in adrift, Land(call)
    PROVE  CopiesInv'
<1>1. /\ UNCHANGED <<sent, pc, cur>> /\ adrift' = adrift \ {call} /\ Broadcast(call[1])
      /\ call[1] \in Ids /\ call[2] \in Calls /\ call = <<call[1], call[2]>>
  BY DEF Land, Broadcast, handler, TypeOK
<1>2. \A d \in Conns : ToDo(d)' = ToDo(d) /\ cur'[d] = cur[d]
  BY <1>1 DEF ToDo
<1>3. CallsInv' /\ \A i : Open(i)' \subseteq Open(i)
  BY <1>1, <1>2, CallsKept DEF CopiesInv
<1>4. call[2] \in Open(call[1])
  BY <1>1 DEF Open
<1>5. call[2] \notin Open(call[1])'
  <2>1. \A d \in Conns : ~(cur[d] = call[1] /\ call[2] \in ToDo(d))
    BY <1>1 DEF CopiesInv, CallsInv
  <2>2. <<call[1], call[2]>> \notin adrift'
    BY <1>1
  <2> QED BY <1>2, <2>1, <2>2 DEF Open
<1>6. CountInv'
  BY <1>1, <1>3, <1>4, <1>5, BroadcastCount DEF CopiesInv
<1> QED BY <1>3, <1>6 DEF CopiesInv

\* Steps that make no call and put nothing anywhere.
LEMMA KeptCopies ==
    ASSUME TypeOK, OrderInv, CopiesInv, UNCHANGED sent,
           \A c \in Conns : ToDo(c)' \subseteq ToDo(c) /\ (ToDo(c)' # {} => cur'[c] = cur[c]),
           \A call \in adrift' :
               \/ call \in adrift
               \/ \E c \in Conns : \E a \in ToDo(c) : a \notin ToDo(c)' /\ call = <<cur[c], a>>,
           \A c \in Conns : got'[c] \in {got[c], << >>},
           \A n \in Nodes : inbox'[n] \in {inbox[n], << >>}
    PROVE  CopiesInv'
<1>1. CallsInv' /\ \A i : Open(i)' \subseteq Open(i)
  BY CallsKept DEF CopiesInv
<1>2. CountInv'
  BY <1>1, CountKept DEF CopiesInv
<1> QED BY <1>1, <1>2 DEF CopiesInv

\* Connections end: their handlers make no more calls.
LEMMA EndCopies ==
    ASSUME TypeOK, OrderInv, CopiesInv, NEW C \in SUBSET Conns, End(C), UNCHANGED sent,
           \A n \in Nodes : inbox'[n] \in {inbox[n], << >>}
    PROVE  CopiesInv'
<1>1. /\ pc' = [c \in Conns |-> IF c \in C THEN "off" ELSE pc[c]]
      /\ cur' = [c \in Conns |-> IF c \in C THEN 0 ELSE cur[c]]
      /\ got' = [c \in Conns |-> IF c \in C THEN << >> ELSE got[c]]
      /\ adrift' \subseteq adrift \cup {<<cur[c], pc[c]>> : c \in {c \in C : pc[c] \in Calls}}
  BY DEF End
<1>2. ASSUME NEW c \in Conns
      PROVE  ToDo(c)' \subseteq ToDo(c) /\ (ToDo(c)' # {} => cur'[c] = cur[c]) /\ (c \in C => ToDo(c)' = {})
  <2>1. CASE c \in C
    <3>1. pc'[c] = "off"
      BY <1>1, <2>1
    <3> QED BY <2>1, <3>1 DEF ToDo
  <2>2. CASE c \notin C
    <3>1. pc'[c] = pc[c] /\ cur'[c] = cur[c]
      BY <1>1, <2>2
    <3> QED BY <2>2, <3>1 DEF ToDo
  <2> QED BY <2>1, <2>2
<1>3. ASSUME NEW call \in adrift'
      PROVE  \/ call \in adrift
             \/ \E c \in Conns : \E a \in ToDo(c) : a \notin ToDo(c)' /\ call = <<cur[c], a>>
  <2>1. SUFFICES ASSUME NEW c \in C, pc[c] \in Calls, call = <<cur[c], pc[c]>>
                 PROVE  \E a \in ToDo(c) : a \notin ToDo(c)' /\ call = <<cur[c], a>>
    BY <1>1
  <2>2. pc[c] \in ToDo(c) /\ ToDo(c)' = {}
    BY <1>2, <2>1 DEF ToDo, Calls
  <2> QED BY <2>1, <2>2
<1>4. \A c \in Conns : got'[c] \in {got[c], << >>}
  BY <1>1
<1> QED BY <1>2, <1>3, <1>4, KeptCopies

LEMMA NextCopies == TypeOK /\ OrderInv /\ CopiesInv /\ [Next]_vars => CopiesInv'
<1> SUFFICES ASSUME TypeOK, OrderInv, CopiesInv, [Next]_vars PROVE CopiesInv'
  OBVIOUS
<1>1. ASSUME UNCHANGED <<sent, adrift, got>>, \A n \in Nodes : inbox'[n] \in {inbox[n], << >>},
             \A c \in Conns : \/ pc'[c] = pc[c] /\ cur'[c] = cur[c]
                              \/ pc'[c] \in {"off", "idle"}
      PROVE  CopiesInv'
  <2>1. ASSUME NEW c \in Conns PROVE ToDo(c)' \subseteq ToDo(c) /\ (ToDo(c)' # {} => cur'[c] = cur[c])
    <3>1. CASE pc'[c] = pc[c] /\ cur'[c] = cur[c]
      BY <1>1, <3>1 DEF ToDo
    <3>2. CASE pc'[c] \in {"off", "idle"}
      BY <3>2 DEF ToDo
    <3> QED BY <1>1, <3>1, <3>2
  <2> QED BY <1>1, <2>1, KeptCopies
<1>2. ASSUME NEW c \in Conns, Connect(c) \/ (\E g \in Groups : DeleteGroup(c, g)) PROVE CopiesInv'
  <2>1. UNCHANGED <<sent, adrift, got, inbox>>
    BY <1>2 DEF Connect, DeleteGroup, redis
  <2>2. \A d \in Conns : (pc'[d] = pc[d] /\ cur'[d] = cur[d]) \/ pc'[d] \in {"off", "idle"}
    BY <1>2 DEF Connect, DeleteGroup, handler, TypeOK
  <2> QED BY <1>1, <2>1, <2>2
<1>3. ASSUME NEW c \in Conns, Disconnect(c) PROVE CopiesInv'
  <2>1. End({c}) /\ UNCHANGED <<sent, inbox>>
    BY <1>3 DEF Disconnect
  <2> QED BY <2>1, EndCopies
<1>4. ASSUME NEW c \in Conns, NEW kind \in {"dm"} \cup Groupish,
             NEW to, IF kind = "dm" THEN to \in Names ELSE to \in Groups,
             pc[c] = "idle", Begin(c, kind, to), UNCHANGED <<inbox, adrift>>
      PROVE  CopiesInv'
  BY <1>4, BeginCount DEF CopiesInv
<1>5. ASSUME NEW c \in Conns, Reply(c), UNCHANGED <<inbox, adrift>> PROVE CopiesInv'
  <2>1. UNCHANGED <<sent, pc, cur>> /\ \E C : Put(C, 0)
    BY <1>5 DEF Reply, handler
  <2>2. CountInv'
    BY <1>5, <2>1, ReplyCount DEF CopiesInv
  <2>3. CallsInv'
    BY <1>5, <2>1 DEF CopiesInv, CallsInv, ToDo
  <2> QED BY <2>2, <2>3 DEF CopiesInv
<1>6. ASSUME NEW c \in Conns, SendTooLarge(c) PROVE CopiesInv'
  BY <1>5, <1>6 DEF SendTooLarge, redis
<1>7. ASSUME NEW c \in Conns, NEW u \in Names, SendDm(c, u) PROVE CopiesInv'
  BY <1>4, <1>7 DEF SendDm, Ask, redis
<1>8. ASSUME NEW c \in Conns, NEW g \in Groups, SendGroup(c, g) PROVE CopiesInv'
  <2>1. CASE Begin(c, "chat", g)
    BY <1>4, <1>8, <2>1 DEF SendGroup, Ask, Groupish, redis
  <2>2. CASE Reply(c)
    BY <1>5, <1>8, <2>2 DEF SendGroup, redis
  <2> QED BY <1>8, <2>1, <2>2 DEF SendGroup
<1>9. ASSUME NEW c \in Conns, NEW g \in Groups, NEW op \in {"join", "leave", "create"},
             GroupCommand(c, op, g)
      PROVE  CopiesInv'
  BY <1>4, <1>9 DEF GroupCommand, Ask, Groupish, redis
<1>10. ASSUME NEW c \in Conns, Persist(c) \/ PersistError(c) PROVE CopiesInv'
  <2>1. UNCHANGED <<sent, adrift, got, inbox>>
    BY <1>10 DEF Persist, PersistError, redis
  <2>2. \A d \in Conns : (pc'[d] = pc[d] /\ cur'[d] = cur[d]) \/ pc'[d] \in {"off", "idle"}
    BY <1>10 DEF Persist, PersistError, Finish, TypeOK
  <2> QED BY <1>1, <2>1, <2>2
<1>11. ASSUME NEW n \in Nodes, Listen(n) PROVE CopiesInv'
  <2>1. UNCHANGED <<adrift, pc, cur, sent>>
    BY <1>11 DEF Listen, Handle, handler
  <2>2. CallsInv'
    BY <2>1 DEF CopiesInv, CallsInv, ToDo
  <2> QED BY <1>11, <2>2, ListenCount DEF CopiesInv
<1>12. ASSUME NEW n \in Nodes, ListenerEnd(n) \/ Restart(n) \/ Subscribe(n) PROVE CopiesInv'
  <2>1. \A o \in Nodes : inbox'[o] \in {inbox[o], << >>}
    BY <1>12 DEF ListenerEnd, Restart, Subscribe, TypeOK
  <2>2. CASE Restart(n)
    BY <2>1, <2>2, EndCopies DEF Restart
  <2>3. CASE ListenerEnd(n) \/ Subscribe(n)
    BY <1>1, <2>1, <2>3 DEF ListenerEnd, Subscribe, handler
  <2> QED BY <1>12, <2>2, <2>3
<1>13. CASE UNCHANGED vars
  BY <1>1, <1>13 DEF vars, handler, redis
<1> QED
  BY <1>2, <1>3, <1>6, <1>7, <1>8, <1>9, <1>10, <1>11, <1>12, <1>13, CallCopies, LandCopies DEF Next

LEMMA InitCopies == Init => CopiesInv
<1> SUFFICES ASSUME Init PROVE CopiesInv
  OBVIOUS
<1>1. Ids = {}
  BY DEF Init, Ids
<1> QED BY <1>1 DEF Init, CopiesInv, CallsInv, CountInv, ToDo

\* No device gets a third copy of a DM, or a second one of anything else,
\* however many calls fail and land after all.
THEOREM NoMoreCopiesHolds == Spec => []NoMoreCopies
<1>1. TypeOK /\ CopiesInv => NoMoreCopies
  <2> SUFFICES ASSUME TypeOK, CopiesInv, NEW c \in Conns, NEW i \in Ids
               PROVE  Cardinality(Copies(c, i)) <= Budget(i)
    BY DEF NoMoreCopies, Budget
  <2>1. Cardinality(Copies(c, i)) = Count(got[c], i)
    BY DEF Copies, Count, Places
  <2>2. Count(got[c], i) \in Nat /\ Count(inbox[NodeOf[c]], i) \in Nat /\ Cardinality(Open(i)) \in Nat
    BY CountTypes
  <2>3. Count(got[c], i) + Count(inbox[NodeOf[c]], i) + Cardinality(Open(i)) <= Budget(i) /\ Budget(i) \in Nat
    BY DEF CopiesInv, CountInv, Budget
  <2> QED BY <2>1, <2>2, <2>3
<1> QED BY <1>1, InitCopies, NextCopies, OrderInvariance, TypeCorrect, PTL DEF Spec

-----------------------------------------------------------------------------
(* One order of the messages of a group, on all devices *)

Waits(c, j) == \E l \in 1 .. Len(inbox[NodeOf[c]]) : inbox[NodeOf[c]][l] = j

\* Message i comes before message j in what device c was given and what waits
\* for its node.
Ahead(c, i, j) ==
    \/ HeardBefore(c, i, j)
    \/ Has(c, i) /\ Waits(c, j)
    \/ \E k, l \in 1 .. Len(inbox[NodeOf[c]]) :
            k < l /\ inbox[NodeOf[c]][k] = i /\ inbox[NodeOf[c]][l] = j

AgreeInv == \A c, d \in Conns : \A i, j \in GroupIds : Ahead(c, i, j) => ~Ahead(d, j, i)

LEMMA AheadPlaces ==
    ASSUME TypeOK, NEW c \in Conns, NEW i, NEW j, Ahead(c, i, j)
    PROVE  /\ i \in Ids \cup {0} /\ j \in Ids \cup {0}
           /\ Has(c, i) \/ Waits(c, i)
           /\ Has(c, j) \/ Waits(c, j)
<1>1. NodeOf[c] \in Nodes
  BY IdentityAssumption
<1> QED BY <1>1, SeqsOfIds DEF Ahead, HeardBefore, Has, Waits

\* Steps after which nothing is ahead of anything that was not before.
LEMMA NothingAhead ==
    ASSUME TypeOK, AgreeInv, LogKept,
           \A c \in Conns : \A i, j \in GroupIds' : Ahead(c, i, j)' => Ahead(c, i, j)
    PROVE  AgreeInv'
<1> SUFFICES ASSUME NEW c \in Conns, NEW d \in Conns, NEW i \in GroupIds', NEW j \in GroupIds',
                    Ahead(c, i, j), Ahead(d, j, i)
             PROVE  FALSE
  BY DEF AgreeInv
<1>1. i \in Ids /\ j \in Ids
  BY AheadPlaces DEF LogKept, GroupIds
<1>2. i \in GroupIds /\ j \in GroupIds
  BY <1>1 DEF LogKept, GroupIds
<1> QED BY <1>2 DEF AgreeInv

LEMMA KeptAgree ==
    ASSUME TypeOK, AgreeInv, LogKept,
           \A n \in Nodes : inbox'[n] \in {inbox[n], << >>},
           \A c \in Conns : got'[c] \in {got[c], << >>}
    PROVE  AgreeInv'
<1> SUFFICES ASSUME NEW c \in Conns, NEW i, NEW j, Ahead(c, i, j)' PROVE Ahead(c, i, j)
  BY NothingAhead
<1>1. Len(<< >>) = 0 /\ NodeOf[c] \in Nodes
  BY IdentityAssumption
<1>2. CASE HeardBefore(c, i, j)'
  BY <1>1, <1>2 DEF HeardBefore, Ahead
<1>3. CASE Has(c, i)' /\ Waits(c, j)'
  BY <1>1, <1>3 DEF Has, Waits, Ahead
<1>4. CASE \E k, l \in 1 .. Len(inbox'[NodeOf[c]]) :
              k < l /\ inbox'[NodeOf[c]][k] = i /\ inbox'[NodeOf[c]][l] = j
  BY <1>1, <1>4 DEF Ahead
<1> QED BY <1>2, <1>3, <1>4 DEF Ahead

\* What a channel holds after something was put into it.
LEMMA PutPlaces ==
    ASSUME TypeOK, NEW C, NEW x \in Ids \cup {0}, Put(C, x), NEW c \in Conns
    PROVE  /\ Len(got[c]) \in Nat
           /\ \A k \in 1 .. Len(got'[c]) :
                \/ k \in 1 .. Len(got[c]) /\ got'[c][k] = got[c][k]
                \/ c \in C /\ k = Len(got[c]) + 1 /\ got'[c][k] = x /\ Len(got'[c]) = k
<1>0. got[c] \in Seq(Ids \cup {0}) /\ Len(got[c]) \in Nat
  BY LenProperties DEF TypeOK
<1>1. CASE c \in C
  <2>1. got'[c] = Append(got[c], x)
    BY <1>1 DEF Put
  <2>2. /\ Len(got'[c]) = Len(got[c]) + 1
        /\ \A k \in 1 .. Len(got[c]) : got'[c][k] = got[c][k]
        /\ got'[c][Len(got[c]) + 1] = x
    BY <1>0, <2>1, AppendProperties
  <2> QED BY <1>0, <1>1, <2>2
<1>2. CASE c \notin C
  BY <1>0, <1>2 DEF TypeOK, Put
<1> QED BY <1>1, <1>2

LEMMA ReplyAgree ==
    ASSUME TypeOK, AgreeInv, NEW C, Put(C, 0), UNCHANGED <<sent, inbox>>
    PROVE  AgreeInv'
<1>0. LogKept /\ 0 \notin Ids /\ Ids' = Ids
  BY SameLog, LogType DEF Ids
<1> SUFFICES ASSUME NEW c \in Conns, NEW i \in Ids, NEW j \in Ids, Ahead(c, i, j)' PROVE Ahead(c, i, j)
  BY <1>0, NothingAhead DEF GroupIds
<1>1. \A k \in 1 .. Len(got'[c]) :
        got'[c][k] = 0 \/ (k \in 1 .. Len(got[c]) /\ got'[c][k] = got[c][k])
  BY PutPlaces
<1>2. i # 0 /\ j # 0
  BY <1>0
<1>3. CASE HeardBefore(c, i, j)'
  BY <1>1, <1>2, <1>3 DEF HeardBefore, Ahead
<1>4. CASE Has(c, i)' /\ Waits(c, j)'
  BY <1>1, <1>2, <1>4 DEF Has, Waits, Ahead
<1> QED BY <1>3, <1>4 DEF Ahead

\* A message that still may be broadcast, once, is nowhere yet.
LEMMA NowhereYet ==
    ASSUME TypeOK, CountInv, NEW i \in GroupIds, NEW a \in Open(i), NEW c \in Conns
    PROVE  ~Has(c, i) /\ ~Waits(c, i)
<1>1. i \in Ids /\ Budget(i) = 1
  BY DEF GroupIds, Budget
<1>2. Count(got[c], i) + Count(inbox[NodeOf[c]], i) + Cardinality(Open(i)) <= 1
  BY <1>1 DEF CountInv
<1>3. Count(got[c], i) \in Nat /\ Count(inbox[NodeOf[c]], i) \in Nat /\ Cardinality(Open(i)) \in Nat
  BY CountTypes
<1>4. Cardinality(Open(i)) # 0
  BY OpenFinite, FS_EmptySet
<1>5. Count(got[c], i) = 0 /\ Count(inbox[NodeOf[c]], i) = 0
  BY <1>2, <1>3, <1>4
<1>6. IsFiniteSet(Places(got[c], i)) /\ IsFiniteSet(Places(inbox[NodeOf[c]], i))
  <2>1. got[c] \in Seq(Ids \cup {0}) /\ NodeOf[c] \in Nodes /\ inbox[NodeOf[c]] \in Seq(Ids)
    BY IdentityAssumption DEF TypeOK
  <2> QED BY <2>1, PlacesFinite
<1>7. Places(got[c], i) = {} /\ Places(inbox[NodeOf[c]], i) = {}
  BY <1>5, <1>6, FS_EmptySet DEF Count
<1> QED BY <1>7 DEF Places, Has, Waits

LEMMA BroadcastAgree ==
    ASSUME TypeOK, CountInv, AgreeInv, NEW x \in Ids, Broadcast(x), NEW a \in Open(x)
    PROVE  AgreeInv'
<1>0. LogKept /\ Ids' = Ids /\ sent' = sent /\ got' = got /\ GroupIds' = GroupIds
  BY SameLog DEF Broadcast, Ids, GroupIds
<1>1. ASSUME NEW n \in Nodes
      PROVE  /\ Len(inbox[n]) \in Nat
             /\ \A k \in 1 .. Len(inbox'[n]) :
                  \/ k \in 1 .. Len(inbox[n]) /\ inbox'[n][k] = inbox[n][k]
                  \/ k = Len(inbox[n]) + 1 /\ inbox'[n][k] = x
  <2>0. inbox[n] \in Seq(Ids) /\ Len(inbox[n]) \in Nat
    BY LenProperties DEF TypeOK
  <2>1. CASE listener[n] = "on"
    <3>1. inbox'[n] = Append(inbox[n], x)
      BY <2>1 DEF Broadcast
    <3>2. /\ Len(inbox'[n]) = Len(inbox[n]) + 1
          /\ \A k \in 1 .. Len(inbox[n]) : inbox'[n][k] = inbox[n][k]
          /\ inbox'[n][Len(inbox[n]) + 1] = x
      BY <2>0, <3>1, AppendProperties
    <3> QED BY <2>0, <3>2
  <2>2. CASE listener[n] # "on"
    BY <2>0, <2>2 DEF Broadcast
  <2> QED BY <2>1, <2>2
\* Only x is behind something it was not behind before.
<1>2. ASSUME NEW c \in Conns, NEW i, NEW j, Ahead(c, i, j)'
      PROVE  Ahead(c, i, j) \/ (j = x /\ (Has(c, i) \/ Waits(c, i)))
  <2>0. NodeOf[c] \in Nodes
    BY IdentityAssumption
  <2>1. CASE HeardBefore(c, i, j)'
    BY <1>0, <2>1 DEF HeardBefore, Ahead
  <2>2. CASE Has(c, i)' /\ Waits(c, j)'
    <3>1. Has(c, i)
      BY <1>0, <2>2 DEF Has
    <3>2. Waits(c, j) \/ j = x
      BY <1>1, <2>0, <2>2 DEF Waits
    <3> QED BY <3>1, <3>2 DEF Ahead
  <2>3. ASSUME NEW k \in 1 .. Len(inbox'[NodeOf[c]]), NEW l \in 1 .. Len(inbox'[NodeOf[c]]),
               k < l, inbox'[NodeOf[c]][k] = i, inbox'[NodeOf[c]][l] = j
        PROVE  Ahead(c, i, j) \/ (j = x /\ Waits(c, i))
    <3>1. Len(inbox[NodeOf[c]]) \in Nat /\ k \in Nat /\ l \in Nat
      BY <1>1, <2>0
    <3>2. k \in 1 .. Len(inbox[NodeOf[c]]) /\ inbox[NodeOf[c]][k] = i
      BY <1>1, <2>0, <2>3, <3>1
    <3>3. \/ l \in 1 .. Len(inbox[NodeOf[c]]) /\ inbox[NodeOf[c]][l] = j
          \/ j = x
      BY <1>1, <2>0, <2>3
    <3> QED BY <2>3, <3>2, <3>3 DEF Ahead, Waits
  <2> QED BY <1>2, <2>1, <2>2, <2>3 DEF Ahead
<1>3. x \in GroupIds => \A c \in Conns : ~Has(c, x) /\ ~Waits(c, x)
  BY NowhereYet
<1>4. SUFFICES ASSUME NEW c \in Conns, NEW d \in Conns, NEW i \in GroupIds, NEW j \in GroupIds,
                      Ahead(c, i, j)', Ahead(d, j, i)'
               PROVE  FALSE
  BY <1>0 DEF AgreeInv
<1>5. /\ Ahead(c, i, j) \/ (j = x /\ (Has(c, i) \/ Waits(c, i)))
      /\ Ahead(d, j, i) \/ (i = x /\ (Has(d, j) \/ Waits(d, j)))
  BY <1>2, <1>4
<1>6. ASSUME NEW e \in Conns, NEW f \in GroupIds, Ahead(e, f, x) \/ Ahead(e, x, f), x \in GroupIds PROVE FALSE
  BY <1>3, <1>6, AheadPlaces
<1>7. ~(Ahead(c, i, j) /\ Ahead(d, j, i))
  BY DEF AgreeInv
<1> QED BY <1>3, <1>5, <1>6, <1>7

\* A listener takes the first message of its inbox to the end of channels.
LEMMA ListenAgree ==
    ASSUME TypeOK, AgreeInv, NEW n \in Nodes, Listen(n)
    PROVE  AgreeInv'
<1> DEFINE x == Head(inbox[n])
<1>1. /\ inbox[n] \in Seq(Ids) /\ inbox[n] # << >> /\ x \in Ids /\ x = inbox[n][1]
      /\ inbox' = [inbox EXCEPT ![n] = Tail(inbox[n])]
      /\ Len(inbox[n]) \in Nat \ {0} /\ Len(Tail(inbox[n])) = Len(inbox[n]) - 1
      /\ \A k \in 1 .. Len(Tail(inbox[n])) : Tail(inbox[n])[k] = inbox[n][k + 1]
  BY ListenStep
<1>2. PICK C : Put(C, x) /\ \A c \in C : NodeOf[c] = n
  <2>1. Put(IF sent[x].kind = "dm" THEN Devices(n, sent[x].tenant, sent[x].to)
            ELSE GroupDevices(n, sent[x].tenant, sent[x].to,
                    IF sent[x].kind = "join"
                    THEN members[n] \cup {<<sent[x].tenant, sent[x].to, NameOf[sent[x].sender]>>}
                    ELSE members[n]), x)
    BY DEF Listen, Handle
  <2> HIDE DEF x
  <2>2. CASE sent[x].kind = "dm"
    BY <2>1, <2>2 DEF Devices
  <2>3. CASE sent[x].kind # "dm"
    <3>1. \A all : \A c \in GroupDevices(n, sent[x].tenant, sent[x].to, all) : NodeOf[c] = n
      BY DEF GroupDevices
    <3> QED BY <2>1, <2>3, <3>1
  <2> QED BY <2>2, <2>3
<1>3. LogKept
  BY SameLog DEF Listen, Handle
<1> HIDE DEF x
<1> SUFFICES ASSUME NEW c \in Conns, NEW i, NEW j, Ahead(c, i, j)' PROVE Ahead(c, i, j)
  BY <1>3, NothingAhead
<1>4. /\ Len(got[c]) \in Nat
      /\ \A k \in 1 .. Len(got'[c]) :
            \/ k \in 1 .. Len(got[c]) /\ got'[c][k] = got[c][k]
            \/ NodeOf[c] = n /\ k = Len(got[c]) + 1 /\ got'[c][k] = x /\ Len(got'[c]) = k
  BY <1>1, <1>2, PutPlaces
<1>5. NodeOf[c] \in Nodes /\ Len(inbox[NodeOf[c]]) \in Nat
  BY IdentityAssumption, SeqsOfIds
\* Where a message waits that does so after the step, it did before.
<1>6. PICK s \in {0, 1} :
        /\ NodeOf[c] = n => s = 1
        /\ Len(inbox'[NodeOf[c]]) + s = Len(inbox[NodeOf[c]])
        /\ \A k \in 1 .. Len(inbox'[NodeOf[c]]) : inbox'[NodeOf[c]][k] = inbox[NodeOf[c]][k + s]
  <2>1. CASE NodeOf[c] = n
    <3>1. inbox'[NodeOf[c]] = Tail(inbox[n])
      BY <1>1, <2>1 DEF TypeOK
    <3>2. Len(Tail(inbox[n])) + 1 = Len(inbox[n])
      BY <1>1
    <3> QED BY <1>1, <2>1, <3>1, <3>2
  <2>2. CASE NodeOf[c] # n
    <3>1. inbox'[NodeOf[c]] = inbox[NodeOf[c]]
      BY <1>1, <1>5, <2>2 DEF TypeOK
    <3>2. \A k \in 1 .. Len(inbox[NodeOf[c]]) : k + 0 = k
      BY <1>5
    <3> QED BY <1>5, <2>2, <3>1, <3>2
  <2> QED BY <2>1, <2>2
<1>7. ASSUME NEW k \in 1 .. Len(inbox'[NodeOf[c]])
      PROVE  k \in Nat /\ k + s \in 1 .. Len(inbox[NodeOf[c]]) /\ (s = 1 => 1 < k + s)
  <2>1. Len(inbox'[NodeOf[c]]) = Len(inbox[NodeOf[c]]) - s /\ s \in Nat
    BY <1>5, <1>6, LenProperties, ListenStep DEF TypeOK
  <2> QED BY <1>5, <1>7, <2>1
<1>8. Waits(c, j)' => Waits(c, j)
  BY <1>6, <1>7 DEF Waits
<1>9. CASE HeardBefore(c, i, j)'
  <2>1. PICK k \in 1 .. Len(got'[c]), l \in 1 .. Len(got'[c]) : k < l /\ got'[c][k] = i /\ got'[c][l] = j
    BY <1>9 DEF HeardBefore
  <2>2. k \in 1 .. Len(got[c]) /\ got[c][k] = i
    BY <1>4, <2>1
  <2>3. CASE l \in 1 .. Len(got[c]) /\ got'[c][l] = got[c][l]
    BY <2>1, <2>2, <2>3 DEF HeardBefore, Ahead
  <2>4. CASE NodeOf[c] = n /\ got'[c][l] = x
    <3>1. Has(c, i)
      BY <2>2 DEF Has
    <3>2. 1 \in 1 .. Len(inbox[n]) /\ inbox[n][1] = j
      BY <1>1, <2>1, <2>4
    <3> QED BY <2>4, <3>1, <3>2 DEF Waits, Ahead
  <2> QED BY <1>4, <2>3, <2>4
<1>10. CASE Has(c, i)' /\ Waits(c, j)'
  <2>1. PICK k \in 1 .. Len(got'[c]) : got'[c][k] = i
    BY <1>10 DEF Has
  <2>2. CASE k \in 1 .. Len(got[c]) /\ got'[c][k] = got[c][k]
    BY <1>8, <1>10, <2>1, <2>2 DEF Has, Ahead
  <2>3. CASE NodeOf[c] = n /\ got'[c][k] = x
    <3>1. PICK l \in 1 .. Len(inbox'[NodeOf[c]]) : inbox'[NodeOf[c]][l] = j
      BY <1>10 DEF Waits
    <3>2. l + s \in 1 .. Len(inbox[n]) /\ 1 < l + s /\ inbox[n][l + s] = j
      BY <1>6, <1>7, <2>3, <3>1
    <3>3. 1 \in 1 .. Len(inbox[n]) /\ inbox[n][1] = i
      BY <1>1, <2>1, <2>3
    <3> QED BY <2>3, <3>2, <3>3 DEF Ahead
  <2> QED BY <1>4, <2>2, <2>3
<1>11. ASSUME NEW k \in 1 .. Len(inbox'[NodeOf[c]]), NEW l \in 1 .. Len(inbox'[NodeOf[c]]),
              k < l, inbox'[NodeOf[c]][k] = i, inbox'[NodeOf[c]][l] = j
       PROVE  Ahead(c, i, j)
  <2>1. /\ k + s \in 1 .. Len(inbox[NodeOf[c]]) /\ l + s \in 1 .. Len(inbox[NodeOf[c]])
        /\ k \in Nat /\ l \in Nat /\ s \in Nat
    BY <1>7
  <2>2. inbox[NodeOf[c]][k + s] = i /\ inbox[NodeOf[c]][l + s] = j /\ k + s < l + s
    BY <1>6, <1>11, <2>1
  <2> QED BY <2>1, <2>2 DEF Ahead
<1> QED BY <1>9, <1>10, <1>11 DEF Ahead

\* A handler publishes a message that was not published, or gives the call up.
LEMMA CallAgree ==
    ASSUME TypeOK, CopiesInv, AgreeInv, NEW c \in Conns, Publish(c) \/ PublishError(c)
    PROVE  AgreeInv'
<1>1. CASE Publish(c)
  <2>1. pc[c] \in Calls /\ Broadcast(cur[c]) /\ AfterCall(c) /\ UNCHANGED sent
    BY <1>1 DEF Publish, Broadcast
  <2>2. cur[c] \in Ids /\ pc[c] \in ToDo(c)
    BY <2>1, AfterCallToDo
  <2>3. pc[c] \in Open(cur[c])
    BY <2>1, <2>2 DEF Open
  <2> QED BY <2>1, <2>2, <2>3, BroadcastAgree DEF CopiesInv
<1>2. CASE PublishError(c)
  <2>1. UNCHANGED <<sent, inbox, got>>
    BY <1>2 DEF PublishError, FailCall
  <2> QED BY <2>1, SameLog, KeptAgree
<1> QED BY <1>1, <1>2

LEMMA LandAgree ==
    ASSUME TypeOK, CopiesInv, AgreeInv, NEW call \in adrift, Land(call)
    PROVE  AgreeInv'
<1>1. call[1] \in Ids /\ call[2] \in Calls /\ call = <<call[1], call[2]>> /\ Broadcast(call[1])
  BY DEF Land, TypeOK
<1>2. call[2] \in Open(call[1])
  BY <1>1 DEF Open
<1> QED BY <1>1, <1>2, BroadcastAgree DEF CopiesInv

LEMMA NextAgree == TypeOK /\ CopiesInv /\ AgreeInv /\ [Next]_vars => AgreeInv'
<1> SUFFICES ASSUME TypeOK, CopiesInv, AgreeInv, [Next]_vars PROVE AgreeInv'
  OBVIOUS
<1>1. ASSUME UNCHANGED sent, \A n \in Nodes : inbox'[n] \in {inbox[n], << >>},
             \A c \in Conns : got'[c] \in {got[c], << >>}
      PROVE  AgreeInv'
  BY <1>1, SameLog, KeptAgree
<1>2. ASSUME NEW c \in Conns, NEW kind \in {"dm"} \cup Groupish,
             NEW to, IF kind = "dm" THEN to \in Names ELSE to \in Groups,
             pc[c] = "idle", Begin(c, kind, to), UNCHANGED inbox
      PROVE  AgreeInv'
  <2>1. LogKept
    <3>1. Len(sent) \in Nat /\ Ids' = Ids \cup {Len(sent) + 1} /\ \A i \in Ids : sent'[i] = sent[i]
      BY <1>2, BeginStep
    <3> QED BY <3>1, LogType DEF LogKept
  <2> QED BY <1>2, <2>1, KeptAgree DEF Begin
<1>3. ASSUME NEW c \in Conns, Reply(c), UNCHANGED inbox PROVE AgreeInv'
  <2>1. UNCHANGED sent /\ \E C : Put(C, 0)
    BY <1>3 DEF Reply
  <2> QED BY <1>3, <2>1, ReplyAgree
<1>4. ASSUME NEW C \in SUBSET Conns, End(C), UNCHANGED sent, \A n \in Nodes : inbox'[n] \in {inbox[n], << >>}
      PROVE  AgreeInv'
  <2>1. \A c \in Conns : got'[c] \in {got[c], << >>}
    BY <1>4 DEF End
  <2> QED BY <1>1, <1>4, <2>1
<1>5. ASSUME NEW c \in Conns, Connect(c) \/ (\E g \in Groups : DeleteGroup(c, g)) \/ Persist(c) \/ PersistError(c)
      PROVE  AgreeInv'
  <2>1. UNCHANGED <<sent, inbox, got>>
    BY <1>5 DEF Connect, DeleteGroup, Persist, PersistError, redis
  <2> QED BY <1>1, <2>1
<1>6. ASSUME NEW c \in Conns, Disconnect(c) PROVE AgreeInv'
  BY <1>4, <1>6 DEF Disconnect
<1>7. ASSUME NEW c \in Conns, SendTooLarge(c) PROVE AgreeInv'
  BY <1>3, <1>7 DEF SendTooLarge, redis
<1>8. ASSUME NEW c \in Conns, NEW u \in Names, SendDm(c, u) PROVE AgreeInv'
  BY <1>2, <1>8 DEF SendDm, Ask, redis
<1>9. ASSUME NEW c \in Conns, NEW g \in Groups, SendGroup(c, g) PROVE AgreeInv'
  <2>1. CASE Begin(c, "chat", g)
    BY <1>2, <1>9, <2>1 DEF SendGroup, Ask, Groupish, redis
  <2>2. CASE Reply(c)
    BY <1>3, <1>9, <2>2 DEF SendGroup, redis
  <2> QED BY <1>9, <2>1, <2>2 DEF SendGroup
<1>10. ASSUME NEW c \in Conns, NEW g \in Groups, NEW op \in {"join", "leave", "create"},
              GroupCommand(c, op, g)
       PROVE  AgreeInv'
  BY <1>2, <1>10 DEF GroupCommand, Ask, Groupish, redis
<1>11. ASSUME NEW n \in Nodes, ListenerEnd(n) \/ Restart(n) \/ Subscribe(n) PROVE AgreeInv'
  <2>1. \A o \in Nodes : inbox'[o] \in {inbox[o], << >>}
    BY <1>11 DEF ListenerEnd, Restart, Subscribe, TypeOK
  <2>2. CASE Restart(n)
    BY <1>4, <2>1, <2>2 DEF Restart
  <2>3. CASE ListenerEnd(n) \/ Subscribe(n)
    BY <1>1, <2>1, <2>3 DEF ListenerEnd, Subscribe
  <2> QED BY <1>11, <2>2, <2>3
<1>12. CASE UNCHANGED vars
  BY <1>1, <1>12 DEF vars, redis
<1> QED
  BY <1>5, <1>6, <1>7, <1>8, <1>9, <1>10, <1>11, <1>12, CallAgree, LandAgree, ListenAgree DEF Next

\* All devices are given the messages of groups in one order, that in which
\* Redis carried them out.
THEOREM SameOrderHolds == Spec => []SameOrder
<1>1. Init => AgreeInv
  BY DEF Init, AgreeInv, GroupIds, Ids
<1>2. AgreeInv => SameOrder
  BY DEF AgreeInv, SameOrder, Ahead
<1> QED BY <1>1, <1>2, NextAgree, InitCopies, NextCopies, OrderInvariance, TypeCorrect, PTL DEF Spec
=============================================================================
