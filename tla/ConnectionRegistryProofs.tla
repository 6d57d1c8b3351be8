---------------------- MODULE ConnectionRegistryProofs ----------------------
(***************************************************************************)
(* Theorems about ConnectionRegistry for every number of users,            *)
(* connections and sending tasks, and every channel capacity.              *)
(***************************************************************************)
EXTENDS ConnectionRegistry, TLAPS, SequenceTheorems, FiniteSetTheorems

-----------------------------------------------------------------------------
(* Type correctness *)

\* An operation's next pc is a pc.
LEMMA GotoType ==
  ASSUME TypeOK, NEW p \in Tasks, NEW l \in {"idle", "conns", "count", "user", "users", "tenant"},
         Goto(p, l)
  PROVE  pc' \in [Tasks -> {"idle", "conns", "count", "user", "users", "tenant"}]
BY DEF Goto, TypeOK

\* The end of an operation.
LEMMA ReturnType ==
  ASSUME TypeOK, NEW p \in Tasks, Return(p)
  PROVE  /\ pc' \in [Tasks -> {"idle", "conns", "count", "user", "users", "tenant"}]
         /\ life' \in [Conns -> {"new", "open", "shutting", "closing", "gone"}]
BY DEF Return, Goto, TypeOK

\* Each variable keeps its type, and no channel exceeds its capacity.
THEOREM TypeCorrect == Spec => []TypeOK
<1>1. Init => TypeOK
  <2> SUFFICES ASSUME Init PROVE TypeOK
    OBVIOUS
  <2>1. queue \in [Conns -> Seq(Senders)] /\ \A c \in Conns : Len(queue[c]) <= Capacity
    BY BoundAssumption DEF Init
  <2>2. sends \in [Senders -> 0 .. MaxSends]
    BY BoundAssumption DEF Init
  <2> QED BY <2>1, <2>2 DEF Init, TypeOK
<1>2. TypeOK /\ [Next]_vars => TypeOK'
  <2> SUFFICES ASSUME TypeOK, [Next]_vars PROVE TypeOK'
    OBVIOUS
  <2>0. Conns \subseteq Tasks /\ Senders \subseteq Tasks
    BY DEF Tasks
  <2>1. ASSUME NEW c \in Conns, Insert(c) PROVE TypeOK'
    BY <2>1, UserAssumption DEF Insert, Enter, TypeOK, sending
  <2>2. ASSUME NEW c \in Conns, Write(c) PROVE TypeOK'
    <3>1. /\ Tail(queue[c]) \in Seq(Senders)
          /\ Len(Tail(queue[c])) = Len(queue[c]) - 1
      BY <2>2, HeadTailProperties DEF Write, Deliver, WriteFails, TypeOK
    <3>2. Len(Tail(queue[c])) <= Capacity
      BY <3>1, BoundAssumption, LenProperties DEF TypeOK
    <3>3. queue' \in [Conns -> Seq(Senders)] /\ \A d \in Conns : Len(queue'[d]) <= Capacity
      BY <2>2, <3>1, <3>2 DEF Write, Deliver, WriteFails, TypeOK
    <3> QED BY <2>2, <3>3 DEF Write, Deliver, WriteFails, Shuts, TypeOK, maps, sending
  <2>3. ASSUME NEW c \in Conns, Drained(c) \/ Disconnect(c) PROVE TypeOK'
    <3>1. << >> \in Seq(Senders) /\ Len(<< >>) <= Capacity
      BY BoundAssumption
    <3>2. queue' \in [Conns -> Seq(Senders)] /\ \A d \in Conns : Len(queue'[d]) <= Capacity
      BY <2>3, <3>1 DEF Drained, Disconnect, TypeOK
    <3> QED BY <2>3, <3>2 DEF Drained, Shuts, Disconnect, TypeOK, maps, sending
  <2>4. ASSUME NEW c \in Conns, Remove(c) PROVE TypeOK'
    <3>1. CASE RemoveGet(c)
      BY <2>0, <3>1, GotoType, ReturnType DEF RemoveGet, TypeOK, maps, sending
    <3>2. CASE RemoveConn(c)
      BY <2>0, <3>2, GotoType DEF RemoveConn, TypeOK, sending
    <3>3. CASE RemoveCount(c)
      BY <2>0, <3>3, GotoType DEF RemoveCount, TypeOK, maps, sending
    <3>4. CASE RemoveUser(c)
      BY <2>0, <3>4, GotoType DEF RemoveUser, DropUser, TypeOK, sending
    <3>5. CASE RemoveUsers(c)
      BY <2>0, <3>5, GotoType, ReturnType DEF RemoveUsers, TypeOK, maps, sending
    <3>6. CASE RemoveTenant(c)
      BY <2>0, <3>6, ReturnType DEF RemoveTenant, TypeOK, sending
    <3> QED BY <2>4, <3>1, <3>2, <3>3, <3>4, <3>5, <3>6 DEF Remove
  <2>5. ASSUME NEW s \in Senders, Send(s) PROVE TypeOK'
    <3>1. ASSUME NEW c \in Conns, SendOk(s, c) PROVE TypeOK'
      <4>1. /\ Append(queue[c], s) \in Seq(Senders)
            /\ Len(Append(queue[c], s)) = Len(queue[c]) + 1
        BY AppendProperties DEF TypeOK
      <4>2. Len(queue[c]) \in Nat /\ Len(queue[c]) < Capacity
        BY <3>1, LenProperties DEF TypeOK, SendOk
      <4>3. Len(Append(queue[c], s)) <= Capacity
        BY <4>1, <4>2, BoundAssumption
      <4>4. queue' \in [Conns -> Seq(Senders)]
            /\ \A d \in Conns : Len(queue'[d]) <= Capacity
        BY <3>1, <4>1, <4>3 DEF SendOk, TypeOK
      <4> QED BY <3>1, <4>4 DEF SendOk, Visit, TypeOK, maps
    <3>2. ASSUME NEW c \in Conns, SendFull(s, c) PROVE TypeOK'
      BY <3>2 DEF SendFull, Visit, TypeOK, maps
    <3>3. ASSUME NEW c \in Conns, SendClosed(s, c) PROVE TypeOK'
      BY <3>3 DEF SendClosed, Visit, TypeOK, maps
    <3>4. ASSUME NEW c \in Conns, Evict(s, c) PROVE TypeOK'
      BY <3>4 DEF Evict, TypeOK
    <3>5. CASE Evicted(s)
      BY <2>0, <3>5, GotoType DEF Evicted, TypeOK, maps, sending
    <3>6. CASE SendCount(s)
      <4>1. pc' \in [Tasks -> {"idle", "conns", "count", "user", "users", "tenant"}]
        BY <2>0, <3>6, GotoType DEF SendCount, CountThen, SendReturn
      <4>2. /\ target' \in [Senders -> Users \cup {NoUser}]
            /\ visited' \in [Senders -> SUBSET Conns]
        BY <3>6 DEF SendCount, CountThen, SendReturn, TypeOK
      <4> QED BY <3>6, <4>1, <4>2 DEF SendCount, CountThen, TypeOK, maps
    <3>7. CASE SendUser(s)
      BY <2>0, <3>7, GotoType DEF SendUser, DropUser, SendReturn, TypeOK
    <3> QED BY <2>5, <3>1, <3>2, <3>3, <3>4, <3>5, <3>6, <3>7 DEF Send, Try
  <2>6. ASSUME NEW s \in Senders, NEW u \in Users, SendGet(s, u) PROVE TypeOK'
    <3>1. sends' \in [Senders -> 0 .. MaxSends]
      BY <2>6, BoundAssumption DEF SendGet, TypeOK
    <3>2. /\ pc' \in [Tasks -> {"idle", "conns", "count", "user", "users", "tenant"}]
          /\ target' \in [Senders -> Users \cup {NoUser}]
      BY <2>0, <2>6, GotoType DEF SendGet, TypeOK
    <3> QED BY <2>6, <3>1, <3>2 DEF SendGet, TypeOK, maps
  <2>7. CASE UNCHANGED vars
    BY <2>7 DEF vars, maps, sending, TypeOK
  <2> QED
    BY <2>1, <2>2, <2>3, <2>4, <2>5, <2>6, <2>7 DEF Next
<1> QED BY <1>1, <1>2, PTL DEF Spec

-----------------------------------------------------------------------------
(* The collection of user entries *)

\* Between the test that found a user without connections and the removal of
\* the entry, the user stays without connections: the task holds a guard of
\* the tenant's entry, and insert needs that entry for itself.
UserStaysEmpty ==
    \A p \in Tasks : pc[p] = "user" => \A c \in conns : UserOf[c] # UserOfTask(p)

\* A step of a task that adds no connection keeps it, unless that task comes
\* to its removal.
LEMMA NoNewConnection ==
  ASSUME TypeOK, UserStaysEmpty, NEW q \in Tasks,
         conns' \subseteq conns,
         \A p \in Tasks : p # q => pc'[p] = pc[p] /\ UserOfTask(p)' = UserOfTask(p),
         pc'[q] = "user" => \A c \in conns' : UserOf[c] # UserOfTask(q)'
  PROVE  UserStaysEmpty'
BY DEF UserStaysEmpty

\* A step that leaves all operations where they are.
LEMMA OperationsIdle ==
  ASSUME UserStaysEmpty, conns' \subseteq conns, UNCHANGED <<pc, target>>
  PROVE  UserStaysEmpty'
BY DEF UserStaysEmpty, UserOfTask

\* The step of one task leaves the pc and the target of the others.
LEMMA UserInductive ==
  ASSUME TypeOK, UserStaysEmpty, [Next]_vars
  PROVE  UserStaysEmpty'
<1>0. Conns \subseteq Tasks /\ Senders \subseteq Tasks
      /\ \A s \in Senders : s \notin Conns
  BY TaskAssumption DEF Tasks
<1> USE DEF TypeOK
<1>1. ASSUME NEW c \in Conns, Insert(c) PROVE UserStaysEmpty'
  <2>1. \A p \in Tasks : pc[p] # "user"
    BY <1>1 DEF Insert, Enter, TenantFree, HoldsTenant
  <2>2. pc' = pc
    BY <1>1 DEF Insert, Enter
  <2> QED BY <2>1, <2>2 DEF UserStaysEmpty
<1>2. ASSUME NEW c \in Conns, Write(c) \/ Drained(c) \/ Disconnect(c) PROVE UserStaysEmpty'
  BY <1>2, OperationsIdle DEF Write, Deliver, WriteFails, Drained, Shuts, Disconnect, maps, sending
<1>3. ASSUME NEW c \in Conns, Remove(c) PROVE UserStaysEmpty'
  <2>1. /\ conns' \subseteq conns
        /\ target' = target
        /\ \A p \in Tasks : p # c => pc'[p] = pc[p]
    BY <1>3 DEF Remove, RemoveGet, RemoveConn, RemoveCount, RemoveUser, RemoveUsers,
       RemoveTenant, Return, Goto, DropUser, maps, sending
  <2>2. \A p \in Tasks : UserOfTask(p)' = UserOfTask(p)
    BY <2>1 DEF UserOfTask
  <2>3. ASSUME pc'[c] = "user" PROVE RemoveCount(c) /\ ConnsOf(UserOf[c]) = {}
    BY <1>0, <1>3, <2>3 DEF Remove, RemoveGet, RemoveConn, RemoveCount, RemoveUser,
       RemoveUsers, RemoveTenant, Return, Goto
  <2>4. ASSUME pc'[c] = "user" PROVE \A d \in conns' : UserOf[d] # UserOfTask(c)'
    BY <2>1, <2>3, <2>4 DEF ConnsOf, UserOfTask
  <2> QED BY <1>0, <2>1, <2>2, <2>4, NoNewConnection
<1>4. ASSUME NEW s \in Senders, Send(s) PROVE UserStaysEmpty'
  <2>1. /\ conns' \subseteq conns
        /\ \A r \in Senders : r # s => target'[r] = target[r]
        /\ \A p \in Tasks : p # s => pc'[p] = pc[p]
    BY <1>4 DEF Send, Try, Visit, SendOk, SendFull, SendClosed, Evict, Evicted, SendCount,
       CountThen, SendUser, SendReturn, Goto, DropUser, maps, sending
  <2>2. \A p \in Tasks : p # s => UserOfTask(p)' = UserOfTask(p)
    BY <2>1 DEF UserOfTask, Tasks
  <2>3. CASE SendCount(s)
    <3>1. ASSUME pc'[s] = "user" PROVE \A d \in conns' : UserOf[d] # UserOfTask(s)'
      <4>1. ConnsOf(target[s]) = {} /\ target' = target /\ conns' = conns
        BY <1>0, <2>3, <3>1 DEF SendCount, CountThen, SendReturn, Goto, maps
      <4> QED BY <1>0, <4>1 DEF ConnsOf, UserOfTask
    <3> QED BY <1>0, <2>1, <2>2, <3>1, NoNewConnection
  <2>4. CASE ~SendCount(s)
    <3>1. pc'[s] # "user"
      BY <1>0, <1>4, <2>4 DEF Send, Try, Visit, SendOk, SendFull, SendClosed, Evict,
         Evicted, SendUser, SendReturn, Goto
    <3> QED BY <1>0, <2>1, <2>2, <3>1, NoNewConnection
  <2> QED BY <2>3, <2>4
<1>5. ASSUME NEW s \in Senders, NEW u \in Users, SendGet(s, u) PROVE UserStaysEmpty'
  <2>1. /\ conns' \subseteq conns
        /\ \A r \in Senders : r # s => target'[r] = target[r]
        /\ \A p \in Tasks : p # s => pc'[p] = pc[p]
        /\ pc'[s] # "user"
    BY <1>0, <1>5 DEF SendGet, Goto, maps
  <2>2. \A p \in Tasks : p # s => UserOfTask(p)' = UserOfTask(p)
    BY <2>1 DEF UserOfTask, Tasks
  <2> QED BY <1>0, <2>1, <2>2, NoNewConnection
<1>6. CASE UNCHANGED vars
  BY <1>6, OperationsIdle DEF vars, maps, sending
<1> QED
  BY <1>1, <1>2, <1>3, <1>4, <1>5, <1>6 DEF Next

\* However the operations of any number of tasks interleave, the collection of
\* user entries never takes a live connection out of the registry.
THEOREM UserGcIsSafe == Spec => UserGcSafe
<1> DEFINE Safe == \A c \in conns \ conns' : tenantMap' => Cause(c)
<1>1. Init => UserStaysEmpty
  BY DEF Init, UserStaysEmpty
<1>2. TypeOK /\ UserStaysEmpty /\ [Next]_vars => UserStaysEmpty'
  BY UserInductive
<1>3. TypeOK /\ UserStaysEmpty /\ [Next]_vars => [Safe]_vars
  <2> SUFFICES ASSUME TypeOK, UserStaysEmpty, Next,
                      NEW c \in conns, c \notin conns', tenantMap'
               PROVE  Cause(c)
    OBVIOUS
  <2>0. Conns \subseteq Tasks /\ Senders \subseteq Tasks
        /\ \A s \in Senders : s \notin Conns
    BY TaskAssumption DEF Tasks
  <2>1. ASSUME NEW d \in Conns, Remove(d) PROVE Cause(c)
    <3>1. CASE RemoveConn(d)
      BY <3>1 DEF RemoveConn, Cause
    <3>2. CASE RemoveUser(d)
      <4>1. UserOf[c] = UserOf[d] /\ pc[d] = "user"
        BY <3>2 DEF RemoveUser, DropUser, ConnsOf
      <4> QED BY <2>0, <4>1 DEF UserStaysEmpty, UserOfTask
    <3>3. CASE RemoveTenant(d)
      BY <3>3 DEF RemoveTenant
    <3> QED BY <2>1, <3>1, <3>2, <3>3
            DEF Remove, RemoveGet, RemoveCount, RemoveUsers, maps
  <2>2. ASSUME NEW s \in Senders, Send(s) PROVE Cause(c)
    <3>1. ASSUME NEW d \in Conns, Evict(s, d) PROVE Cause(c)
      BY <3>1 DEF Evict, Cause
    <3>2. CASE SendUser(s)
      <4>1. UserOf[c] = target[s] /\ pc[s] = "user"
        BY <3>2 DEF SendUser, DropUser, ConnsOf
      <4> QED BY <2>0, <4>1 DEF UserStaysEmpty, UserOfTask
    <3> QED BY <2>2, <3>1, <3>2
            DEF Send, Try, Visit, SendOk, SendFull, SendClosed, Evicted, SendCount,
                CountThen, maps
  <2> QED
    BY <2>1, <2>2 DEF Next, Insert, Enter, Write, Deliver, WriteFails, Drained, Disconnect, SendGet, maps
<1>4. UserGcSafe <=> [][Safe]_vars
  BY DEF UserGcSafe
<1> QED BY <1>1, <1>2, <1>3, <1>4, TypeCorrect, PTL DEF Spec

-----------------------------------------------------------------------------
(* What a slow client has received has no gap *)

\* A registered connection has been inserted.
Inserted == \A c \in conns : life[c] # "new"

\* A connection that missed a message of a sender is out of the registry, for
\* good, or the sender is about to evict it and will not visit it again.
MissedIsLeaving ==
    \A c \in Conns, s \in Senders : s \in missed[c] =>
        /\ life[c] # "new"
        /\ c \in conns => pc[s] = "conns" /\ c \in stale[s] /\ c \in visited[s]

GapInv == Inserted /\ MissedIsLeaving

LEMMA GapInductive ==
  ASSUME TypeOK, GapInv, [Next]_vars
  PROVE  GapInv'
<1>0. Conns \subseteq Tasks /\ Senders \subseteq Tasks
      /\ \A s \in Senders : s \notin Conns
  BY TaskAssumption DEF Tasks
<1> USE DEF TypeOK, GapInv, Inserted, MissedIsLeaving
<1>1. ASSUME NEW c \in Conns, Insert(c) PROVE GapInv'
  BY <1>1 DEF Insert, Enter, sending
<1>2. ASSUME NEW c \in Conns, Write(c) \/ Drained(c) \/ Disconnect(c) PROVE GapInv'
  BY <1>2 DEF Write, Deliver, WriteFails, Drained, Shuts, Disconnect, maps, sending
<1>3. ASSUME NEW c \in Conns, Remove(c) PROVE GapInv'
  <2>1. /\ conns' \subseteq conns
        /\ UNCHANGED <<stale, visited, missed>>
        /\ \A d \in Conns : life[d] # "new" => life'[d] # "new"
        /\ \A s \in Senders : pc'[s] = pc[s]
    BY <1>0, <1>3 DEF Remove, RemoveGet, RemoveConn, RemoveCount, RemoveUser, RemoveUsers,
       RemoveTenant, Return, Goto, DropUser, maps, sending
  <2> QED BY <2>1
<1>4. ASSUME NEW s \in Senders, Send(s) PROVE GapInv'
  <2>0. \A r \in Senders : r # s =>
           pc'[r] = pc[r] /\ visited'[r] = visited[r] /\ stale'[r] = stale[r]
    BY <1>0, <1>4 DEF Send, Try, Visit, SendOk, SendFull, SendClosed, Evict, Evicted,
       SendCount, CountThen, SendUser, SendReturn, Goto, sending
  <2>1. ASSUME NEW c \in Conns, SendOk(s, c) \/ SendClosed(s, c) PROVE GapInv'
    <3>1. /\ UNCHANGED <<conns, life, pc, missed>>
          /\ stale[s] \subseteq stale'[s] /\ visited[s] \subseteq visited'[s]
      BY <2>1 DEF SendOk, SendClosed, Visit, maps
    <3>2. \A r \in Senders : stale[r] \subseteq stale'[r] /\ visited[r] \subseteq visited'[r]
      BY <2>0, <3>1
    <3> QED BY <3>1, <3>2
  <2>2. ASSUME NEW c \in Conns, SendFull(s, c) PROVE GapInv'
    <3>1. c \in conns /\ life' = life /\ conns' = conns /\ pc' = pc /\ pc[s] = "conns"
      BY <2>2 DEF SendFull, Visit, ToVisit, ConnsOf, maps
    <3>2. /\ c \in stale'[s] /\ c \in visited'[s]
          /\ stale[s] \subseteq stale'[s] /\ visited[s] \subseteq visited'[s]
          /\ missed' = [missed EXCEPT ![c] = @ \cup {s}]
      BY <2>2 DEF SendFull, Visit
    <3> QED BY <2>0, <3>1, <3>2
  <2>3. ASSUME NEW c \in Conns, Evict(s, c) PROVE GapInv'
    BY <2>0, <2>3 DEF Evict
  <2>4. CASE Evicted(s) \/ SendCount(s) \/ SendUser(s)
    <3>1. /\ UNCHANGED <<life, missed, stale>> /\ conns' \subseteq conns
          /\ pc[s] = "conns" => stale[s] = {}
      BY <2>4 DEF Evicted, SendCount, CountThen, SendUser, DropUser, maps, sending
    <3> QED BY <2>0, <3>1
  <2> QED BY <1>4, <2>1, <2>2, <2>3, <2>4 DEF Send, Try
<1>5. ASSUME NEW s \in Senders, NEW u \in Users, SendGet(s, u) PROVE GapInv'
  <2>1. /\ UNCHANGED <<life, missed, conns, stale, visited>>
        /\ pc[s] = "idle"
        /\ \A r \in Senders : r # s => pc'[r] = pc[r]
    BY <1>0, <1>5 DEF SendGet, Goto, maps
  <2> QED BY <2>1
<1>6. CASE UNCHANGED vars
  BY <1>6 DEF vars, maps, sending
<1> QED
  BY <1>1, <1>2, <1>3, <1>4, <1>5, <1>6 DEF Next

\* Appending to a channel lengthens it by its last element.
LEMMA AppendOnce ==
  ASSUME NEW q \in Seq(Senders), NEW r \in Senders, NEW s \in Senders
  PROVE  /\ q # Append(q, s)
         /\ << >> # Append(q, s)
         /\ q # << >> => Tail(q) # Append(q, s)
         /\ Append(q, r) = Append(q, s) => r = s
<1>1. /\ Len(q) \in Nat /\ Len(Append(q, s)) = Len(q) + 1
      /\ Append(q, s)[Len(q) + 1] = s /\ Append(q, r)[Len(q) + 1] = r
  BY LenProperties, AppendProperties
<1>2. q # << >> => Len(Tail(q)) = Len(q) - 1
  BY HeadTailProperties
<1>3. Len(<< >>) = 0
  OBVIOUS
<1> QED BY <1>1, <1>2, <1>3

\* Whatever the capacity and however senders interleave with the send task and
\* with each other, no message of a sender follows one the channel refused.
THEOREM NoGapHolds == Spec => NoGap
<1> DEFINE Gapless ==
      \A c \in Conns, s \in Senders :
          s \in missed[c] => queue'[c] # Append(queue[c], s)
<1>1. Init => GapInv
  BY DEF Init, GapInv, Inserted, MissedIsLeaving
<1>2. TypeOK /\ GapInv /\ [Next]_vars => GapInv'
  BY GapInductive
<1>3. TypeOK /\ GapInv /\ [Next]_vars => [Gapless]_vars
  <2> SUFFICES ASSUME TypeOK, GapInv, Next, NEW c \in Conns, NEW s \in Senders,
                      s \in missed[c]
               PROVE  queue'[c] # Append(queue[c], s)
    OBVIOUS
  <2>0. queue[c] \in Seq(Senders)
    BY DEF TypeOK
  <2>1. ASSUME queue'[c] = queue[c] PROVE queue'[c] # Append(queue[c], s)
    BY <2>0, <2>1, AppendOnce
  <2>2. ASSUME NEW d \in Conns, Insert(d) \/ Remove(d)
        PROVE  queue'[c] # Append(queue[c], s)
    BY <2>1, <2>2 DEF Insert, Enter, Remove, RemoveGet, RemoveConn, RemoveCount, RemoveUser,
       RemoveUsers, RemoveTenant
  <2>3. ASSUME NEW d \in Conns, Write(d) \/ Drained(d) \/ Disconnect(d)
        PROVE  queue'[c] # Append(queue[c], s)
    <3>1. \/ queue'[c] = queue[c]
          \/ queue'[c] = << >>
          \/ queue[c] # << >> /\ queue'[c] = Tail(queue[c])
      BY <2>3 DEF Write, Deliver, WriteFails, Drained, Shuts, Disconnect, TypeOK
    <3> QED BY <2>0, <3>1, AppendOnce
  <2>4. ASSUME NEW r \in Senders, Send(r) PROVE queue'[c] # Append(queue[c], s)
    <3>1. ASSUME NEW d \in Conns, SendOk(r, d) PROVE queue'[c] # Append(queue[c], s)
      <4>1. CASE c # d
        BY <2>1, <3>1, <4>1 DEF SendOk, TypeOK
      <4>2. CASE c = d
        <5>1. c \in conns /\ c \notin visited[r] /\ queue'[c] = Append(queue[c], r)
          BY <3>1, <4>2 DEF SendOk, Visit, ToVisit, ConnsOf, TypeOK
        <5>2. r # s
          BY <5>1 DEF GapInv, MissedIsLeaving
        <5> QED BY <2>0, <5>1, <5>2, AppendOnce
      <4> QED BY <4>1, <4>2
    <3>2. CASE UNCHANGED queue
      BY <2>1, <3>2
    <3> QED
      BY <2>4, <3>1, <3>2 DEF Send, Try, SendFull, SendClosed, Evict, Evicted, SendCount,
         CountThen, SendUser
  <2>5. ASSUME NEW r \in Senders, NEW u \in Users, SendGet(r, u)
        PROVE  queue'[c] # Append(queue[c], s)
    BY <2>1, <2>5 DEF SendGet
  <2> QED BY <2>2, <2>3, <2>4, <2>5 DEF Next
<1>4. NoGap <=> [][Gapless]_vars
  BY DEF NoGap
<1> QED BY <1>1, <1>2, <1>3, <1>4, TypeCorrect, PTL DEF Spec

-----------------------------------------------------------------------------
(* No entry outlives its connection, and no user's entry its connections *)

\* An entry is reachable: a connection's user has an entry, and so has the
\* tenant of a user.
Reachable ==
    /\ \A c \in conns : UserOf[c] \in users
    /\ users # {} => tenantMap

\* The guard of a connection runs when the connection is over, and once it has
\* come to its own entry, the entry is gone and does not return.
Unregistered ==
    \A c \in Conns :
        /\ pc[c] # "idle" => life[c] = "closing"
        /\ pc[c] \in {"count", "user", "users", "tenant"} => c \notin conns
        /\ life[c] = "gone" => c \notin conns

GoneInv == Reachable /\ Unregistered

LEMMA GoneInductive ==
  ASSUME TypeOK, GoneInv, [Next]_vars
  PROVE  GoneInv'
<1>0. Conns \subseteq Tasks /\ Senders \subseteq Tasks
      /\ \A s \in Senders : s \notin Conns
  BY TaskAssumption DEF Tasks
<1>1. ASSUME NEW c \in Conns, Insert(c) PROVE GoneInv'
  <2>1. Reachable'
    BY <1>1 DEF Insert, Enter, GoneInv, Reachable
  <2>2. Unregistered'
    BY <1>1 DEF Insert, Enter, GoneInv, Unregistered, TypeOK
  <2> QED BY <2>1, <2>2 DEF GoneInv
<1>2. ASSUME NEW c \in Conns, Write(c) \/ Drained(c) \/ Disconnect(c), pc[c] = "idle"
      PROVE  GoneInv'
  <2>1. Reachable'
    BY <1>2 DEF Write, Deliver, WriteFails, Drained, Shuts, Disconnect, maps, GoneInv, Reachable
  <2>2. Unregistered'
    BY <1>2 DEF Write, Deliver, WriteFails, Drained, Shuts, Disconnect, maps, GoneInv, Unregistered, TypeOK
  <2> QED BY <2>1, <2>2 DEF GoneInv
<1>3. ASSUME NEW c \in Conns, Write(c) \/ Drained(c) \/ Disconnect(c) PROVE pc[c] = "idle"
  BY <1>3 DEF Write, Deliver, WriteFails, Drained, Shuts, Disconnect, GoneInv, Unregistered
<1>4. ASSUME NEW c \in Conns, Remove(c) PROVE GoneInv'
  <2>1. ASSUME RemoveGet(c) PROVE GoneInv'
    <3>1. c \notin conns \/ (tenantMap /\ UserOf[c] \in users)
      BY DEF GoneInv, Reachable
    <3>2. Reachable'
      BY <2>1 DEF RemoveGet, maps, GoneInv, Reachable
    <3>3. Unregistered'
      BY <1>0, <2>1, <3>1 DEF RemoveGet, Return, Goto, maps, GoneInv, Unregistered, TypeOK
    <3> QED BY <3>2, <3>3 DEF GoneInv
  <2>2. ASSUME RemoveConn(c) PROVE GoneInv'
    <3>1. Reachable'
      BY <2>2 DEF RemoveConn, GoneInv, Reachable
    <3>2. Unregistered'
      BY <1>0, <2>2 DEF RemoveConn, Goto, GoneInv, Unregistered, TypeOK
    <3> QED BY <3>1, <3>2 DEF GoneInv
  <2>3. ASSUME RemoveCount(c) PROVE GoneInv'
    <3>1. Reachable'
      BY <2>3 DEF RemoveCount, maps, GoneInv, Reachable
    <3>2. Unregistered'
      BY <1>0, <2>3 DEF RemoveCount, Goto, maps, GoneInv, Unregistered, TypeOK
    <3> QED BY <3>1, <3>2 DEF GoneInv
  <2>4. ASSUME RemoveUser(c) PROVE GoneInv'
    <3>1. Reachable'
      BY <2>4 DEF RemoveUser, DropUser, ConnsOf, GoneInv, Reachable
    <3>2. Unregistered'
      BY <1>0, <2>4 DEF RemoveUser, DropUser, Goto, GoneInv, Unregistered, TypeOK
    <3> QED BY <3>1, <3>2 DEF GoneInv
  <2>5. ASSUME RemoveUsers(c) PROVE GoneInv'
    <3>1. Reachable'
      BY <2>5 DEF RemoveUsers, maps, GoneInv, Reachable
    <3>2. Unregistered'
      BY <1>0, <2>5 DEF RemoveUsers, Return, Goto, maps, GoneInv, Unregistered, TypeOK
    <3> QED BY <3>1, <3>2 DEF GoneInv
  <2>6. ASSUME RemoveTenant(c) PROVE GoneInv'
    <3>1. Reachable'
      BY <2>6 DEF RemoveTenant, GoneInv, Reachable
    <3>2. Unregistered'
      BY <1>0, <2>6 DEF RemoveTenant, Return, Goto, GoneInv, Unregistered, TypeOK
    <3> QED BY <3>1, <3>2 DEF GoneInv
  <2> QED BY <1>4, <2>1, <2>2, <2>3, <2>4, <2>5, <2>6 DEF Remove
<1>5. ASSUME NEW s \in Senders, Send(s) \/ (\E u \in Users : SendGet(s, u)) PROVE GoneInv'
  <2>1. /\ life' = life /\ tenantMap' = tenantMap /\ conns' \subseteq conns
        /\ \A c \in Conns : pc'[c] = pc[c]
    BY <1>0, <1>5 DEF TypeOK, Send, Try, Visit, SendOk, SendFull, SendClosed, Evict, Evicted,
       SendCount, CountThen, SendUser, DropUser, SendGet, SendReturn, Goto, maps
  <2>2. /\ users' \subseteq users
        /\ \A c \in conns' : UserOf[c] \in users \ users' => FALSE
    <3>1. CASE SendUser(s)
      BY <3>1 DEF SendUser, DropUser, ConnsOf
    <3>2. CASE ~SendUser(s)
      BY <1>5, <3>2 DEF Send, Try, Visit, SendOk, SendFull, SendClosed, Evict, Evicted,
         SendCount, CountThen, SendGet, maps
    <3> QED BY <3>1, <3>2
  <2>3. Reachable'
    BY <2>1, <2>2 DEF GoneInv, Reachable
  <2>4. Unregistered'
    BY <2>1 DEF GoneInv, Unregistered
  <2> QED BY <2>3, <2>4 DEF GoneInv
<1>6. CASE UNCHANGED vars
  BY <1>6 DEF vars, maps, GoneInv, Reachable, Unregistered
<1> QED
  BY <1>1, <1>2, <1>3, <1>4, <1>5, <1>6 DEF Next

\* However evictions, collections and the early returns of its guard
\* interleave, the registry forgets a connection that is over.
THEOREM GoneHolds == Spec => []GoneIsUnregistered
<1>1. Init => GoneInv
  BY DEF Init, GoneInv, Reachable, Unregistered, Tasks
<1>2. TypeOK /\ GoneInv /\ [Next]_vars => GoneInv'
  BY GoneInductive
<1>3. GoneInv => GoneIsUnregistered
  BY DEF GoneInv, Unregistered, GoneIsUnregistered
<1> QED BY <1>1, <1>2, <1>3, TypeCorrect, PTL DEF Spec

Collecting(p, u) == pc[p] \in {"conns", "count", "user"} /\ UserOfTask(p) = u

\* A user whose last connection went has a task on the way to its entry; what a
\* sender will evict are connections of its target.
Collected ==
    /\ \A u \in users : ConnsOf(u) = {} => \E p \in Tasks : Collecting(p, u)
    /\ \A s \in Senders :
        /\ pc[s] # "conns" => stale[s] = {}
        /\ \A c \in stale[s] : UserOf[c] = target[s]

\* A step of task q leaves the others on their way: it is enough that a user
\* it is not collecting afterwards was without connections before and was not
\* being collected by it.
LEMMA OthersCollect ==
  ASSUME Collected, NEW q \in Tasks,
         \A p \in Tasks : p # q => pc'[p] = pc[p] /\ UserOfTask(p)' = UserOfTask(p),
         \A u \in users' : ConnsOf(u)' = {} /\ ~Collecting(q, u)' =>
             u \in users /\ ConnsOf(u) = {} /\ ~Collecting(q, u)
  PROVE  \A u \in users' : ConnsOf(u)' = {} => \E p \in Tasks : Collecting(p, u)'
<1> SUFFICES ASSUME NEW u \in users', ConnsOf(u)' = {}, ~Collecting(q, u)'
             PROVE  \E p \in Tasks : Collecting(p, u)'
  OBVIOUS
<1>1. PICK p \in Tasks : Collecting(p, u)
  BY DEF Collected
<1>2. p # q
  BY <1>1
<1> QED BY <1>1, <1>2 DEF Collecting

LEMMA CollectedInductive ==
  ASSUME TypeOK, Collected, [Next]_vars
  PROVE  Collected'
<1> DEFINE Entries == \A u \in users : ConnsOf(u) = {} => \E p \in Tasks : Collecting(p, u)
           Stale == \A s \in Senders :
                      /\ pc[s] # "conns" => stale[s] = {}
                      /\ \A c \in stale[s] : UserOf[c] = target[s]
<1>0. Conns \subseteq Tasks /\ Senders \subseteq Tasks
      /\ \A s \in Senders : s \notin Conns
  BY TaskAssumption DEF Tasks
<1>1. ASSUME NEW c \in Conns, Insert(c) PROVE Collected'
  <2>1. Stale'
    BY <1>1 DEF Insert, Enter, sending, Collected
  <2>2. ASSUME NEW u \in users', ConnsOf(u)' = {} PROVE u \in users /\ ConnsOf(u) = {}
    BY <1>1, <2>2 DEF Insert, Enter, ConnsOf
  <2>3. \A p \in Tasks, u \in users : Collecting(p, u)' <=> Collecting(p, u)
    BY <1>1 DEF Insert, Enter, sending, Collecting, UserOfTask
  <2>4. Entries'
    BY <2>2, <2>3 DEF Collected
  <2> QED BY <2>1, <2>4 DEF Collected
<1>2. ASSUME NEW c \in Conns, Write(c) \/ Drained(c) \/ Disconnect(c) PROVE Collected'
  BY <1>2 DEF Write, Deliver, WriteFails, Drained, Shuts, Disconnect, maps, sending, Collected, ConnsOf, Collecting, UserOfTask
<1>3. ASSUME NEW c \in Conns, Remove(c) PROVE Collected'
  <2>1. /\ target' = target /\ stale' = stale
        /\ \A p \in Tasks : p # c => pc'[p] = pc[p]
    BY <1>3 DEF TypeOK, Remove, RemoveGet, RemoveConn, RemoveCount, RemoveUser, RemoveUsers,
       RemoveTenant, Return, Goto, DropUser, maps, sending
  <2>2. \A p \in Tasks : UserOfTask(p)' = UserOfTask(p)
    BY <2>1 DEF UserOfTask
  <2>3. Stale'
    BY <1>0, <2>1 DEF Collected
  <2>4. ASSUME NEW u \in users', ConnsOf(u)' = {}, ~Collecting(c, u)'
        PROVE  u \in users /\ ConnsOf(u) = {} /\ ~Collecting(c, u)
    <3>0. UserOfTask(c) = UserOf[c] /\ UserOfTask(c)' = UserOf[c] /\ pc \in [Tasks -> {"idle", "conns", "count", "user", "users", "tenant"}]
      BY <2>2 DEF UserOfTask, TypeOK
    <3>1. CASE RemoveGet(c)
      <4>1. users' = users /\ conns' = conns /\ pc[c] = "idle"
        BY <3>1 DEF RemoveGet, maps
      <4> QED BY <2>4, <4>1 DEF Collecting, ConnsOf
    <3>2. CASE RemoveConn(c)
      <4>1. users' = users /\ conns' = conns \ {c} /\ pc'[c] = "count"
        BY <1>0, <3>0, <3>2 DEF RemoveConn, Goto
      <4>2. UserOf[c] # u
        BY <2>4, <3>0, <4>1 DEF Collecting
      <4> QED BY <2>4, <3>0, <4>1, <4>2 DEF Collecting, ConnsOf
    <3>3. CASE RemoveCount(c)
      <4>1. users' = users /\ conns' = conns
            /\ (ConnsOf(UserOf[c]) = {} => pc'[c] = "user")
        BY <1>0, <3>0, <3>3 DEF RemoveCount, Goto, maps
      <4>2. ConnsOf(u) = {}
        BY <2>4, <4>1 DEF ConnsOf
      <4>3. UserOf[c] # u
        BY <2>4, <3>0, <4>1, <4>2 DEF Collecting
      <4> QED BY <3>0, <4>1, <4>2, <4>3 DEF Collecting
    <3>4. CASE RemoveUser(c)
      <4>1. users' = users \ {UserOf[c]} /\ conns' = conns \ ConnsOf(UserOf[c])
        BY <3>4 DEF RemoveUser, DropUser
      <4>2. UserOf[c] # u
        BY <4>1
      <4> QED BY <2>4, <3>0, <4>1, <4>2 DEF Collecting, ConnsOf
    <3>5. CASE RemoveUsers(c)
      <4>1. users' = users /\ conns' = conns /\ pc[c] = "users"
        BY <3>5 DEF RemoveUsers, maps
      <4> QED BY <2>4, <4>1 DEF Collecting, ConnsOf
    <3>6. CASE RemoveTenant(c)
      BY <3>6 DEF RemoveTenant
    <3> QED BY <1>3, <3>1, <3>2, <3>3, <3>4, <3>5, <3>6 DEF Remove
  <2>5. Entries'
    BY <1>0, <2>1, <2>2, <2>4, OthersCollect
  <2> QED BY <2>3, <2>5 DEF Collected
<1>4. ASSUME NEW s \in Senders, Send(s) PROVE Collected'
  <2>1. /\ \A r \in Senders : r # s =>
              target'[r] = target[r] /\ stale'[r] = stale[r] /\ pc'[r] = pc[r]
        /\ \A p \in Tasks : p # s => pc'[p] = pc[p]
    BY <1>0, <1>4 DEF TypeOK, Send, Try, Visit, SendOk, SendFull, SendClosed, Evict, Evicted,
       SendCount, CountThen, SendUser, SendReturn, Goto, DropUser, maps, sending
  <2>2. \A p \in Tasks : p # s => UserOfTask(p)' = UserOfTask(p)
    BY <2>1 DEF UserOfTask, Tasks
  <2>3. UserOfTask(s) = target[s] /\ UserOfTask(s)' = target'[s]
        /\ pc \in [Tasks -> {"idle", "conns", "count", "user", "users", "tenant"}]
    BY <1>0 DEF UserOfTask, TypeOK
  <2>4. ASSUME NEW c \in Conns, Try(s, c) PROVE Collected'
    <3>1. UNCHANGED <<users, conns, pc, target>> /\ pc[s] = "conns" /\ UserOf[c] = target[s]
          /\ stale'[s] \subseteq stale[s] \cup {c}
      BY <2>4 DEF Try, SendOk, SendFull, SendClosed, Visit, ToVisit, ConnsOf, maps, TypeOK
    <3>2. Entries'
      BY <3>1 DEF Collected, ConnsOf, Collecting, UserOfTask
    <3>3. Stale'
      BY <2>1, <3>1 DEF Collected
    <3> QED BY <3>2, <3>3 DEF Collected
  <2>5. ASSUME NEW c \in Conns, Evict(s, c) PROVE Collected'
    <3>1. UNCHANGED <<users, pc, target>> /\ pc[s] = "conns" /\ UserOf[c] = target[s]
          /\ conns' = conns \ {c} /\ stale'[s] \subseteq stale[s]
      BY <2>5 DEF Evict, Collected, TypeOK
    <3>2. ASSUME NEW u \in users', ConnsOf(u)' = {}, ~Collecting(s, u)'
          PROVE  u \in users /\ ConnsOf(u) = {} /\ ~Collecting(s, u)
      <4>1. UserOf[c] # u
        BY <2>3, <3>1, <3>2 DEF Collecting
      <4> QED BY <2>3, <3>1, <3>2, <4>1 DEF Collecting, ConnsOf
    <3>3. Entries'
      BY <1>0, <2>1, <2>2, <3>2, OthersCollect
    <3>4. Stale'
      BY <2>1, <3>1 DEF Collected
    <3> QED BY <3>3, <3>4 DEF Collected
  <2>6. ASSUME Evicted(s) PROVE Collected'
    <3>1. UNCHANGED <<users, conns, target, stale>> /\ pc'[s] = "count" /\ stale[s] = {}
      BY <1>0, <2>3, <2>6 DEF Evicted, Goto, maps, sending
    <3>2. ASSUME NEW u \in users', ConnsOf(u)' = {}, ~Collecting(s, u)'
          PROVE  u \in users /\ ConnsOf(u) = {} /\ ~Collecting(s, u)
      BY <2>3, <3>1, <3>2 DEF Collecting, ConnsOf
    <3>3. Entries'
      BY <1>0, <2>1, <2>2, <3>2, OthersCollect
    <3>4. Stale'
      BY <2>1, <3>1 DEF Collected
    <3> QED BY <3>3, <3>4 DEF Collected
  <2>7. ASSUME SendCount(s) PROVE Collected'
    <3>1. UNCHANGED <<users, conns, stale>> /\ pc[s] = "count"
          /\ pc'[s] # "conns"
          /\ (ConnsOf(target[s]) = {} => pc'[s] = "user" /\ target' = target)
      BY <1>0, <2>3, <2>7 DEF SendCount, CountThen, SendReturn, Goto, maps
    <3>2. stale[s] = {}
      BY <3>1 DEF Collected
    <3>3. ASSUME NEW u \in users', ConnsOf(u)' = {}, ~Collecting(s, u)'
          PROVE  u \in users /\ ConnsOf(u) = {} /\ ~Collecting(s, u)
      <4>1. u \in users /\ ConnsOf(u) = {}
        BY <3>1, <3>3 DEF ConnsOf
      <4>2. target[s] # u
        BY <2>3, <3>1, <3>3, <4>1 DEF Collecting
      <4> QED BY <2>3, <4>1, <4>2 DEF Collecting
    <3>4. Entries'
      BY <1>0, <2>1, <2>2, <3>3, OthersCollect
    <3>5. Stale'
      BY <2>1, <3>1, <3>2 DEF Collected
    <3> QED BY <3>4, <3>5 DEF Collected
  <2>8. ASSUME SendUser(s) PROVE Collected'
    <3>1. stale' = stale /\ pc[s] = "user"
          /\ users' = users \ {target[s]} /\ conns' = conns \ ConnsOf(target[s])
      BY <2>8 DEF SendUser, DropUser
    <3>2. stale[s] = {}
      BY <3>1 DEF Collected
    <3>3. ASSUME NEW u \in users', ConnsOf(u)' = {}, ~Collecting(s, u)'
          PROVE  u \in users /\ ConnsOf(u) = {} /\ ~Collecting(s, u)
      <4>1. target[s] # u
        BY <3>1
      <4> QED BY <2>3, <3>1, <3>3, <4>1 DEF Collecting, ConnsOf
    <3>4. Entries'
      BY <1>0, <2>1, <2>2, <3>3, OthersCollect
    <3>5. Stale'
      BY <2>1, <3>1, <3>2 DEF Collected
    <3> QED BY <3>4, <3>5 DEF Collected
  <2> QED BY <1>4, <2>4, <2>5, <2>6, <2>7, <2>8 DEF Send
<1>5. ASSUME NEW s \in Senders, NEW u \in Users, SendGet(s, u) PROVE Collected'
  <2>1. /\ UNCHANGED <<users, conns, stale>> /\ pc[s] = "idle"
        /\ \A r \in Senders : r # s => target'[r] = target[r] /\ pc'[r] = pc[r]
        /\ \A p \in Tasks : p # s => pc'[p] = pc[p]
    BY <1>0, <1>5 DEF TypeOK, SendGet, Goto, maps
  <2>2. stale[s] = {}
    BY <2>1 DEF Collected
  <2>3. \A p \in Tasks : p # s => UserOfTask(p)' = UserOfTask(p)
    BY <2>1 DEF UserOfTask, Tasks
  <2>4. ASSUME NEW v \in users', ConnsOf(v)' = {}, ~Collecting(s, v)'
        PROVE  v \in users /\ ConnsOf(v) = {} /\ ~Collecting(s, v)
    BY <2>1, <2>4 DEF Collecting, ConnsOf
  <2>5. Entries'
    BY <1>0, <2>1, <2>3, <2>4, OthersCollect
  <2>6. Stale'
    BY <2>1, <2>2 DEF Collected
  <2> QED BY <2>5, <2>6 DEF Collected
<1>6. CASE UNCHANGED vars
  BY <1>6 DEF vars, maps, sending, Collected, ConnsOf, Collecting, UserOfTask
<1> QED
  BY <1>1, <1>2, <1>3, <1>4, <1>5, <1>6 DEF Next

\* However guards and senders take out a user's last connections together, one
\* of them collects the user's entry.
THEOREM NoEmptyUserHolds == Spec => []NoEmptyUser
<1>1. Init => Collected
  BY DEF Init, Collected
<1>2. TypeOK /\ Collected /\ [Next]_vars => Collected'
  BY CollectedInductive
<1>3. Collected => NoEmptyUser
  BY DEF Collected, Collecting, NoEmptyUser
<1> QED BY <1>1, <1>2, <1>3, TypeCorrect, PTL DEF Spec

-----------------------------------------------------------------------------
(* An operation under way gets nearer its end *)

\* However many connections there may be, finitely many have been inserted.
Finite ==
    /\ IsFiniteSet(conns)
    /\ \A s \in Senders : IsFiniteSet(stale[s])

LEMMA FiniteInductive ==
  ASSUME TypeOK, Finite, [Next]_vars
  PROVE  Finite'
<1> USE DEF Finite, TypeOK
<1>1. ASSUME NEW c \in Conns, Insert(c) PROVE Finite'
  BY <1>1, FS_AddElement DEF Insert, Enter, sending
<1>2. ASSUME NEW c \in Conns, Write(c) \/ Drained(c) \/ Disconnect(c) \/ Remove(c) PROVE Finite'
  <2>1. conns' \subseteq conns /\ stale' = stale
    BY <1>2, FS_EmptySet DEF Write, Deliver, WriteFails, Drained, Shuts, Disconnect, Remove, RemoveGet, RemoveConn, RemoveCount,
       RemoveUser, RemoveUsers, RemoveTenant, DropUser, maps, sending
  <2> QED BY <2>1, FS_Subset
<1>3. ASSUME NEW s \in Senders, Send(s) \/ (\E u \in Users : SendGet(s, u)) PROVE Finite'
  <2>1. conns' \subseteq conns
    BY <1>3 DEF Send, Try, Visit, SendOk, SendFull, SendClosed, Evict, Evicted, SendCount,
       CountThen, SendUser, DropUser, SendGet, maps
  <2>2. /\ \A r \in Senders : r # s => stale'[r] = stale[r]
        /\ \/ stale'[s] \subseteq stale[s]
           \/ \E c \in Conns : stale'[s] = stale[s] \cup {c}
    BY <1>3 DEF Send, Try, Visit, SendOk, SendFull, SendClosed, Evict, Evicted, SendCount,
       CountThen, SendUser, SendGet, sending
  <2>3. IsFiniteSet(conns')
    BY <2>1, FS_Subset
  <2>4. IsFiniteSet(stale'[s])
    BY <2>2, FS_Subset, FS_AddElement
  <2> QED BY <2>2, <2>3, <2>4
<1>4. CASE UNCHANGED vars
  BY <1>4 DEF vars, maps, sending
<1> QED BY <1>1, <1>2, <1>3, <1>4 DEF Next

\* What a task has still to do, place by place.
RankIs(p) ==
    /\ Rank(p) \in Nat
    /\ pc[p] = "idle" => Rank(p) = 0
    /\ pc[p] = "tenant" => Rank(p) = 1
    /\ pc[p] = "users" => Rank(p) = 2
    /\ pc[p] = "user" => Rank(p) = 3
    /\ pc[p] = "count" => Rank(p) = 4
    /\ pc[p] = "conns" => Rank(p) >= 5
    /\ pc[p] = "conns" /\ p \in Conns => Rank(p) = 5
    /\ pc[p] = "conns" /\ p \in Senders =>
         /\ Rank(p) = 5 + 2 * Cardinality(ToVisit(p)) + Cardinality(stale[p])
         /\ IsFiniteSet(ToVisit(p)) /\ Cardinality(ToVisit(p)) \in Nat
         /\ IsFiniteSet(stale[p]) /\ Cardinality(stale[p]) \in Nat

Ranked == \A p \in Tasks : RankIs(p)

LEMMA RankValues == TypeOK /\ Finite => Ranked
<1> SUFFICES ASSUME TypeOK, Finite, NEW p \in Tasks
             PROVE  RankIs(p)
  BY DEF Ranked
<1>1. pc[p] \in {"idle", "conns", "count", "user", "users", "tenant"}
  BY DEF TypeOK
<1>2. p \in Conns \/ p \in Senders
  BY DEF Tasks
<1>3. p \in Senders => p \notin Conns
  BY TaskAssumption
<1>4. ASSUME p \in Senders
      PROVE  /\ IsFiniteSet(ToVisit(p)) /\ Cardinality(ToVisit(p)) \in Nat
             /\ IsFiniteSet(stale[p]) /\ Cardinality(stale[p]) \in Nat
  <2>1. ToVisit(p) \subseteq conns
    BY DEF ToVisit, ConnsOf
  <2>2. IsFiniteSet(ToVisit(p)) /\ IsFiniteSet(stale[p])
    BY <1>4, <2>1, FS_Subset DEF Finite
  <2> QED BY <2>2, FS_CardinalityType
<1>5. CASE pc[p] = "conns" /\ p \in Senders
  BY <1>3, <1>4, <1>5 DEF Rank, RankIs
<1>6. CASE ~(pc[p] = "conns" /\ p \in Senders)
  BY <1>1, <1>2, <1>6 DEF Rank, RankIs
<1> QED BY <1>5, <1>6

\* The same of the state after a step.
LEMMA RankNext == TypeOK' /\ Finite' => Ranked'
BY RankValues, PTL

\* A smaller set to be visited is no more to do.
LEMMA FewerToVisit ==
  ASSUME NEW p \in Senders, IsFiniteSet(ToVisit(p)), conns' \subseteq conns,
         target'[p] = target[p], visited[p] \subseteq visited'[p]
  PROVE  /\ ToVisit(p)' \subseteq ToVisit(p)
         /\ Cardinality(ToVisit(p)') <= Cardinality(ToVisit(p))
<1>1. ToVisit(p)' \subseteq ToVisit(p)
  BY DEF ToVisit, ConnsOf
<1> QED BY <1>1, FS_Subset

\* The steps of others leave a task with as much to do, or less.
LEMMA KeepsRank ==
  ASSUME Ranked, Ranked', TypeOK, NEW p \in Tasks,
         pc'[p] = pc[p], pc[p] = "conns" => conns' \subseteq conns,
         p \in Senders => /\ target'[p] = target[p]
                          /\ visited'[p] = visited[p] /\ stale'[p] = stale[p]
  PROVE  Rank(p)' <= Rank(p) /\ Local(p)' = Local(p)
<1>1. Local(p)' = Local(p)
  BY DEF Local
<1>2. RankIs(p) /\ RankIs(p)'
  BY DEF Ranked
<1>3. CASE pc[p] = "conns" /\ p \in Senders
  <2>1. Cardinality(ToVisit(p)') <= Cardinality(ToVisit(p))
    BY <1>2, <1>3, FewerToVisit DEF RankIs
  <2> QED BY <1>1, <1>2, <1>3, <2>1 DEF RankIs
<1>4. CASE ~(pc[p] = "conns" /\ p \in Senders)
  <2>1. /\ pc[p] \in {"idle", "conns", "count", "user", "users", "tenant"}
        /\ p \in Conns \/ p \in Senders
    BY DEF TypeOK, Tasks
  <2> QED BY <1>1, <1>2, <1>4, <2>1 DEF RankIs
<1> QED BY <1>3, <1>4

\* A task's own step leaves it with less to do.
LEMMA RemoveAdvances ==
  ASSUME Ranked, Ranked', TypeOK, NEW c \in Conns, Remove(c), pc[c] # "idle"
  PROVE  Rank(c)' < Rank(c)
<1>1. c \in Tasks /\ RankIs(c) /\ RankIs(c)'
  BY DEF Ranked, Tasks
<1>2. \/ pc[c] = "conns" /\ pc'[c] = "count"
      \/ pc[c] = "count" /\ pc'[c] \in {"user", "users"}
      \/ pc[c] = "user" /\ pc'[c] = "users"
      \/ pc[c] = "users" /\ pc'[c] \in {"tenant", "idle"}
      \/ pc[c] = "tenant" /\ pc'[c] = "idle"
  BY <1>1 DEF TypeOK, Remove, RemoveGet, RemoveConn, RemoveCount, RemoveUser, RemoveUsers,
     RemoveTenant, Return, Goto
<1> QED BY <1>1, <1>2 DEF RankIs

LEMMA SendAdvances ==
  ASSUME Ranked, Ranked', TypeOK, NEW s \in Senders, Send(s)
  PROVE  Rank(s)' < Rank(s)
<1>1. s \in Tasks /\ RankIs(s) /\ RankIs(s)'
  BY DEF Ranked, Tasks
<1>2. ASSUME NEW c \in Conns, Try(s, c) PROVE Rank(s)' < Rank(s)
  <2>1. /\ pc[s] = "conns" /\ pc' = pc /\ conns' = conns /\ target' = target
        /\ c \in ToVisit(s) /\ visited'[s] = visited[s] \cup {c}
        /\ stale'[s] = stale[s] \/ stale'[s] = stale[s] \cup {c}
    BY <1>2 DEF TypeOK, Try, SendOk, SendFull, SendClosed, Visit, maps
  <2>2. ToVisit(s)' = ToVisit(s) \ {c}
    BY <2>1 DEF ToVisit, ConnsOf
  <2>3. Cardinality(ToVisit(s)') = Cardinality(ToVisit(s)) - 1
    BY <1>1, <2>1, <2>2, FS_RemoveElement DEF RankIs
  <2>4. Cardinality(stale'[s]) <= Cardinality(stale[s]) + 1
    BY <1>1, <2>1, FS_AddElement DEF RankIs
  <2> QED BY <1>1, <2>1, <2>3, <2>4 DEF RankIs
<1>3. ASSUME NEW c \in Conns, Evict(s, c) PROVE Rank(s)' < Rank(s)
  <2>1. /\ pc[s] = "conns" /\ pc' = pc /\ conns' \subseteq conns /\ target' = target
        /\ visited' = visited
        /\ c \in stale[s] /\ stale'[s] = stale[s] \ {c}
    BY <1>3 DEF TypeOK, Evict
  <2>2. Cardinality(ToVisit(s)') <= Cardinality(ToVisit(s))
    BY <1>1, <2>1, FewerToVisit DEF RankIs
  <2>3. Cardinality(stale'[s]) = Cardinality(stale[s]) - 1
    BY <1>1, <2>1, FS_RemoveElement DEF RankIs
  <2> QED BY <1>1, <2>1, <2>2, <2>3 DEF RankIs
<1>4. CASE Evicted(s) \/ SendCount(s) \/ SendUser(s)
  <2>1. \/ pc[s] = "conns" /\ pc'[s] = "count"
        \/ pc[s] = "count" /\ pc'[s] \in {"user", "idle"}
        \/ pc[s] = "user" /\ pc'[s] = "idle"
    BY <1>1, <1>4 DEF TypeOK, Evicted, SendCount, CountThen, SendUser, SendReturn, Goto
  <2> QED BY <1>1, <2>1 DEF RankIs
<1> QED BY <1>2, <1>3, <1>4 DEF Send

\* However many connections come and go, and tasks send and collect, no
\* operation has ever more to do than it had, and each of its steps is one of
\* finitely many that are left to it.
THEOREM OpsAdvanceHolds == Spec => OpsAdvance
<1> DEFINE Advance == \A p \in Tasks : pc[p] # "idle" =>
                        /\ Rank(p)' <= Rank(p)
                        /\ Local(p)' # Local(p) => Rank(p)' < Rank(p)
<1>1. Init => Finite
  BY FS_EmptySet DEF Init, Finite
<1>2. TypeOK /\ Finite /\ [Next]_vars => Finite'
  BY FiniteInductive
<1>3. TypeOK /\ TypeOK' /\ Finite /\ [Next]_vars => [Advance]_vars
  <2> SUFFICES ASSUME TypeOK, TypeOK', Finite, Next, NEW p \in Tasks, pc[p] # "idle"
               PROVE  /\ Rank(p)' <= Rank(p)
                      /\ Local(p)' # Local(p) => Rank(p)' < Rank(p)
    OBVIOUS
  <2>0. Conns \subseteq Tasks /\ Senders \subseteq Tasks
        /\ \A s \in Senders : s \notin Conns
    BY TaskAssumption DEF Tasks
  <2>1. Ranked /\ Ranked'
    BY FiniteInductive, RankValues, RankNext
  <2>2. Rank(p) \in Nat /\ Rank(p)' \in Nat
    BY <2>1 DEF Ranked, RankIs
  <2>3. ASSUME NEW c \in Conns, Insert(c) PROVE Rank(p)' <= Rank(p) /\ Local(p)' = Local(p)
    <3>1. pc' = pc /\ sending' = sending /\ pc[p] # "conns"
      BY <2>3 DEF Insert, Enter, TenantFree, HoldsTenant
    <3> QED BY <2>1, <3>1, KeepsRank DEF sending
  <2>4. ASSUME NEW c \in Conns, Write(c) \/ Drained(c) \/ Disconnect(c)
        PROVE  Rank(p)' <= Rank(p) /\ Local(p)' = Local(p)
    <3>1. UNCHANGED <<pc, conns, target, visited, stale>>
      BY <2>4 DEF Write, Deliver, WriteFails, Drained, Shuts, Disconnect, maps, sending
    <3> QED BY <2>1, <3>1, KeepsRank
  <2>5. ASSUME NEW c \in Conns, Remove(c)
        PROVE  Rank(p)' < Rank(p) \/ (Rank(p)' <= Rank(p) /\ Local(p)' = Local(p))
    <3>1. CASE p = c
      BY <2>1, <2>5, <3>1, RemoveAdvances
    <3>2. CASE p # c
      <4>1. /\ conns' \subseteq conns /\ pc'[p] = pc[p]
            /\ UNCHANGED <<target, visited, stale>>
        BY <2>0, <2>5, <3>2 DEF TypeOK, Remove, RemoveGet, RemoveConn, RemoveCount,
           RemoveUser, RemoveUsers, RemoveTenant, Return, Goto, DropUser, maps, sending
      <4> QED BY <2>1, <4>1, KeepsRank
    <3> QED BY <3>1, <3>2
  <2>6. ASSUME NEW s \in Senders, Send(s)
        PROVE  Rank(p)' < Rank(p) \/ (Rank(p)' <= Rank(p) /\ Local(p)' = Local(p))
    <3>1. CASE p = s
      BY <2>1, <2>6, <3>1, SendAdvances
    <3>2. CASE p # s
      <4>1. conns' \subseteq conns /\ pc'[p] = pc[p]
        BY <2>0, <2>6, <3>2 DEF TypeOK, Send, Try, Visit, SendOk, SendFull, SendClosed,
           Evict, Evicted, SendCount, CountThen, SendUser, SendReturn, Goto, DropUser, maps
      <4>2. p \in Senders =>
              target'[p] = target[p] /\ visited'[p] = visited[p] /\ stale'[p] = stale[p]
        BY <2>6, <3>2 DEF TypeOK, Send, Try, Visit, SendOk, SendFull, SendClosed, Evict,
           Evicted, SendCount, CountThen, SendUser, SendReturn, sending
      <4> QED BY <2>1, <4>1, <4>2, KeepsRank
    <3> QED BY <3>1, <3>2
  <2>7. ASSUME NEW s \in Senders, NEW u \in Users, SendGet(s, u)
        PROVE  Rank(p)' <= Rank(p) /\ Local(p)' = Local(p)
    <3>1. /\ conns' = conns /\ visited' = visited /\ stale' = stale
          /\ pc[s] = "idle" /\ pc'[p] = pc[p]
          /\ p \in Senders => target'[p] = target[p]
      BY <2>0, <2>7 DEF TypeOK, SendGet, Goto, maps
    <3> QED BY <2>1, <3>1, KeepsRank
  <2> QED
    BY <2>2, <2>3, <2>4, <2>5, <2>6, <2>7 DEF Next
<1>4. OpsAdvance <=> [][Advance]_vars
  BY DEF OpsAdvance
<1> QED BY <1>1, <1>2, <1>3, <1>4, TypeCorrect, PTL DEF Spec
=============================================================================
