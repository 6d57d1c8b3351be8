----------------------- MODULE KafkaPersistenceProofs -----------------------
(***************************************************************************)
(* Theorems about KafkaPersistence for every number of nodes and messages, *)
(* every batch size and every number of faults.                            *)
(***************************************************************************)
EXTENDS KafkaPersistence, TLAPS, SequenceTheorems, FiniteSetTheorems

-----------------------------------------------------------------------------
(* Buffers *)

\* The elements of a buffer after a push, and of an empty one.
LEMMA ElementsAppend ==
  ASSUME NEW s \in Seq(Offsets), NEW m \in Offsets
  PROVE  Elements(Append(s, m)) = Elements(s) \cup {m}
<1>1. /\ Len(s) \in Nat /\ Len(Append(s, m)) = Len(s) + 1
      /\ \A i \in 1 .. Len(s) : Append(s, m)[i] = s[i]
      /\ Append(s, m)[Len(s) + 1] = m
  BY LenProperties, AppendProperties
<1>2. 1 .. Len(s) + 1 = (1 .. Len(s)) \cup {Len(s) + 1}
  BY <1>1
<1> QED BY <1>1, <1>2 DEF Elements

LEMMA ElementsEmpty == Elements(<< >>) = {} /\ << >> \in Seq(Offsets)
<1>1. Len(<< >>) = 0 /\ << >> \in Seq(Offsets)
  OBVIOUS
<1> QED BY <1>1 DEF Elements

-----------------------------------------------------------------------------
(* The inductive invariant: the messages up to the position of the owner are  *)
(* all tried or buffered, the buffer is empty when a commit is sent, and what *)
(* is committed, or on its way, has been tried.                               *)

Received(n) ==
    owner = n => 1 .. position[n] \subseteq tried \cup Elements(buf[n])

Insertable(n) ==
    /\ inflight[n] # 0 => 1 .. inflight[n] \subseteq tried
    /\ pc[n] \in {"commit", "last commit"} => buf[n] = << >>

CommitInv ==
    /\ owner \in Nodes \cup {NoOwner}
    /\ pc \in [Nodes -> PCs]
    /\ produced \in Nat /\ produced <= MaxProduced
    /\ committed \in Nat
    /\ position \in [Nodes -> Nat]
    /\ inflight \in [Nodes -> Nat]
    /\ buf \in [Nodes -> Seq(Offsets)]
    /\ TriedBeforeCommitted
    /\ \A n \in Nodes : Received(n) /\ Insertable(n)

LEMMA CommitInit == Init => CommitInv
<1> SUFFICES ASSUME Init PROVE CommitInv
  OBVIOUS
<1>1. 1 .. 0 = {}
  OBVIOUS
<1>2. TriedBeforeCommitted
  BY <1>1 DEF Init, TriedBeforeCommitted
<1>3. \A n \in Nodes : Received(n) /\ Insertable(n)
  BY OwnerAssumption DEF Init, Received, Insertable
<1>4. pc \in [Nodes -> PCs] /\ buf \in [Nodes -> Seq(Offsets)]
      /\ position \in [Nodes -> Nat] /\ inflight \in [Nodes -> Nat]
  BY DEF Init, PCs
<1> QED BY <1>2, <1>3, <1>4, BoundAssumption DEF Init, CommitInv

\* The end of an insert: what was buffered has been tried.
LEMMA FlushedKeeps ==
  ASSUME CommitInv, NEW n \in Nodes, Flushing(n), Flushed(n)
  PROVE  CommitInv'
<1>1. /\ UNCHANGED <<produced, committed, owner, position, inflight>>
      /\ tried' = tried \cup Elements(buf[n])
      /\ buf' = [buf EXCEPT ![n] = << >>]
      /\ pc' = [pc EXCEPT ![n] = IF pc[n] = "flush" THEN "commit" ELSE "last commit"]
  BY DEF Flushed, kafka, Goto
<1>2. pc' \in [Nodes -> PCs] /\ buf' \in [Nodes -> Seq(Offsets)]
  BY <1>1, ElementsEmpty DEF CommitInv, PCs
<1>3. TriedBeforeCommitted'
  BY <1>1 DEF CommitInv, TriedBeforeCommitted
<1>4. ASSUME NEW m \in Nodes PROVE Received(m)'
  <2>1. CASE m = n
    BY <1>1, <2>1, ElementsEmpty DEF CommitInv, Received
  <2>2. CASE m # n
    BY <1>1, <2>2 DEF CommitInv, Received
  <2> QED BY <2>1, <2>2
<1>5. ASSUME NEW m \in Nodes PROVE Insertable(m)'
  BY <1>1, <1>5 DEF CommitInv, Insertable
<1> QED BY <1>1, <1>2, <1>3, <1>4, <1>5 DEF CommitInv

\* A message received.
LEMMA RecvKeeps ==
  ASSUME CommitInv, NEW n \in Nodes, Recv(n)
  PROVE  CommitInv'
<1>1. /\ UNCHANGED <<produced, committed, owner, inflight, tried>>
      /\ owner = n /\ position[n] < produced
      /\ position' = [position EXCEPT ![n] = @ + 1]
      /\ buf' = [buf EXCEPT ![n] = Append(@, position[n] + 1)]
      /\ pc[n] = "select"
      /\ \E l \in {"flush", "select"} : pc' = [pc EXCEPT ![n] = l]
  BY DEF Recv, Waiting, Goto
<1>2. position[n] \in Nat /\ position[n] + 1 \in Offsets
  BY <1>1, BoundAssumption DEF CommitInv, Offsets
<1>3. /\ pc' \in [Nodes -> PCs] /\ buf' \in [Nodes -> Seq(Offsets)]
      /\ position' \in [Nodes -> Nat]
  <2>1. Append(buf[n], position[n] + 1) \in Seq(Offsets)
    BY <1>2, AppendProperties DEF CommitInv
  <2>2. pc' \in [Nodes -> PCs]
    BY <1>1 DEF CommitInv, PCs
  <2> QED BY <1>1, <1>2, <2>1, <2>2 DEF CommitInv
<1>4. Elements(buf'[n]) = Elements(buf[n]) \cup {position[n] + 1}
  BY <1>1, <1>2, ElementsAppend DEF CommitInv
<1>5. 1 .. position[n] + 1 = (1 .. position[n]) \cup {position[n] + 1}
  BY <1>2
<1>6. ASSUME NEW m \in Nodes PROVE Received(m)' /\ Insertable(m)'
  <2>1. CASE m = n
    <3>1. position'[n] = position[n] + 1 /\ pc'[n] \in {"flush", "select"}
      BY <1>1 DEF CommitInv
    <3>2. 1 .. position[n] \subseteq tried \cup Elements(buf[n])
      BY <1>1 DEF CommitInv, Received
    <3>3. 1 .. position'[n] \subseteq tried' \cup Elements(buf'[n])
      BY <1>1, <1>4, <1>5, <3>1, <3>2
    <3> QED BY <1>1, <2>1, <3>1, <3>3 DEF CommitInv, Received, Insertable
  <2>2. CASE m # n
    BY <1>1, <2>2 DEF CommitInv, Received, Insertable
  <2> QED BY <2>1, <2>2
<1>7. TriedBeforeCommitted'
  BY <1>1 DEF CommitInv, TriedBeforeCommitted
<1> QED BY <1>1, <1>3, <1>6, <1>7 DEF CommitInv

\* A commit sent: the buffer is empty, so all that was received is tried.
LEMMA CommitKeeps ==
  ASSUME CommitInv, NEW n \in Nodes, Commit(n)
  PROVE  CommitInv'
<1>1. /\ UNCHANGED <<produced, committed, owner, position, buf, tried>>
      /\ inflight' = IF owner = n THEN [inflight EXCEPT ![n] = position[n]] ELSE inflight
      /\ pc[n] \in {"commit", "last commit"}
      /\ \E l \in {"select", "stopped"} : pc' = [pc EXCEPT ![n] = l]
  BY DEF Commit, Committing, Goto
<1>2. pc' \in [Nodes -> PCs] /\ inflight' \in [Nodes -> Nat]
  BY <1>1 DEF CommitInv, PCs
<1>3. owner = n => 1 .. position[n] \subseteq tried
  BY <1>1, ElementsEmpty DEF CommitInv, Received, Insertable
<1>4. ASSUME NEW m \in Nodes PROVE Received(m)' /\ Insertable(m)'
  BY <1>1, <1>3 DEF CommitInv, Received, Insertable
<1>5. TriedBeforeCommitted'
  BY <1>1 DEF CommitInv, TriedBeforeCommitted
<1> QED BY <1>1, <1>2, <1>4, <1>5 DEF CommitInv

\* The partition moves: its new owner starts over from the committed offset.
LEMMA AssignKeeps ==
  ASSUME CommitInv, NEW n \in Nodes, Assign(n)
  PROVE  CommitInv'
<1>1. /\ UNCHANGED <<produced, committed, pc, buf, tried>>
      /\ owner' = n
      /\ position' = [position EXCEPT ![n] = committed]
      /\ inflight' = [m \in Nodes |-> 0]
  BY DEF Assign
<1>2. ASSUME NEW m \in Nodes PROVE Received(m)' /\ Insertable(m)'
  BY <1>1 DEF CommitInv, Received, Insertable, TriedBeforeCommitted
<1> QED BY <1>1, <1>2 DEF CommitInv, TriedBeforeCommitted

\* A process that goes down forgets its buffer, and the partition with it.
LEMMA DownKeeps ==
  ASSUME CommitInv, NEW n \in Nodes, Down(n)
  PROVE  CommitInv'
<1>1. /\ UNCHANGED <<produced, committed, tried>>
      /\ pc' = [pc EXCEPT ![n] = "down"]
      /\ buf' = [buf EXCEPT ![n] = << >>]
      /\ owner' = IF owner = n THEN NoOwner ELSE owner
      /\ inflight' = [inflight EXCEPT ![n] = 0]
      /\ position' = [position EXCEPT ![n] = 0]
  BY DEF Down, Goto
<1>2. /\ pc' \in [Nodes -> PCs] /\ buf' \in [Nodes -> Seq(Offsets)]
      /\ inflight' \in [Nodes -> Nat] /\ position' \in [Nodes -> Nat]
  BY <1>1, ElementsEmpty DEF CommitInv, PCs
<1>3. ASSUME NEW m \in Nodes PROVE Received(m)' /\ Insertable(m)'
  BY <1>1, OwnerAssumption DEF CommitInv, Received, Insertable
<1> QED BY <1>1, <1>2, <1>3 DEF CommitInv, TriedBeforeCommitted

\* The steps that move only the loop.
LEMMA LoopKeeps ==
  ASSUME CommitInv, NEW n \in Nodes,
         UNCHANGED <<produced, committed, owner, position, inflight, buf, tried>>,
         \E l \in PCs \ {"commit", "last commit"} : pc' = [pc EXCEPT ![n] = l]
  PROVE  CommitInv'
<1>1. ASSUME NEW m \in Nodes PROVE Received(m)' /\ Insertable(m)'
  BY DEF CommitInv, Received, Insertable
<1>2. pc' \in [Nodes -> PCs]
  BY DEF CommitInv
<1> QED BY <1>1, <1>2 DEF CommitInv, TriedBeforeCommitted

LEMMA CommitInductive ==
  ASSUME CommitInv, [Next]_vars
  PROVE  CommitInv'
<1>1. CASE Produce
  <2>1. /\ UNCHANGED <<committed, owner, position, inflight, pc, buf, tried>>
        /\ produced' = produced + 1 /\ produced < MaxProduced
    BY <1>1 DEF Produce
  <2>2. ASSUME NEW m \in Nodes PROVE Received(m)' /\ Insertable(m)'
    BY <2>1 DEF CommitInv, Received, Insertable
  <2> QED BY <2>1, <2>2, BoundAssumption DEF CommitInv, TriedBeforeCommitted
<1>2. ASSUME NEW n \in Nodes, Takeover(n) \/ Rebalance(n) PROVE CommitInv'
  BY <1>2, AssignKeeps DEF Takeover, Rebalance
<1>3. ASSUME NEW n \in Nodes, CommitLands(n) PROVE CommitInv'
  <2>1. /\ UNCHANGED <<produced, owner, position, pc, buf, tried>>
        /\ inflight[n] # 0 /\ committed' = inflight[n]
        /\ inflight' = [inflight EXCEPT ![n] = 0]
    BY <1>3 DEF CommitLands
  <2>2. ASSUME NEW m \in Nodes PROVE Received(m)' /\ Insertable(m)'
    BY <2>1 DEF CommitInv, Received, Insertable
  <2>3. TriedBeforeCommitted' /\ committed' \in Nat /\ inflight' \in [Nodes -> Nat]
    BY <2>1 DEF CommitInv, Insertable, TriedBeforeCommitted
  <2> QED BY <2>1, <2>2, <2>3 DEF CommitInv
<1>4. ASSUME NEW n \in Nodes, Deadline(n) \/ ShutdownSeen(n) \/ CommitError(n) \/ Start(n)
      PROVE  CommitInv'
  <2>1. UNCHANGED <<produced, committed, owner, position, inflight, buf, tried>>
    BY <1>4 DEF Deadline, ShutdownSeen, CommitError, Start, kafka
  <2>2. \E l \in PCs \ {"commit", "last commit"} : pc' = [pc EXCEPT ![n] = l]
    BY <1>4 DEF Deadline, ShutdownSeen, CommitError, Start, Goto, PCs
  <2> QED BY <2>1, <2>2, LoopKeeps
<1>5. ASSUME NEW n \in Nodes, InsertOk(n) \/ InsertDuplicate(n) \/ InsertError(n)
      PROVE  CommitInv'
  BY <1>5, FlushedKeeps DEF InsertOk, InsertDuplicate, InsertError
<1>6. ASSUME NEW n \in Nodes, Crash(n) \/ Exit(n) PROVE CommitInv'
  BY <1>6, DownKeeps DEF Crash, Exit
<1>7. ASSUME NEW n \in Nodes, Shutdown(n) PROVE CommitInv'
  BY <1>7 DEF Shutdown, kafka, CommitInv, Received, Insertable, TriedBeforeCommitted
<1>8. CASE UNCHANGED vars
  BY <1>8 DEF vars, kafka, CommitInv, Received, Insertable, TriedBeforeCommitted
<1> QED
  BY <1>1, <1>2, <1>3, <1>4, <1>5, <1>6, <1>7, <1>8, RecvKeeps, CommitKeeps DEF Next, Loop

\* However many nodes crash, lose the partition, are shut down or see the
\* database fail, no message is committed before an insert was tried for it.
THEOREM CommitsFollowInserts == Spec => []TriedBeforeCommitted
<1>1. CommitInv => TriedBeforeCommitted
  BY DEF CommitInv
<1> QED BY <1>1, CommitInit, CommitInductive, PTL DEF Spec

-----------------------------------------------------------------------------
(* Type correctness: a buffer holds messages of the log, and has room while *)
(* the loop may still push into it.                                         *)

Room(n) ==
    /\ pc[n] \in {"select", "commit", "last commit", "down"} => Len(buf[n]) < BatchMax
    /\ Elements(buf[n]) \subseteq 1 .. produced

TypeInv == TypeOK /\ \A n \in Nodes : Room(n)

LEMMA EmptyBuffer ==
  /\ << >> \in Seq(Offsets) /\ Len(<< >>) = 0 /\ Elements(<< >>) = {}
  /\ 0 < BatchMax /\ 0 <= BatchMax
BY ElementsEmpty, BatchAssumption

\* What counting a fault leaves: the counters stay bounded, and a count that
\* is zero was zero before.
LEMMA FaultCounts ==
  ASSUME TypeOK, NEW k \in Kinds, Fault(k)
  PROVE  /\ faults' \in [Kinds -> Nat] /\ \A j \in Kinds : faults'[j] <= Bound[j]
         /\ ~NoFault'
<1>1. faults[k] < Bound[k] /\ faults' = [faults EXCEPT ![k] = @ + 1]
  BY DEF Fault
<1>2. faults \in [Kinds -> Nat] /\ \A j \in Kinds : faults[j] <= Bound[j]
  BY DEF TypeOK
<1>3. Bound[k] \in Nat
  BY BoundAssumption DEF Bound, Kinds
<1>4. faults[k] \in Nat /\ faults'[k] = faults[k] + 1
  BY <1>1, <1>2
<1>5. ASSUME NEW j \in Kinds PROVE faults'[j] \in Nat /\ faults'[j] <= Bound[j]
  BY <1>1, <1>2, <1>3, <1>4
<1>6. faults'[k] # 0
  BY <1>4
<1> QED BY <1>1, <1>2, <1>5, <1>6 DEF NoFault

LEMMA TypeInit == Init => TypeInv
<1> SUFFICES ASSUME Init PROVE TypeInv
  OBVIOUS
<1>1. \A n \in Nodes : buf[n] = << >> /\ buf \in [Nodes -> Seq(Offsets)]
  BY EmptyBuffer DEF Init
<1>2. \A k \in Kinds : faults[k] <= Bound[k]
  BY BoundAssumption DEF Init, Kinds, Bound
<1>3. \A n \in Nodes : Room(n) /\ Len(buf[n]) <= BatchMax
  BY <1>1, EmptyBuffer DEF Room
<1> QED BY <1>1, <1>2, <1>3, BoundAssumption DEF Init, TypeInv, TypeOK, PCs

LEMMA FlushedTypes ==
  ASSUME TypeInv, NEW n \in Nodes, Flushed(n),
         db' \in {db, db \cup Elements(buf[n])},
         faults' \in [Kinds -> Nat], \A k \in Kinds : faults'[k] <= Bound[k]
  PROVE  TypeInv'
<1>1. /\ UNCHANGED <<produced, committed, owner, position, inflight, shutdown>>
      /\ tried' = tried \cup Elements(buf[n])
      /\ buf' = [buf EXCEPT ![n] = << >>]
      /\ \E l \in {"commit", "last commit"} : pc' = [pc EXCEPT ![n] = l]
  BY DEF Flushed, kafka, Goto
<1>2. pc' \in [Nodes -> PCs] /\ buf' \in [Nodes -> Seq(Offsets)]
  BY <1>1, EmptyBuffer DEF TypeInv, TypeOK, PCs
<1>3. tried' \subseteq 1 .. produced' /\ db' \subseteq 1 .. produced'
  BY <1>1 DEF TypeInv, TypeOK, Room
<1>4. ASSUME NEW m \in Nodes PROVE Room(m)' /\ Len(buf'[m]) <= BatchMax
  <2>1. CASE m = n
    BY <1>1, <2>1, EmptyBuffer DEF TypeInv, TypeOK, Room
  <2>2. CASE m # n
    BY <1>1, <2>2 DEF TypeInv, TypeOK, Room
  <2> QED BY <2>1, <2>2
<1> QED BY <1>1, <1>2, <1>3, <1>4 DEF TypeInv, TypeOK

LEMMA RecvTypes ==
  ASSUME TypeInv, NEW n \in Nodes, Recv(n)
  PROVE  TypeInv'
<1>1. /\ UNCHANGED <<produced, committed, owner, inflight, shutdown, db, tried, faults>>
      /\ position[n] < produced /\ pc[n] = "select"
      /\ position' = [position EXCEPT ![n] = @ + 1]
      /\ buf' = [buf EXCEPT ![n] = Append(@, position[n] + 1)]
      /\ pc' = [pc EXCEPT ![n] = IF Len(buf[n]) + 1 >= BatchMax THEN "flush" ELSE "select"]
  BY DEF Recv, Waiting, Goto
<1>2. /\ position[n] \in Nat /\ position[n] + 1 \in Offsets
      /\ position[n] + 1 \in 1 .. produced
  BY <1>1, BoundAssumption DEF TypeInv, TypeOK, Offsets
<1>3. buf[n] \in Seq(Offsets) /\ Len(buf[n]) \in Nat /\ Len(buf[n]) < BatchMax
  BY <1>1, LenProperties DEF TypeInv, TypeOK, Room
<1>4. /\ Append(buf[n], position[n] + 1) \in Seq(Offsets)
      /\ Len(Append(buf[n], position[n] + 1)) = Len(buf[n]) + 1
      /\ Elements(Append(buf[n], position[n] + 1)) = Elements(buf[n]) \cup {position[n] + 1}
  BY <1>2, <1>3, AppendProperties, ElementsAppend
<1>5. pc' \in [Nodes -> PCs] /\ buf' \in [Nodes -> Seq(Offsets)]
      /\ position' \in [Nodes -> 0 .. produced]
  <2>1. buf' \in [Nodes -> Seq(Offsets)]
    BY <1>1, <1>4 DEF TypeInv, TypeOK
  <2>2. pc' \in [Nodes -> PCs]
    BY <1>1 DEF TypeInv, TypeOK, PCs
  <2>3. position' \in [Nodes -> 0 .. produced]
    BY <1>1, <1>2 DEF TypeInv, TypeOK
  <2> QED BY <2>1, <2>2, <2>3
<1>6. ASSUME NEW m \in Nodes PROVE Room(m)' /\ Len(buf'[m]) <= BatchMax
  <2>1. CASE m = n
    <3>1. /\ Len(buf'[n]) = Len(buf[n]) + 1
          /\ Elements(buf'[n]) = Elements(buf[n]) \cup {position[n] + 1}
      BY <1>1, <1>4 DEF TypeInv, TypeOK
    <3>2. pc'[n] = IF Len(buf[n]) + 1 >= BatchMax THEN "flush" ELSE "select"
      BY <1>1 DEF TypeInv, TypeOK
    <3>3. Elements(buf'[n]) \subseteq 1 .. produced'
      BY <1>1, <1>2, <3>1 DEF TypeInv, Room
    <3>4. CASE Len(buf[n]) + 1 >= BatchMax
      BY <1>3, <2>1, <3>1, <3>2, <3>3, <3>4, BatchAssumption DEF Room
    <3>5. CASE ~(Len(buf[n]) + 1 >= BatchMax)
      BY <1>3, <2>1, <3>1, <3>2, <3>3, <3>5, BatchAssumption DEF Room
    <3> QED BY <3>4, <3>5
  <2>2. CASE m # n
    BY <1>1, <2>2 DEF TypeInv, TypeOK, Room
  <2> QED BY <2>1, <2>2
<1> QED BY <1>1, <1>5, <1>6 DEF TypeInv, TypeOK

\* The steps that leave the buffers and the log, and move one loop.
LEMMA MoveTypes ==
  ASSUME TypeInv, NEW n \in Nodes,
         UNCHANGED <<produced, buf, db, tried>>,
         \/ UNCHANGED pc
         \/ \E l \in {"flush", "last flush", "stopped"} : pc' = [pc EXCEPT ![n] = l]
         \/ (pc[n] \in {"commit", "last commit", "down"} /\ pc' = [pc EXCEPT ![n] = "select"]),
         committed' \in 0 .. produced, owner' \in Nodes \cup {NoOwner},
         position' \in [Nodes -> 0 .. produced], inflight' \in [Nodes -> 0 .. produced],
         shutdown' \in [Nodes -> {"none", "stored", "taken"}],
         faults' \in [Kinds -> Nat], \A k \in Kinds : faults'[k] <= Bound[k]
  PROVE  TypeInv'
<1>1. pc' \in [Nodes -> PCs]
  BY DEF TypeInv, TypeOK, PCs
<1>2. ASSUME NEW m \in Nodes PROVE Room(m)'
  <2>1. Room(m) /\ pc \in [Nodes -> PCs]
    BY DEF TypeInv, TypeOK
  <2>2. pc'[m] \in {"select", "commit", "last commit", "down"}
        => pc[m] \in {"select", "commit", "last commit", "down"}
    BY <2>1
  <2> QED BY <2>1, <2>2 DEF Room
<1>3. \A m \in Nodes : Len(buf'[m]) <= BatchMax
  BY DEF TypeInv, TypeOK
<1> QED BY <1>1, <1>2, <1>3 DEF TypeInv, TypeOK

LEMMA DownTypes ==
  ASSUME TypeInv, NEW n \in Nodes, Down(n),
         faults' \in [Kinds -> Nat], \A k \in Kinds : faults'[k] <= Bound[k]
  PROVE  TypeInv'
<1>1. /\ UNCHANGED <<produced, committed, db, tried>>
      /\ pc' = [pc EXCEPT ![n] = "down"]
      /\ buf' = [buf EXCEPT ![n] = << >>]
      /\ shutdown' = [shutdown EXCEPT ![n] = "none"]
      /\ owner' = IF owner = n THEN NoOwner ELSE owner
      /\ inflight' = [inflight EXCEPT ![n] = 0]
      /\ position' = [position EXCEPT ![n] = 0]
  BY DEF Down, Goto
<1>2. produced \in Nat
  BY DEF TypeInv, TypeOK
<1>3. /\ pc' \in [Nodes -> PCs] /\ buf' \in [Nodes -> Seq(Offsets)]
      /\ shutdown' \in [Nodes -> {"none", "stored", "taken"}]
  BY <1>1, EmptyBuffer DEF TypeInv, TypeOK, PCs
<1>4. inflight' \in [Nodes -> 0 .. produced] /\ position' \in [Nodes -> 0 .. produced]
  BY <1>1, <1>2 DEF TypeInv, TypeOK
<1>5. ASSUME NEW m \in Nodes PROVE Room(m)' /\ Len(buf'[m]) <= BatchMax
  <2>1. CASE m = n
    BY <1>1, <2>1, EmptyBuffer DEF TypeInv, TypeOK, Room
  <2>2. CASE m # n
    BY <1>1, <2>2 DEF TypeInv, TypeOK, Room
  <2> QED BY <2>1, <2>2
<1> QED BY <1>1, <1>3, <1>4, <1>5 DEF TypeInv, TypeOK

LEMMA TypeInductive ==
  ASSUME TypeInv, [Next]_vars
  PROVE  TypeInv'
<1>0. /\ produced \in Nat /\ committed \in 0 .. produced /\ owner \in Nodes \cup {NoOwner}
      /\ position \in [Nodes -> 0 .. produced] /\ inflight \in [Nodes -> 0 .. produced]
      /\ shutdown \in [Nodes -> {"none", "stored", "taken"}]
      /\ faults \in [Kinds -> Nat] /\ \A k \in Kinds : faults[k] <= Bound[k]
  BY DEF TypeInv, TypeOK
<1>1. CASE Produce
  <2>1. /\ UNCHANGED <<committed, owner, position, inflight, pc, buf, shutdown, db, tried, faults>>
        /\ produced' = produced + 1 /\ produced < MaxProduced
    BY <1>1 DEF Produce
  <2>2. 1 .. produced \subseteq 1 .. produced' /\ 0 .. produced \subseteq 0 .. produced'
    BY <1>0, <2>1
  <2>3. ASSUME NEW m \in Nodes PROVE Room(m)'
    BY <2>1, <2>2 DEF TypeInv, Room
  <2>4. produced' \in 0 .. MaxProduced
    BY <1>0, <2>1, BoundAssumption
  <2>5. position' \in [Nodes -> 0 .. produced'] /\ inflight' \in [Nodes -> 0 .. produced']
    BY <1>0, <2>1, <2>2
  <2> QED BY <1>0, <2>1, <2>2, <2>3, <2>4, <2>5 DEF TypeInv, TypeOK
<1>2. ASSUME NEW n \in Nodes, Takeover(n) \/ Rebalance(n) PROVE TypeInv'
  <2>1. Assign(n) /\ (UNCHANGED faults \/ Fault("rebalance"))
    BY <1>2 DEF Takeover, Rebalance
  <2>2. faults' \in [Kinds -> Nat] /\ \A k \in Kinds : faults'[k] <= Bound[k]
    BY <1>0, <2>1, FaultCounts DEF TypeInv, Kinds
  <2>3. /\ UNCHANGED <<produced, committed, pc, buf, shutdown, db, tried>>
        /\ owner' = n
        /\ position' = [position EXCEPT ![n] = committed]
        /\ inflight' = [m \in Nodes |-> 0]
    BY <2>1 DEF Assign
  <2>4. position' \in [Nodes -> 0 .. produced] /\ inflight' \in [Nodes -> 0 .. produced]
    BY <1>0, <2>3
  <2> QED BY <1>0, <2>2, <2>3, <2>4, MoveTypes
<1>3. ASSUME NEW n \in Nodes, CommitLands(n) PROVE TypeInv'
  <2>1. /\ UNCHANGED <<produced, owner, position, pc, buf, shutdown, db, tried, faults>>
        /\ committed' = inflight[n]
        /\ inflight' = [inflight EXCEPT ![n] = 0]
    BY <1>3 DEF CommitLands
  <2>2. inflight' \in [Nodes -> 0 .. produced] /\ committed' \in 0 .. produced
    BY <1>0, <2>1
  <2> QED BY <1>0, <2>1, <2>2, MoveTypes
<1>4. ASSUME NEW n \in Nodes, Deadline(n) \/ ShutdownSeen(n) \/ Start(n) PROVE TypeInv'
  <2>1. UNCHANGED <<produced, committed, owner, position, inflight, buf, db, tried, faults>>
    BY <1>4 DEF Deadline, ShutdownSeen, Start, kafka
  <2>2. shutdown' \in [Nodes -> {"none", "stored", "taken"}]
    BY <1>0, <1>4 DEF Deadline, ShutdownSeen, Start
  <2>3. \/ \E l \in {"flush", "last flush", "stopped"} : pc' = [pc EXCEPT ![n] = l]
        \/ (pc[n] \in {"commit", "last commit", "down"} /\ pc' = [pc EXCEPT ![n] = "select"])
    BY <1>4 DEF Deadline, ShutdownSeen, Start, Goto
  <2> QED BY <1>0, <2>1, <2>2, <2>3, MoveTypes
<1>5. ASSUME NEW n \in Nodes, InsertOk(n) \/ InsertDuplicate(n) \/ InsertError(n)
      PROVE  TypeInv'
  <2>1. Flushed(n) /\ db' \in {db, db \cup Elements(buf[n])}
        /\ (UNCHANGED faults \/ Fault("db"))
    BY <1>5 DEF InsertOk, InsertDuplicate, InsertError
  <2>2. faults' \in [Kinds -> Nat] /\ \A k \in Kinds : faults'[k] <= Bound[k]
    BY <1>0, <2>1, FaultCounts DEF TypeInv, Kinds
  <2> QED BY <2>1, <2>2, FlushedTypes
<1>6. ASSUME NEW n \in Nodes, Commit(n) PROVE TypeInv'
  <2>1. /\ UNCHANGED <<produced, committed, owner, position, buf, shutdown, db, tried, faults>>
        /\ inflight' = IF owner = n THEN [inflight EXCEPT ![n] = position[n]] ELSE inflight
    BY <1>6 DEF Commit
  <2>2. \/ \E l \in {"flush", "last flush", "stopped"} : pc' = [pc EXCEPT ![n] = l]
        \/ (pc[n] \in {"commit", "last commit", "down"} /\ pc' = [pc EXCEPT ![n] = "select"])
    BY <1>6 DEF Commit, Committing, Goto
  <2>3. inflight' \in [Nodes -> 0 .. produced]
    BY <1>0, <2>1
  <2> QED BY <1>0, <2>1, <2>2, <2>3, MoveTypes
<1>7. ASSUME NEW n \in Nodes, CommitError(n) \/ Shutdown(n) PROVE TypeInv'
  <2>1. UNCHANGED <<produced, committed, owner, position, inflight, buf, db, tried>>
        /\ (Fault("commit") \/ Fault("stop"))
    BY <1>7 DEF CommitError, Shutdown, kafka
  <2>2. faults' \in [Kinds -> Nat] /\ \A k \in Kinds : faults'[k] <= Bound[k]
    BY <2>1, FaultCounts DEF TypeInv, Kinds
  <2>3. shutdown' \in [Nodes -> {"none", "stored", "taken"}]
    BY <1>0, <1>7 DEF CommitError, Shutdown
  <2>4. UNCHANGED pc \/ (\E l \in {"flush", "last flush", "stopped"} : pc' = [pc EXCEPT ![n] = l])
    BY <1>7 DEF CommitError, Shutdown, Goto
  <2> QED BY <1>0, <2>1, <2>2, <2>3, <2>4, MoveTypes
<1>8. ASSUME NEW n \in Nodes, Crash(n) \/ Exit(n) PROVE TypeInv'
  <2>1. Down(n) /\ (UNCHANGED faults \/ Fault("stop"))
    BY <1>8 DEF Crash, Exit
  <2>2. faults' \in [Kinds -> Nat] /\ \A k \in Kinds : faults'[k] <= Bound[k]
    BY <1>0, <2>1, FaultCounts DEF TypeInv, Kinds
  <2> QED BY <2>1, <2>2, DownTypes
<1>9. CASE UNCHANGED vars
  BY <1>9 DEF vars, kafka, TypeInv, TypeOK, Room
<1> QED BY <1>1, <1>2, <1>3, <1>4, <1>5, <1>6, <1>7, <1>8, <1>9, RecvTypes DEF Next, Loop

\* A batch never exceeds its size, and no node reads, commits or inserts past
\* the end of the log.
THEOREM TypeCorrect == Spec => []TypeOK
<1>1. TypeInv => TypeOK
  BY DEF TypeInv
<1> QED BY <1>1, TypeInit, TypeInductive, PTL DEF Spec

-----------------------------------------------------------------------------
(* Without a fault: the first owner keeps the partition, its buffer holds the *)
(* messages that follow the stored ones, up to its position, and what is      *)
(* committed or on its way is stored.                                         *)

Contiguous(n) ==
    /\ Len(buf[n]) <= position[n]
    /\ db = 1 .. position[n] - Len(buf[n])
    /\ \A i \in 1 .. Len(buf[n]) : buf[n][i] = position[n] - Len(buf[n]) + i

Quiet ==
    /\ \A n \in Nodes : pc[n] \in {"select", "flush", "commit"} /\ shutdown[n] = "none"
    /\ owner = NoOwner => committed = 0 /\ db = {}
    /\ CommittedPersisted
    /\ \A n \in Nodes :
        /\ owner = n => Contiguous(n)
        /\ owner # n => buf[n] = << >>
        /\ inflight[n] # 0 => 1 .. inflight[n] \subseteq db

QuietInv == NoFault => Quiet

\* Without a fault a batch never holds a message twice or one that is stored.
LEMMA ContiguousDistinct ==
  ASSUME TypeInv, NEW n \in Nodes, Contiguous(n)
  PROVE  Distinct(buf[n]) /\ db \cup Elements(buf[n]) = 1 .. position[n]
<1> DEFINE L == Len(buf[n])
           p == position[n]
<1>1. L \in Nat /\ p \in Nat /\ L <= p
  BY LenProperties DEF TypeInv, TypeOK, Contiguous
<1>2. Elements(buf[n]) = (p - L + 1) .. p
  <2>1. \A i \in 1 .. L : buf[n][i] = p - L + i
    BY DEF Contiguous
  <2>2. ASSUME NEW x \in Elements(buf[n]) PROVE x \in (p - L + 1) .. p
    <3>1. PICK i \in 1 .. L : x = buf[n][i]
      BY DEF Elements
    <3> QED BY <1>1, <2>1, <3>1
  <2>3. ASSUME NEW x \in (p - L + 1) .. p PROVE x \in Elements(buf[n])
    <3>1. x - (p - L) \in 1 .. L /\ p - L + (x - (p - L)) = x
      BY <1>1
    <3>2. buf[n][x - (p - L)] = x
      BY <2>1, <3>1
    <3> QED BY <3>1, <3>2 DEF Elements
  <2> QED BY <2>2, <2>3
<1>3. db = 1 .. p - L
  BY DEF Contiguous
<1>4. Elements(buf[n]) \cap db = {} /\ db \cup Elements(buf[n]) = 1 .. p
  BY <1>1, <1>2, <1>3
<1>5. Cardinality(Elements(buf[n])) = L
  <2>1. p - L + 1 \in Int /\ p \in Int
    BY <1>1
  <2>2. Cardinality((p - L + 1) .. p) = IF p - L + 1 > p THEN 0 ELSE p - (p - L + 1) + 1
    BY <2>1, FS_Interval
  <2> QED BY <1>1, <1>2, <2>2
<1> QED BY <1>4, <1>5 DEF Distinct

\* An empty buffer inserts nothing.
LEMMA EmptyDistinct ==
  ASSUME NEW n \in Nodes, buf[n] = << >>
  PROVE  Elements(buf[n]) = {}
BY EmptyBuffer

LEMMA QuietInit == Init => QuietInv
<1> SUFFICES ASSUME Init PROVE Quiet
  BY DEF QuietInv
<1>1. 1 .. 0 = {}
  OBVIOUS
<1> QED BY <1>1, OwnerAssumption DEF Init, Quiet, CommittedPersisted

\* A message received by the owner is the next one.
LEMMA QuietRecv ==
  ASSUME TypeInv, Quiet, NEW n \in Nodes, Recv(n)
  PROVE  Quiet'
<1>1. /\ UNCHANGED <<produced, committed, owner, inflight, shutdown, db, tried, faults>>
      /\ owner = n /\ position[n] < produced
      /\ position' = [position EXCEPT ![n] = @ + 1]
      /\ buf' = [buf EXCEPT ![n] = Append(@, position[n] + 1)]
      /\ \E l \in {"flush", "select"} : pc' = [pc EXCEPT ![n] = l]
  BY DEF Recv, Waiting, Goto
<1>2. /\ buf \in [Nodes -> Seq(Offsets)] /\ position[n] \in Nat /\ position[n] + 1 \in Offsets
      /\ position \in [Nodes -> 0 .. produced] /\ pc \in [Nodes -> PCs]
  BY <1>1, BoundAssumption DEF TypeInv, TypeOK, Offsets
<1>3. /\ Len(buf[n]) \in Nat /\ Len(buf'[n]) = Len(buf[n]) + 1
      /\ \A i \in 1 .. Len(buf[n]) : buf'[n][i] = buf[n][i]
      /\ buf'[n][Len(buf[n]) + 1] = position[n] + 1
  BY <1>1, <1>2, AppendProperties, LenProperties
<1>4. position'[n] = position[n] + 1
  BY <1>1, <1>2
<1>5. Contiguous(n)'
  <2>1. Len(buf[n]) <= position[n] /\ db = 1 .. position[n] - Len(buf[n])
        /\ \A i \in 1 .. Len(buf[n]) : buf[n][i] = position[n] - Len(buf[n]) + i
    BY <1>1 DEF Quiet, Contiguous
  <2>2. position'[n] - Len(buf'[n]) = position[n] - Len(buf[n]) /\ Len(buf'[n]) <= position'[n]
    BY <1>2, <1>3, <1>4, <2>1
  <2>3. ASSUME NEW i \in 1 .. Len(buf'[n])
        PROVE  buf'[n][i] = position'[n] - Len(buf'[n]) + i
    <3>1. CASE i \in 1 .. Len(buf[n])
      BY <1>3, <2>1, <2>2, <3>1
    <3>2. CASE i = Len(buf[n]) + 1
      BY <1>2, <1>3, <1>4, <2>1, <2>2, <3>2
    <3> QED BY <1>3, <3>1, <3>2
  <2> QED BY <1>1, <2>1, <2>2, <2>3 DEF Contiguous
<1>6. \A m \in Nodes : pc'[m] \in {"select", "flush", "commit"} /\ shutdown'[m] = "none"
  BY <1>1, <1>2 DEF Quiet
<1>7. ASSUME NEW m \in Nodes
      PROVE  /\ owner' = m => Contiguous(m)'
             /\ owner' # m => buf'[m] = << >>
             /\ inflight'[m] # 0 => 1 .. inflight'[m] \subseteq db'
  BY <1>1, <1>2, <1>5 DEF Quiet
<1> QED BY <1>1, <1>6, <1>7, OwnerAssumption DEF Quiet, CommittedPersisted

\* An insert stores all that the owner has received.
LEMMA QuietInsert ==
  ASSUME TypeInv, Quiet, NEW n \in Nodes, InsertOk(n) \/ InsertDuplicate(n)
  PROVE  Quiet'
<1>1. Flushing(n) /\ Flushed(n)
  BY DEF InsertOk, InsertDuplicate
<1>2. /\ UNCHANGED <<produced, committed, owner, position, inflight, shutdown>>
      /\ buf' = [buf EXCEPT ![n] = << >>]
      /\ pc' = [pc EXCEPT ![n] = "commit"]
  BY <1>1 DEF Flushed, Flushing, Quiet, kafka, Goto
<1>3. /\ buf \in [Nodes -> Seq(Offsets)] /\ position[n] \in Nat /\ pc \in [Nodes -> PCs]
      /\ Len(buf'[n]) = 0 /\ buf'[n] = << >>
  BY <1>2, EmptyBuffer DEF TypeInv, TypeOK
<1>4. db' = db \cup Elements(buf[n])
  <2>1. CASE owner = n
    BY <2>1, ContiguousDistinct DEF Quiet, InsertOk, InsertDuplicate
  <2>2. CASE owner # n
    BY <2>2, EmptyDistinct DEF Quiet, InsertOk, InsertDuplicate
  <2> QED BY <2>1, <2>2
<1>5. owner = n => Contiguous(n)'
  <2> SUFFICES ASSUME owner = n PROVE Contiguous(n)'
    OBVIOUS
  <2>1. db' = 1 .. position[n]
    BY <1>4, ContiguousDistinct DEF Quiet
  <2>2. position[n] - 0 = position[n] /\ 0 <= position[n] /\ 1 .. 0 = {}
    BY <1>3
  <2> QED BY <1>2, <1>3, <2>1, <2>2 DEF Contiguous
<1>6. owner # n => db' = db
  BY <1>4, EmptyDistinct DEF Quiet
<1>7. \A m \in Nodes : pc'[m] \in {"select", "flush", "commit"} /\ shutdown'[m] = "none"
  BY <1>2, <1>3 DEF Quiet
<1>8. ASSUME NEW m \in Nodes
      PROVE  /\ owner' = m => Contiguous(m)'
             /\ owner' # m => buf'[m] = << >>
             /\ inflight'[m] # 0 => 1 .. inflight'[m] \subseteq db'
  <2>1. CASE m = n
    BY <1>2, <1>3, <1>4, <1>5, <2>1 DEF Quiet
  <2>2. CASE m # n
    <3>1. buf'[m] = buf[m]
      BY <1>2, <1>3, <2>2
    <3>2. owner = m => Contiguous(m)'
      BY <1>2, <1>6, <2>2, <3>1 DEF Quiet, Contiguous
    <3> QED BY <1>2, <1>4, <3>1, <3>2 DEF Quiet
  <2> QED BY <2>1, <2>2
<1>9. (owner' = NoOwner => committed' = 0 /\ db' = {}) /\ CommittedPersisted'
  BY <1>2, <1>4, <1>6, OwnerAssumption DEF Quiet, CommittedPersisted
<1> QED BY <1>7, <1>8, <1>9 DEF Quiet

\* The first owner takes an empty log's partition: it starts with nothing
\* committed, nothing stored and nothing buffered.
LEMMA QuietTakeover ==
  ASSUME TypeInv, Quiet, NEW n \in Nodes, Takeover(n)
  PROVE  Quiet'
<1>1. /\ UNCHANGED <<produced, committed, pc, buf, shutdown, db, tried>>
      /\ owner' = n
      /\ position' = [position EXCEPT ![n] = committed]
      /\ inflight' = [m \in Nodes |-> 0]
      /\ owner = NoOwner
  BY DEF Takeover, Assign, Quiet
<1>2. committed = 0 /\ db = {} /\ \A m \in Nodes : buf[m] = << >>
  BY <1>1, OwnerAssumption DEF Quiet
<1>3. position'[n] = 0 /\ Len(buf'[n]) = 0
  BY <1>1, <1>2, EmptyBuffer DEF TypeInv, TypeOK
<1>4. Contiguous(n)'
  <2>1. 0 <= 0 /\ 0 - 0 = 0 /\ 1 .. 0 = {}
    OBVIOUS
  <2> QED BY <1>1, <1>2, <1>3, <2>1 DEF Contiguous
<1> QED BY <1>1, <1>2, <1>4, OwnerAssumption DEF Quiet, CommittedPersisted

\* What is sent as a commit has been stored.
LEMMA QuietCommit ==
  ASSUME TypeInv, Quiet, NEW n \in Nodes, Insertable(n), Commit(n)
  PROVE  Quiet'
<1>1. /\ UNCHANGED <<produced, committed, owner, position, buf, shutdown, db, tried, faults>>
      /\ inflight' = IF owner = n THEN [inflight EXCEPT ![n] = position[n]] ELSE inflight
      /\ pc[n] = "commit" /\ pc' = [pc EXCEPT ![n] = "select"]
  BY DEF Commit, Committing, Quiet, Goto
<1>2. owner = n => db = 1 .. position[n]
  <2> SUFFICES ASSUME owner = n PROVE db = 1 .. position[n]
    OBVIOUS
  <2>1. db = 1 .. position[n] - Len(buf[n]) /\ Len(buf[n]) = 0
    BY <1>1, EmptyBuffer DEF Insertable, Quiet, Contiguous
  <2>2. position[n] \in Nat
    BY DEF TypeInv, TypeOK
  <2> QED BY <2>1, <2>2
<1>3. ASSUME NEW m \in Nodes
      PROVE  inflight'[m] # 0 => 1 .. inflight'[m] \subseteq db
  <2>1. inflight \in [Nodes -> 0 .. produced]
    BY DEF TypeInv, TypeOK
  <2>2. CASE owner = n /\ m = n
    BY <1>1, <1>2, <2>1, <2>2
  <2>3. CASE ~(owner = n /\ m = n)
    BY <1>1, <2>1, <2>3 DEF Quiet
  <2> QED BY <2>2, <2>3
<1>4. \A m \in Nodes : pc'[m] \in {"select", "flush", "commit"} /\ shutdown'[m] = "none"
  BY <1>1 DEF Quiet, TypeInv, TypeOK
<1>5. \A m \in Nodes : owner' = m => Contiguous(m)'
  BY <1>1 DEF Quiet, Contiguous
<1> QED BY <1>1, <1>3, <1>4, <1>5 DEF Quiet, CommittedPersisted

LEMMA QuietInductive ==
  ASSUME TypeInv, CommitInv, QuietInv, [Next]_vars
  PROVE  QuietInv'
<1> SUFFICES ASSUME NoFault' PROVE Quiet'
  BY DEF QuietInv
<1>1. ASSUME NEW k \in Kinds, Fault(k) PROVE FALSE
  BY <1>1, FaultCounts DEF TypeInv
<1>2. ASSUME UNCHANGED faults PROVE Quiet
  BY <1>2 DEF QuietInv, NoFault
<1>3. CASE Produce
  BY <1>2, <1>3 DEF Produce, Quiet, Contiguous, CommittedPersisted
<1>4. ASSUME NEW n \in Nodes, Takeover(n) PROVE Quiet'
  BY <1>2, <1>4, QuietTakeover DEF Takeover
<1>5. ASSUME NEW n \in Nodes, CommitLands(n) PROVE Quiet'
  <2>1. /\ UNCHANGED <<produced, owner, position, pc, buf, shutdown, db, tried, faults>>
        /\ owner = n /\ inflight[n] # 0 /\ committed' = inflight[n]
        /\ inflight' = [inflight EXCEPT ![n] = 0]
    BY <1>5 DEF CommitLands
  <2>2. Quiet /\ inflight \in [Nodes -> 0 .. produced]
    BY <1>2, <2>1 DEF TypeInv, TypeOK
  <2>3. CommittedPersisted'
    BY <2>1, <2>2 DEF Quiet, CommittedPersisted
  <2>4. \A m \in Nodes : inflight'[m] # 0 => 1 .. inflight'[m] \subseteq db'
    BY <2>1, <2>2 DEF Quiet
  <2>5. \A m \in Nodes : owner' = m => Contiguous(m)'
    BY <2>1, <2>2 DEF Quiet, Contiguous
  <2> QED BY <2>1, <2>2, <2>3, <2>4, <2>5, OwnerAssumption DEF Quiet
<1>6. ASSUME NEW n \in Nodes, Deadline(n) PROVE Quiet'
  <2>1. /\ UNCHANGED <<produced, committed, owner, position, inflight, buf, shutdown, db, faults>>
        /\ pc' = [pc EXCEPT ![n] = "flush"]
    BY <1>6 DEF Deadline, kafka, Goto
  <2>2. \A m \in Nodes : pc'[m] \in {"select", "flush", "commit"}
    BY <1>2, <2>1 DEF Quiet, TypeInv, TypeOK
  <2> QED BY <1>2, <2>1, <2>2 DEF Quiet, Contiguous, CommittedPersisted
<1>7. ASSUME NEW n \in Nodes, ShutdownSeen(n) \/ Exit(n) \/ Start(n) PROVE Quiet'
  <2>1. UNCHANGED faults
    BY <1>7 DEF ShutdownSeen, Exit, Start
  <2> QED BY <1>2, <1>7, <2>1 DEF ShutdownSeen, Exit, Start, Quiet
<1>8. ASSUME NEW n \in Nodes, Recv(n) \/ InsertOk(n) \/ InsertDuplicate(n) \/ Commit(n)
      PROVE  Quiet'
  <2>1. UNCHANGED faults
    BY <1>8 DEF Recv, InsertOk, InsertDuplicate, Commit
  <2>2. Insertable(n)
    BY DEF CommitInv
  <2> QED BY <1>2, <1>8, <2>1, <2>2, QuietRecv, QuietInsert, QuietCommit
<1>9. ASSUME NEW n \in Nodes, Rebalance(n) \/ InsertError(n) \/ CommitError(n) \/ Shutdown(n) \/ Crash(n)
      PROVE  FALSE
  BY <1>1, <1>9 DEF Rebalance, InsertError, CommitError, Shutdown, Crash, Kinds
<1>10. CASE UNCHANGED vars
  BY <1>2, <1>10 DEF vars, kafka, Quiet, Contiguous, CommittedPersisted
<1> QED BY <1>3, <1>4, <1>5, <1>6, <1>7, <1>8, <1>9, <1>10 DEF Next, Loop

\* Until the first fault every committed message is in the database.
THEOREM FaultlessHolds == Spec => []FaultlessCommitsPersisted
<1>1. QuietInv => FaultlessCommitsPersisted
  BY DEF QuietInv, Quiet, FaultlessCommitsPersisted
<1> QED
  BY <1>1, TypeInit, TypeInductive, CommitInit, CommitInductive, QuietInit, QuietInductive, PTL DEF Spec

-----------------------------------------------------------------------------
(* The abstract log: the owner's position is never behind the committed       *)
(* offset, and the commit it has on the way lies between the two.             *)

Forward(n) ==
    owner = n =>
        /\ committed <= position[n]
        /\ inflight[n] # 0 => committed <= inflight[n] /\ inflight[n] <= position[n]

MarkInv == \A n \in Nodes : Forward(n)

LEMMA MarkInductive ==
  ASSUME TypeInv, MarkInv, [Next]_vars
  PROVE  MarkInv'
<1>0. /\ produced \in Nat /\ committed \in 0 .. produced /\ committed \in Nat
      /\ position \in [Nodes -> 0 .. produced] /\ inflight \in [Nodes -> 0 .. produced]
      /\ \A n \in Nodes : position[n] \in Nat /\ inflight[n] \in Nat
  BY DEF TypeInv, TypeOK
<1> SUFFICES ASSUME NEW m \in Nodes, owner' = m PROVE Forward(m)'
  BY DEF MarkInv, Forward
<1>1. ASSUME NEW n \in Nodes, Assign(n) PROVE Forward(m)'
  BY <1>0, <1>1 DEF Assign, Forward
<1>2. ASSUME NEW n \in Nodes, CommitLands(n) PROVE Forward(m)'
  BY <1>0, <1>2 DEF CommitLands, MarkInv, Forward
<1>3. ASSUME NEW n \in Nodes, Recv(n) PROVE Forward(m)'
  <2>1. /\ UNCHANGED <<committed, owner, inflight>>
        /\ position' = [position EXCEPT ![n] = @ + 1]
    BY <1>3 DEF Recv
  <2>2. inflight'[m] = inflight[m] /\ position[m] <= position'[m] /\ position'[m] \in Nat
    BY <1>0, <2>1
  <2> QED BY <1>0, <2>1, <2>2 DEF MarkInv, Forward
<1>4. ASSUME NEW n \in Nodes, Commit(n) PROVE Forward(m)'
  BY <1>0, <1>4 DEF Commit, MarkInv, Forward
<1>5. ASSUME NEW n \in Nodes, Down(n) PROVE Forward(m)'
  <2>1. owner' # n /\ owner = m /\ m # n
    BY <1>5, OwnerAssumption DEF Down
  <2> QED BY <1>0, <1>5, <2>1 DEF Down, MarkInv, Forward
<1>6. CASE UNCHANGED <<committed, owner, position, inflight>>
  BY <1>6 DEF MarkInv, Forward
<1>7. ASSUME NEW n \in Nodes,
             \/ Deadline(n) \/ ShutdownSeen(n) \/ InsertOk(n) \/ InsertDuplicate(n)
             \/ InsertError(n) \/ CommitError(n) \/ Shutdown(n) \/ Start(n)
      PROVE  Forward(m)'
  BY <1>6, <1>7 DEF Deadline, ShutdownSeen, InsertOk, InsertDuplicate, InsertError,
     Flushed, CommitError, Shutdown, Start, kafka
<1> QED
  BY <1>1, <1>2, <1>3, <1>4, <1>5, <1>6, <1>7
     DEF Next, Loop, Produce, Takeover, Rebalance, Crash, Exit, vars, kafka

\* An insert stores the batch, which then was not stored before; or it gives
\* the batch up, and something has failed: without a fault, each batch consists
\* of the messages that follow the stored ones.
LEMMA InsertRefines ==
  ASSUME TypeInv, QuietInv, NEW n \in Nodes,
         InsertOk(n) \/ InsertDuplicate(n) \/ InsertError(n)
  PROVE  Log!Next
<1> DEFINE batch == Elements(buf[n])
<1>1. /\ UNCHANGED <<produced, committed>>
      /\ tried' = tried \cup batch
      /\ batch \in SUBSET (1 .. produced)
  BY DEF InsertOk, InsertDuplicate, InsertError, Flushed, kafka, TypeInv, Room
<1>2. CASE InsertOk(n)
  <2>1. batch \cap db = {} /\ db' = db \cup batch /\ NoFault' = NoFault
    BY <1>2 DEF InsertOk, Distinct, NoFault
  <2>2. Log!Store(batch)
    BY <1>1, <2>1 DEF Log!Store
  <2> QED BY <1>1, <2>2 DEF Log!Next
<1>3. CASE InsertDuplicate(n)
  <2>1. db' = db /\ NoFault' = NoFault /\ ~Distinct(buf[n])
    BY <1>3 DEF InsertDuplicate, NoFault
  <2>2. ~NoFault
    <3> SUFFICES ASSUME Quiet PROVE FALSE
      BY DEF QuietInv
    <3>1. CASE owner = n
      BY <2>1, <3>1, ContiguousDistinct DEF Quiet
    <3>2. CASE owner # n
      <4>1. Elements(buf[n]) = {} /\ Len(buf[n]) = 0
        BY <3>2, EmptyBuffer DEF Quiet
      <4> QED BY <2>1, <4>1, FS_EmptySet DEF Distinct
    <3> QED BY <3>1, <3>2
  <2>3. Log!GiveUp(batch)
    BY <1>1, <2>1, <2>2 DEF Log!GiveUp
  <2> QED BY <1>1, <2>3 DEF Log!Next
<1>4. CASE InsertError(n)
  <2>1. db' = db /\ ~NoFault'
    BY <1>4, FaultCounts DEF InsertError, TypeInv, Kinds
  <2>2. Log!GiveUp(batch)
    BY <1>1, <2>1 DEF Log!GiveUp
  <2> QED BY <1>1, <2>2 DEF Log!Next
<1> QED BY <1>2, <1>3, <1>4

\* The nodes, their consumers and the database together implement DurableLog,
\* however many nodes crash, lose the partition or are shut down, and whatever
\* the database and the broker refuse.
THEOREM ImplementsDurableLog == Spec => LogSpec
<1>1. Init => Log!Init
  BY DEF Init, Log!Init, NoFault
<1>2. Init => MarkInv
  BY OwnerAssumption DEF Init, MarkInv, Forward
<1>3. TypeInv /\ CommitInv /\ QuietInv /\ MarkInv /\ [Next]_vars => [Log!Next]_Log!state
  <2> SUFFICES ASSUME TypeInv, CommitInv, QuietInv, MarkInv, [Next]_vars
               PROVE  Log!Next \/ UNCHANGED Log!state
    OBVIOUS
  <2>1. CASE Produce
    <3>1. Log!Append
      BY <2>1 DEF Produce, Log!Append, NoFault
    <3> QED BY <3>1 DEF Log!Next
  <2>2. ASSUME NEW k \in Kinds, Fault(k), UNCHANGED <<produced, committed, tried, db>>
        PROVE  Log!Next
    <3>1. ~NoFault'
      BY <2>2, FaultCounts DEF TypeInv
    <3>2. Log!Fail
      BY <2>2, <3>1 DEF Log!Fail
    <3> QED BY <3>2 DEF Log!Next
  <2>3. ASSUME NEW n \in Nodes, CommitLands(n) PROVE Log!Next
    <3>1. /\ committed' = inflight[n] /\ owner = n /\ inflight[n] # 0
          /\ UNCHANGED <<produced, tried, db, faults>>
      BY <2>3 DEF CommitLands
    <3>2. inflight[n] \in 0 .. produced /\ inflight[n] >= committed /\ 1 .. inflight[n] \subseteq tried
      BY <3>1 DEF TypeInv, TypeOK, CommitInv, Insertable, MarkInv, Forward
    <3>3. Log!Advance(inflight[n])
      BY <3>1, <3>2 DEF Log!Advance, NoFault
    <3> QED BY <3>2, <3>3 DEF Log!Next
  <2>4. ASSUME NEW n \in Nodes, InsertOk(n) \/ InsertDuplicate(n) \/ InsertError(n)
        PROVE  Log!Next
    BY <2>4, InsertRefines
  <2>5. ASSUME NEW n \in Nodes,
               Rebalance(n) \/ CommitError(n) \/ Shutdown(n) \/ Crash(n)
        PROVE  Log!Next
    <3>1. UNCHANGED <<produced, committed, tried, db>>
      BY <2>5 DEF Rebalance, Assign, CommitError, Shutdown, Crash, Down, kafka
    <3>2. \E k \in Kinds : Fault(k)
      BY <2>5 DEF Rebalance, CommitError, Shutdown, Crash, Kinds
    <3> QED BY <2>2, <3>1, <3>2
  <2>6. ASSUME UNCHANGED <<produced, committed, tried, db, faults>>
        PROVE  Log!Next \/ UNCHANGED Log!state
    BY <2>6 DEF Log!state, NoFault
  <2>7. ASSUME NEW n \in Nodes,
               \/ Takeover(n) \/ Recv(n) \/ Deadline(n) \/ ShutdownSeen(n)
               \/ Commit(n) \/ Exit(n) \/ Start(n)
        PROVE  Log!Next \/ UNCHANGED Log!state
    BY <2>6, <2>7 DEF Takeover, Assign, Recv, Deadline, ShutdownSeen, Commit, Exit, Down,
       Start, kafka
  <2> QED
    BY <2>1, <2>3, <2>4, <2>5, <2>6, <2>7 DEF Next, Loop, vars, kafka
<1> QED
  BY <1>1, <1>2, <1>3, TypeInit, TypeInductive, CommitInit, CommitInductive, QuietInit,
     QuietInductive, MarkInductive, PTL DEF Spec, LogSpec, Log!Spec
=============================================================================
