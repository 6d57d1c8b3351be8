--------------------------- MODULE KafkaPersistence ---------------------------
(***************************************************************************)
(* How messages get from the Kafka topic into Postgres: the consumer loop  *)
(* of each node (kafka/consumer.rs), the batch insert (db/mod.rs), and the *)
(* part of the process's life that matters to it (app.rs).                 *)
(*                                                                         *)
(* One partition is modelled, since partitions are independent.  Its       *)
(* messages are the offsets 1 .. produced, and a message's id is its       *)
(* offset.  Kafka itself, external to the code, is a log, a committed      *)
(* offset, an owner among the members of the group and, for each node, the *)
(* position of its consumer and the commit it has on the way.  A payload   *)
(* that does not parse, which the loop skips, is not modelled: only        *)
(* persist_message writes to the topic.  Time is in BatchTimer.            *)
(*                                                                         *)
(* Where a node's loop stands (pc):                                        *)
(*   down    no process             select  waits in tokio::select!        *)
(*   flush   awaits the insert      commit  the insert has returned        *)
(*   last flush, last commit        the same, after the shutdown signal    *)
(*   stopped run has returned, the process lives on                        *)
(***************************************************************************)
EXTENDS Naturals, Sequences, FiniteSets

CONSTANTS
    Nodes,          \* processes, members of one consumer group
    NoOwner,        \* the owner of the partition while the group rebalances
    BatchMax,       \* BATCH_MAX_SIZE
    MaxProduced,    \* bound on the messages produced
    MaxStops,       \* bound on crashes and exits
    MaxRebalances,  \* bound on moves of the partition away from a live owner
    MaxDbErrors,    \* bound on inserts that fail for a reason of the database
    MaxCommitErrors \* bound on commits that librdkafka refuses at once

ASSUME BatchAssumption == BatchMax \in Nat \ {0}
ASSUME OwnerAssumption == NoOwner \notin Nodes
ASSUME BoundAssumption ==
    /\ MaxProduced \in Nat /\ MaxStops \in Nat /\ MaxRebalances \in Nat
    /\ MaxDbErrors \in Nat /\ MaxCommitErrors \in Nat

VARIABLES
    produced,      \* number of messages in the log
    committed,     \* the group's committed offset: all up to it are done
    owner,         \* the member the partition is assigned to
    position,      \* of each node's consumer: the offset it received last
    inflight,      \* of each node: the offset of its asynchronous commit, or 0
    pc, buf,       \* the loop of each node, and its buffer of offsets
    shutdown,      \* of each node: the permit of its Notify
    db,            \* the messages in Postgres
    tried,         \* history: messages that were part of some insert
    faults         \* number of stops, rebalances and errors so far

kafka == <<produced, committed, owner, position, inflight>>
vars == <<kafka, pc, buf, shutdown, db, tried, faults>>

Offsets == 1 .. MaxProduced

Kinds == {"stop", "rebalance", "db", "commit"}

Bound == [stop |-> MaxStops, rebalance |-> MaxRebalances,
          db |-> MaxDbErrors, commit |-> MaxCommitErrors]

PCs == {"down", "select", "flush", "commit", "last flush", "last commit", "stopped"}

TypeOK ==
    /\ produced \in 0 .. MaxProduced
    /\ committed \in 0 .. produced
    /\ owner \in Nodes \cup {NoOwner}
    /\ position \in [Nodes -> 0 .. produced]
    /\ inflight \in [Nodes -> 0 .. produced]
    /\ pc \in [Nodes -> PCs]
    /\ buf \in [Nodes -> Seq(Offsets)]
    /\ \A n \in Nodes : Len(buf[n]) <= BatchMax
    /\ shutdown \in [Nodes -> {"none", "stored", "taken"}]
    /\ db \subseteq 1 .. produced
    /\ tried \subseteq 1 .. produced
    /\ faults \in [Kinds -> Nat]
    /\ \A k \in Kinds : faults[k] <= Bound[k]

Init ==
    /\ produced = 0 /\ committed = 0
    /\ owner = NoOwner
    /\ position = [n \in Nodes |-> 0]
    /\ inflight = [n \in Nodes |-> 0]
    /\ pc = [n \in Nodes |-> "select"]
    /\ buf = [n \in Nodes |-> << >>]
    /\ shutdown = [n \in Nodes |-> "none"]
    /\ db = {} /\ tried = {}
    /\ faults = [k \in Kinds |-> 0]

Goto(n, l) == pc' = [pc EXCEPT ![n] = l]

Fault(k) ==
    /\ faults[k] < Bound[k]
    /\ faults' = [faults EXCEPT ![k] = @ + 1]

-----------------------------------------------------------------------------
(* Kafka *)

\* persist_message of some node: the broker has acknowledged the message.
Produce ==
    /\ produced < MaxProduced
    /\ produced' = produced + 1
    /\ UNCHANGED <<committed, owner, position, inflight, pc, buf, shutdown, db, tried, faults>>

\* The partition goes to node n, which reads on from the committed offset.
\* Commits of earlier owners are fenced by the group's generation.
Assign(n) ==
    /\ pc[n] \notin {"down", "stopped"}
    /\ owner' = n
    /\ position' = [position EXCEPT ![n] = committed]
    /\ inflight' = [m \in Nodes |-> 0]
    /\ UNCHANGED <<produced, committed, pc, buf, shutdown, db, tried>>

\* There is no owner, or it no longer polls and its session times out.
Takeover(n) ==
    /\ owner \in {NoOwner} \cup {m \in Nodes : pc[m] = "stopped"}
    /\ Assign(n)
    /\ UNCHANGED faults

\* A member joined, or the owner was too slow: it loses the partition and
\* keeps its buffer.
Rebalance(n) ==
    /\ owner \in Nodes \ {n}
    /\ Fault("rebalance")
    /\ Assign(n)

CommitLands(n) ==
    /\ owner = n /\ inflight[n] # 0
    /\ committed' = inflight[n]
    /\ inflight' = [inflight EXCEPT ![n] = 0]
    /\ UNCHANGED <<produced, owner, position, pc, buf, shutdown, db, tried, faults>>

-----------------------------------------------------------------------------
(* The consumer loop; the select is biased: a pending shutdown comes first *)

Waiting(n) == pc[n] = "select" /\ shutdown[n] # "stored"

Recv(n) ==
    /\ Waiting(n)
    /\ owner = n /\ position[n] < produced
    /\ position' = [position EXCEPT ![n] = @ + 1]
    /\ buf' = [buf EXCEPT ![n] = Append(@, position[n] + 1)]
    /\ Goto(n, IF Len(buf[n]) + 1 >= BatchMax THEN "flush" ELSE "select")
    /\ UNCHANGED <<produced, committed, owner, inflight, shutdown, db, tried, faults>>

\* Mutant: the timer flushes only a batch that is more than half full.
LazyDeadline(n) ==
    /\ Waiting(n)
    /\ 2 * Len(buf[n]) > BatchMax
    /\ Goto(n, "flush")
    /\ UNCHANGED <<kafka, buf, shutdown, db, tried, faults>>

\* BATCH_MAX_WAIT elapsed.
Deadline(n) ==
    /\ Waiting(n)
    /\ buf[n] # << >>
    /\ Goto(n, "flush")
    /\ UNCHANGED <<kafka, buf, shutdown, db, tried, faults>>

\* shutdown.notified(): flush what is buffered, and return.
ShutdownSeen(n) ==
    /\ pc[n] = "select" /\ shutdown[n] = "stored"
    /\ shutdown' = [shutdown EXCEPT ![n] = "taken"]
    /\ Goto(n, IF buf[n] = << >> THEN "stopped" ELSE "last flush")
    /\ UNCHANGED <<kafka, buf, db, tried, faults>>

Elements(s) == {s[i] : i \in 1 .. Len(s)}

\* No id of the batch is in the table or occurs twice in the batch.
Distinct(batch) ==
    Elements(batch) \cap db = {} /\ Cardinality(Elements(batch)) = Len(batch)

\* Mutant: the batch is cloned into the batcher, and not drained.
FlushedUndrained(n) ==
    /\ tried' = tried \cup Elements(buf[n])
    /\ Goto(n, IF pc[n] = "flush" THEN "commit" ELSE "last commit")
    /\ UNCHANGED <<kafka, buf, shutdown>>

\* What follows the insert, successful or not: the batcher that holds the
\* batch is local to flush_batch.
Flushed(n) ==
    /\ tried' = tried \cup Elements(buf[n])
    /\ buf' = [buf EXCEPT ![n] = << >>]
    /\ Goto(n, IF pc[n] = "flush" THEN "commit" ELSE "last commit")
    /\ UNCHANGED <<kafka, shutdown>>

Flushing(n) == pc[n] \in {"flush", "last flush"}

\* One INSERT for the whole batch.
InsertOk(n) ==
    /\ Flushing(n)
    /\ Distinct(buf[n])
    /\ db' = db \cup Elements(buf[n])
    /\ Flushed(n)
    /\ UNCHANGED faults

\* The primary key refuses the whole batch because of one of its messages;
\* the messages are put back into the batcher, which is then dropped.
InsertDuplicate(n) ==
    /\ Flushing(n)
    /\ ~Distinct(buf[n])
    /\ Flushed(n)
    /\ UNCHANGED <<db, faults>>

\* The database is not reachable or refuses a row: likewise.
InsertError(n) ==
    /\ Flushing(n)
    /\ Fault("db")
    /\ Flushed(n)
    /\ UNCHANGED db

Committing(n) == pc[n] \in {"commit", "last commit"}

\* Mutant: a full batch is committed before it is inserted.
CommitEarly(n) ==
    /\ \/ Committing(n) /\ Goto(n, IF pc[n] = "commit" THEN "select" ELSE "stopped")
       \/ pc[n] = "flush" /\ UNCHANGED pc
    /\ inflight' = IF owner = n THEN [inflight EXCEPT ![n] = position[n]] ELSE inflight
    /\ UNCHANGED <<produced, committed, owner, position, buf, shutdown, db, tried, faults>>

\* commit_consumer_state sends the consumer's position; a node that lost the
\* partition has nothing to commit.
Commit(n) ==
    /\ Committing(n)
    /\ inflight' = IF owner = n THEN [inflight EXCEPT ![n] = position[n]] ELSE inflight
    /\ Goto(n, IF pc[n] = "commit" THEN "select" ELSE "stopped")
    /\ UNCHANGED <<produced, committed, owner, position, buf, shutdown, db, tried, faults>>

\* The commit is refused: `?` ends the loop.
CommitError(n) ==
    /\ Committing(n)
    /\ Fault("commit")
    /\ Goto(n, "stopped")
    /\ UNCHANGED <<kafka, buf, shutdown, db, tried>>

-----------------------------------------------------------------------------
(* The process *)

\* axum::serve has returned: k.shutdown() stores a permit.
Shutdown(n) ==
    /\ pc[n] # "down" /\ shutdown[n] = "none"
    /\ Fault("stop")
    /\ shutdown' = [shutdown EXCEPT ![n] = "stored"]
    /\ UNCHANGED <<kafka, pc, buf, db, tried>>

\* Whatever the process held is gone, and the group notices.
Down(n) ==
    /\ pc[n] # "down"
    /\ Goto(n, "down")
    /\ buf' = [buf EXCEPT ![n] = << >>]
    /\ shutdown' = [shutdown EXCEPT ![n] = "none"]
    /\ owner' = IF owner = n THEN NoOwner ELSE owner
    /\ inflight' = [inflight EXCEPT ![n] = 0]
    /\ position' = [position EXCEPT ![n] = 0]
    /\ UNCHANGED <<produced, committed, db, tried>>

Crash(n) ==
    /\ Fault("stop")
    /\ Down(n)

\* run returns right after k.shutdown() and main with it: nothing waits for
\* the consumer task, which may have taken the permit, or not yet.
Exit(n) ==
    /\ shutdown[n] # "none"
    /\ Down(n)
    /\ UNCHANGED faults

Start(n) ==
    /\ pc[n] = "down"
    /\ Goto(n, "select")
    /\ UNCHANGED <<kafka, buf, shutdown, db, tried, faults>>

Loop(n) ==
    \/ Recv(n) \/ Deadline(n) \/ ShutdownSeen(n)
    \/ InsertOk(n) \/ InsertDuplicate(n) \/ InsertError(n)
    \/ Commit(n) \/ CommitError(n)

Next ==
    \/ Produce
    \/ \E n \in Nodes :
        \/ Takeover(n) \/ Rebalance(n) \/ CommitLands(n)
        \/ Loop(n)
        \/ Shutdown(n) \/ Crash(n) \/ Exit(n) \/ Start(n)

Spec == Init /\ [][Next]_vars

\* A group with members assigns the partition, the broker takes commits, and
\* the task of a running loop is polled.  Nothing makes a message be produced,
\* a process stop or a process start.
Fairness ==
    /\ WF_vars(\E n \in Nodes : Takeover(n))
    /\ \A n \in Nodes :
        /\ WF_vars(Recv(n)) /\ WF_vars(Deadline(n)) /\ WF_vars(ShutdownSeen(n))
        /\ WF_vars(InsertOk(n) \/ InsertDuplicate(n))
        /\ WF_vars(Commit(n)) /\ WF_vars(CommitLands(n))

FairSpec == Spec /\ Fairness

-----------------------------------------------------------------------------
(* Properties *)

\* "manual commit after DB flush" (kafka/consumer.rs:27): no committed message
\* has skipped the insert, whichever nodes crashed, lost the partition or were
\* shut down between receiving it and committing.
TriedBeforeCommitted == 1 .. committed \subseteq tried

\* Durability ("Messages go through Kafka for durability", README.md:222): a
\* message that Kafka will not deliver again is in the database.
CommittedPersisted == 1 .. committed \subseteq db

NoFault == \A k \in Kinds : faults[k] = 0

\* It holds as long as nothing goes wrong: no message is committed past by the
\* consumer's position while its batch still waits, whoever owns the partition
\* and however a full batch, the timer and the landing commits interleave.
FaultlessCommitsPersisted == NoFault => CommittedPersisted

\* Every produced message gets into the database, as long as nothing goes
\* wrong.
EventuallyPersisted == \A m \in Offsets : (m <= produced) ~> (m \in db \/ ~NoFault)

\* The log, the committed offset and the table, as DurableLog has them.
Log == INSTANCE DurableLog
           WITH length <- produced, mark <- committed, handled <- tried,
                stored <- db, failed <- ~NoFault

\* Every step of the nodes, of Kafka and of the database is a step DurableLog
\* allows, or changes nothing of the log: over any number of owners the offset
\* never goes back, a batch is stored whole and once, and none is given up, by
\* the primary key for one, before something has failed.
LogSpec == Log!Spec
=============================================================================
