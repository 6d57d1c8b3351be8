----------------------------- MODULE DurableLog -----------------------------
(***************************************************************************)
(* What persistence through Kafka promises to the rest of the system       *)
(* (README.md "Durable persistence", docs/ARCHITECTURE.md "KafkaConsumer"):*)
(* messages are appended to a log, and whole batches of them are stored,   *)
(* each message once and for good.  A mark of what is done moves through   *)
(* the log, never back, and never over a message of which no batch was     *)
(* handed to the database.  A batch may be given up instead of stored, but *)
(* not before something has failed.  Nodes, partitions, offsets in flight, *)
(* buffers and shutdowns do not appear here; KafkaPersistence implements   *)
(* this specification.                                                     *)
(***************************************************************************)
EXTENDS Naturals

VARIABLES
    length,   \* number of messages in the log
    mark,     \* all messages up to it will not be delivered again
    handled,  \* the messages that were part of a batch
    stored,   \* the messages in the database
    failed    \* whether anything has failed

state == <<length, mark, handled, stored, failed>>

Init == length = 0 /\ mark = 0 /\ handled = {} /\ stored = {} /\ failed = FALSE

Append ==
    /\ length' = length + 1
    /\ UNCHANGED <<mark, handled, stored, failed>>

\* All of a batch of messages that are not stored yet, or none.
Store(batch) ==
    /\ batch \cap stored = {}
    /\ stored' = stored \cup batch
    /\ handled' = handled \cup batch
    /\ UNCHANGED <<length, mark, failed>>

GiveUp(batch) ==
    /\ failed'
    /\ handled' = handled \cup batch
    /\ UNCHANGED <<length, mark, stored>>

Advance(k) ==
    /\ k >= mark
    /\ 1 .. k \subseteq handled
    /\ mark' = k
    /\ UNCHANGED <<length, handled, stored, failed>>

Fail ==
    /\ failed'
    /\ UNCHANGED <<length, mark, handled, stored>>

Next ==
    \/ Append \/ Fail
    \/ \E batch \in SUBSET (1 .. length) : Store(batch) \/ GiveUp(batch)
    \/ \E k \in 0 .. length : Advance(k)

Spec == Init /\ [][Next]_state
=============================================================================
