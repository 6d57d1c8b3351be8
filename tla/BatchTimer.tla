----------------------------- MODULE BatchTimer -----------------------------
(***************************************************************************)
(* The timing of the consumer loop (KafkaConsumer::run in                  *)
(* kafka/consumer.rs) in discrete time: how long a received message waits  *)
(* in the buffer before its batch is flushed.  Every turn of the loop      *)
(* makes a new sleep of BATCH_MAX_WAIT, and a recv error makes the loop    *)
(* sleep a second inside the turn.  The time of the insert itself is left  *)
(* out.                                                                    *)
(***************************************************************************)
EXTENDS Naturals

CONSTANTS
    BatchMax,    \* BATCH_MAX_SIZE
    BatchWait,   \* BATCH_MAX_WAIT, in ticks
    ErrorWait,   \* the sleep after a recv error, in ticks
    MaxErrors    \* bound on recv errors while a batch is open

ASSUME TimerAssumption ==
    /\ BatchMax \in Nat \ {0} /\ BatchWait \in Nat \ {0}
    /\ ErrorWait \in Nat \ {0} /\ MaxErrors \in Nat

VARIABLES
    len,      \* messages in the buffer
    wait,     \* time since the deadline of this turn was made
    pause,    \* time left of the sleep after an error, 0 in the select
    age,      \* history: time since the first message of the batch was received
    errors    \* history: recv errors since then

vars == <<len, wait, pause, age, errors>>

TypeOK ==
    /\ len \in 0 .. BatchMax - 1
    /\ wait \in 0 .. BatchWait
    /\ pause \in 0 .. ErrorWait
    /\ age \in Nat
    /\ errors \in 0 .. MaxErrors

Init == len = 0 /\ wait = 0 /\ pause = 0 /\ age = 0 /\ errors = 0

\* A batch is flushed, and the loop turns.
Flush == len' = 0 /\ age' = 0 /\ errors' = 0 /\ wait' = 0 /\ UNCHANGED pause

\* Time passes in the select until the deadline.
Tick ==
    /\ pause = 0 /\ wait < BatchWait
    /\ wait' = wait + 1
    /\ age' = IF len > 0 THEN age + 1 ELSE age
    /\ UNCHANGED <<len, pause, errors>>

\* Time passes in the sleep; at its end the loop turns.
TickPause ==
    /\ pause > 0
    /\ pause' = pause - 1
    /\ wait' = IF pause = 1 THEN 0 ELSE wait
    /\ age' = IF len > 0 THEN age + 1 ELSE age
    /\ UNCHANGED <<len, errors>>

Deadline ==
    /\ pause = 0 /\ wait = BatchWait
    /\ Flush

\* A message: a full batch is flushed, and the loop turns in any case.  It may
\* arrive up to the instant before the deadline, which the select prefers.
RecvAt(size) ==
    /\ pause = 0
    /\ \/ len + 1 >= size /\ Flush
       \/ /\ len + 1 < size
          /\ len' = len + 1 /\ wait' = 0
          /\ UNCHANGED <<pause, age, errors>>

\* Mutant: a batch is full one message later.
RecvLate == RecvAt(BatchMax + 1)

Recv == RecvAt(BatchMax)

\* recv returns an error; errors are counted while a batch is open.
RecvError ==
    /\ pause = 0
    /\ errors < MaxErrors
    /\ errors' = IF len > 0 THEN errors + 1 ELSE errors
    /\ pause' = ErrorWait
    /\ UNCHANGED <<len, wait, age>>

Next == Tick \/ TickPause \/ Deadline \/ Recv \/ RecvError

Spec == Init /\ [][Next]_vars

-----------------------------------------------------------------------------
(* Properties *)

\* What the loop guarantees: the deadline starts again with each message and
\* each error, so that a message waits at most BatchWait for each message that
\* joins its batch, and BatchWait and ErrorWait for each error.
AgeBounded == age <= (BatchMax - 1) * BatchWait + errors * (BatchWait + ErrorWait)
=============================================================================
