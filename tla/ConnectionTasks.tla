--------------------------- MODULE ConnectionTasks ---------------------------
(***************************************************************************)
(* The two tasks of a WebSocket connection and the time they keep          *)
(* (handle_socket in server/ws.rs): the send task, which writes what is in *)
(* the connection's channel to the socket, the receive task, which handles *)
(* the client's frames and sends heartbeats, and the select that ends both *)
(* with the first of them.                                                 *)
(*                                                                         *)
(* Time is discrete, and passes only when no task has anything to do: the  *)
(* runtime is taken to be faster than a tick.  What may take time is in    *)
(* the environment: a write to the socket, its close, and the database and *)
(* Redis, which a handler awaits.                                          *)
(*                                                                         *)
(* The task aborted by the select stops at its await.  It can be within a  *)
(* step on another thread then, and ends that step after the guard ran:    *)
(* the step finds the connection out of the registry, as it does here.     *)
(***************************************************************************)
EXTENDS Integers

CONSTANTS
    Interval,     \* HEARTBEAT_INTERVAL, in ticks
    Timeout,      \* HEARTBEAT_TIMEOUT
    SendTimeout,  \* SEND_TIMEOUT
    Capacity,     \* CHANNEL_CAPACITY
    AnswerTime,   \* what NoFalseTimeout allows a client to answer a ping
    MaxFrames,    \* bound on the frames the socket holds
    MaxHandler,   \* bound on the time a handler takes
    MaxOverdue    \* bound on the heartbeats a client's text can delay

ASSUME TimeAssumption ==
    /\ Interval \in Nat \ {0} /\ Timeout \in Nat /\ SendTimeout \in Nat
    /\ MaxHandler \in Nat /\ MaxOverdue \in Nat
    /\ AnswerTime \in Nat /\ Interval + AnswerTime <= Timeout
ASSUME CapacityAssumption == Capacity \in Nat \ {0} /\ MaxFrames \in Nat

VARIABLES
    over,        \* handle_socket has returned and its guard has run
    registered,  \* the registry holds the sender of the channel
    queue,       \* messages in the channel
    send,        \* the send task
    sendFor,     \* time the write has taken
    recv,        \* the receive task
    handlerFor,  \* time the handler has taken
    frames,      \* frames the client sent and the receive task has not taken
    idle,        \* last_activity.elapsed()
    next,        \* time until the next heartbeat is due; negative: overdue
    asked,       \* history: a ping is out, and no frame has come in since
    waiting,     \* history: for how long
    timedOut,    \* history: the heartbeat ended the connection
    excuses      \* history: what may make it do so to a client that is there

vars == <<over, registered, queue, send, sendFor, recv, handlerFor, frames,
          idle, next, asked, waiting, timedOut, excuses>>

channel == <<registered, queue>>
sender == <<send, sendFor>>
receiver == <<recv, handlerFor, frames, idle, next>>
history == <<asked, waiting, timedOut, excuses>>

\* The handler's share of the timeout: more of it, and the answer may be late.
HandlerTime == Timeout - AnswerTime

TypeOK ==
    /\ over \in BOOLEAN /\ registered \in BOOLEAN
    /\ queue \in 0 .. Capacity
    /\ send \in {"recv", "sending", "closing", "ended"}
    /\ sendFor \in 0 .. SendTimeout
    /\ recv \in {"select", "handler", "ended"}
    /\ handlerFor \in 0 .. MaxHandler
    /\ frames \in 0 .. MaxFrames
    /\ idle \in Nat
    /\ next \in Int /\ next <= Interval
    /\ asked \in BOOLEAN /\ waiting \in Nat
    /\ timedOut \in BOOLEAN
    /\ excuses \subseteq {"late", "slow", "evicted"}

\* The first tick of an interval is due at once.
Init ==
    /\ over = FALSE /\ registered = TRUE
    /\ queue = 0
    /\ send = "recv" /\ sendFor = 0
    /\ recv = "select" /\ handlerFor = 0 /\ frames = 0
    /\ idle = 0 /\ next = 0
    /\ asked = FALSE /\ waiting = 0 /\ timedOut = FALSE /\ excuses = {}

-----------------------------------------------------------------------------
(* The channel *)

Evict ==
    /\ registered' = FALSE
    /\ excuses' = excuses \cup {"evicted"}
    /\ UNCHANGED queue

\* Mutant: one message too many.
RoomOverflow == queue <= Capacity /\ send # "ended"

Room == queue < Capacity /\ send # "ended"

\* send_msg_to_user: a channel that is full or closed is evicted.
Offer ==
    IF Room
    THEN queue' = queue + 1 /\ UNCHANGED <<registered, excuses>>
    ELSE Evict

\* Someone sends the user a message, or another device its heartbeat.
Message ==
    /\ registered
    /\ Offer
    /\ UNCHANGED <<over, sender, receiver, asked, waiting, timedOut>>

-----------------------------------------------------------------------------
(* The send task *)

Take ==
    /\ send = "recv" /\ queue > 0
    /\ queue' = queue - 1
    /\ send' = "sending" /\ sendFor' = 0
    /\ UNCHANGED <<over, registered, receiver, history>>

\* The socket takes the message.
SendDone ==
    /\ send = "sending"
    /\ send' = "recv"
    /\ UNCHANGED <<over, channel, sendFor, receiver, history>>

\* The loop ends, and the socket is being closed.
LeaveLoop ==
    /\ send' = "closing"
    /\ UNCHANGED <<over, channel, sendFor, receiver, history>>

SendFails == send = "sending" /\ LeaveLoop

\* The write takes too long.
SendTimesOut == send = "sending" /\ sendFor = SendTimeout /\ LeaveLoop

\* The channel is empty, and the registry has dropped its sender.
ChannelEnds == send = "recv" /\ queue = 0 /\ ~registered /\ LeaveLoop

\* The close is through, or has failed.  It has no timeout.
Closed ==
    /\ send = "closing"
    /\ send' = "ended"
    /\ UNCHANGED <<over, channel, sendFor, receiver, history>>

-----------------------------------------------------------------------------
(* The receive task *)

\* The client sends a frame.
Arrive ==
    /\ ~over /\ frames < MaxFrames
    /\ frames' = frames + 1
    /\ asked' = FALSE /\ waiting' = 0
    /\ UNCHANGED <<over, channel, sender, recv, handlerFor, idle, next, timedOut, excuses>>

\* A frame is taken, text to be handled, the others to be ignored.  The select
\* picks a frame or the heartbeat at random; MaxOverdue bounds its bad luck.
Receive(text, activity) ==
    /\ recv = "select" /\ frames > 0
    /\ text => next + MaxOverdue >= 0
    /\ frames' = frames - 1
    /\ idle' = activity
    /\ recv' = IF text THEN "handler" ELSE "select"
    /\ handlerFor' = 0
    /\ UNCHANGED <<over, channel, sender, next, history>>

\* Mutant: only text is activity.
FrameTextOnly(text) == Receive(text, IF text THEN 0 ELSE idle)

Frame(text) == Receive(text, 0)

HandlerDone ==
    /\ recv = "handler"
    /\ recv' = "select"
    /\ UNCHANGED <<over, channel, sender, handlerFor, frames, idle, next, history>>

HeartbeatAfter(elapsed) ==
    /\ recv = "select" /\ next <= 0
    /\ next' = next + Interval
    /\ IF elapsed > Timeout
       THEN /\ recv' = "ended" /\ timedOut' = TRUE
            /\ UNCHANGED <<channel, asked, waiting, excuses>>
       ELSE /\ IF registered THEN Offer ELSE UNCHANGED <<channel, excuses>>
            /\ IF registered' /\ ~asked
               THEN asked' = TRUE /\ waiting' = 0
               ELSE UNCHANGED <<asked, waiting>>
            /\ UNCHANGED <<recv, timedOut>>
    /\ UNCHANGED <<over, sender, handlerFor, frames, idle>>

\* Mutant: the heartbeat waits for an interval more.
HeartbeatLenient == HeartbeatAfter(idle - Interval)

\* The interval ticks: a tick that is missed is made up for (Burst).
Heartbeat == HeartbeatAfter(idle)

\* The client sends a close frame, or the stream ends or fails.
RecvEnd ==
    /\ recv = "select"
    /\ recv' = "ended"
    /\ UNCHANGED <<over, channel, sender, handlerFor, frames, idle, next, history>>

-----------------------------------------------------------------------------
(* The select of handle_socket, and time *)

\* Mutant: the send task is waited for.
EndAfterSend ==
    /\ ~over /\ send = "ended"
    /\ over' = TRUE /\ registered' = FALSE
    /\ send' = "ended" /\ recv' = "ended"
    /\ UNCHANGED <<queue, sendFor, handlerFor, frames, idle, next, history>>

\* One task has ended: the other is aborted, and the guard is dropped, which
\* takes the connection out of the registry.
End ==
    /\ ~over
    /\ send = "ended" \/ recv = "ended"
    /\ over' = TRUE /\ registered' = FALSE
    /\ send' = "ended" /\ recv' = "ended"
    /\ UNCHANGED <<queue, sendFor, handlerFor, frames, idle, next, history>>

\* A task has something to do.
Ready ==
    \/ send = "recv" /\ (queue > 0 \/ ~registered)
    \/ send = "sending" /\ sendFor = SendTimeout
    \/ recv = "select" /\ (frames > 0 \/ next <= 0)
    \/ recv = "handler" /\ handlerFor = MaxHandler
    \/ send = "ended" \/ recv = "ended"

Tick ==
    /\ ~Ready
    /\ idle' = idle + 1 /\ next' = next - 1
    /\ sendFor' = IF send = "sending" THEN sendFor + 1 ELSE sendFor
    /\ handlerFor' = IF recv = "handler" THEN handlerFor + 1 ELSE handlerFor
    /\ waiting' = IF asked THEN waiting + 1 ELSE waiting
    /\ excuses' = excuses
        \cup (IF asked /\ waiting >= AnswerTime THEN {"late"} ELSE {})
        \cup (IF recv = "handler" /\ handlerFor >= HandlerTime THEN {"slow"} ELSE {})
    /\ UNCHANGED <<over, channel, send, recv, frames, asked, timedOut>>

\* Every step of the program's own, which the runtime takes in time.
Runtime ==
    \/ Take \/ SendTimesOut \/ ChannelEnds
    \/ \E text \in BOOLEAN : Frame(text)
    \/ Heartbeat \/ HandlerDone \/ End

Environment == Message \/ SendDone \/ SendFails \/ Closed \/ Arrive \/ RecvEnd

Next == Runtime \/ Environment \/ Tick

Spec == Init /\ [][Next]_vars

\* The runtime runs a task that can run, a timer fires, and the database and
\* Redis answer a handler.  Nothing is asked of the client and its socket.
Fairness ==
    /\ WF_vars(Take) /\ WF_vars(SendTimesOut) /\ WF_vars(ChannelEnds)
    /\ WF_vars(\E text \in BOOLEAN : Frame(text))
    /\ WF_vars(Heartbeat) /\ WF_vars(HandlerDone) /\ WF_vars(End)
    /\ WF_vars(Tick)

FairSpec == Spec /\ Fairness

-----------------------------------------------------------------------------
(* Properties *)

\* A client that answers every ping within AnswerTime loses the connection to
\* the heartbeat for two reasons only: the handler of one of its messages took
\* the rest of the timeout, since the task that reads its answers is the task
\* that waits for the database and Redis, or the connection was evicted, and
\* got no more pings.  A heartbeat that came late or in a burst is no reason.
NoFalseTimeout == timedOut => excuses # {}

\* A client that is silent is noticed: whenever the heartbeats a handler held
\* back are made up for, a receive task that goes on had a frame within the
\* timeout and one interval.
SilentDetected == recv = "select" /\ next >= 0 => idle <= Timeout + Interval

\* A connection that was evicted comes to an end and gives its tenant's slot
\* back, though the close of its socket may hang: once the client stops
\* sending, the heartbeat ends it.  A client that goes on sending keeps it.
EvictedEnds == []<>(frames > 0) \/ (~registered ~> over)

=============================================================================
