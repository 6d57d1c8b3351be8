------------------------ MODULE ConnectionTasksProofs ------------------------
(***************************************************************************)
(* Proofs about ConnectionTasks, for every interval, timeout and capacity. *)
(*                                                                         *)
(* NoFalseTimeout is not inductive: it needs to be known how far the clock *)
(* of the last frame, that of the heartbeat and that of the ping the       *)
(* client is to answer can be apart, in every state the receive task can   *)
(* be in.  Prompt is that relation while nothing excuses a timeout, and    *)
(* Overdue the one that holds in any case.                                 *)
(***************************************************************************)
EXTENDS ConnectionTasks, TLAPS

\* The two halves of TypeOK: the provers take Booleans and numbers apart.
Flags ==
    /\ over \in BOOLEAN /\ registered \in BOOLEAN
    /\ asked \in BOOLEAN /\ timedOut \in BOOLEAN

Ranges ==
    /\ queue \in 0 .. Capacity
    /\ send \in {"recv", "sending", "closing", "ended"}
    /\ sendFor \in 0 .. SendTimeout
    /\ recv \in {"select", "handler", "ended"}
    /\ handlerFor \in 0 .. MaxHandler
    /\ frames \in 0 .. MaxFrames
    /\ idle \in Nat
    /\ next \in Int /\ next <= Interval
    /\ waiting \in Nat
    /\ excuses \subseteq {"late", "slow", "evicted"}

\* What the select of the receive task knows while it has no frame to take.
Quiet ==
    IF asked
    THEN idle <= waiting + HandlerTime
    ELSE idle + next <= Interval /\ (next < 0 => idle <= HandlerTime)

Prompt ==
    /\ ~timedOut
    /\ registered \/ over
    /\ asked => waiting <= AnswerTime
    /\ recv = "handler" =>
        /\ idle = handlerFor /\ handlerFor <= HandlerTime
        /\ idle + next <= Interval
    /\ recv = "select" => idle <= Timeout /\ (frames = 0 => Quiet)

Overdue == recv # "ended" => idle + next <= Timeout + Interval

IInv ==
    /\ Ranges
    /\ over => recv = "ended"
    /\ excuses = {} => Prompt
    /\ Overdue

-----------------------------------------------------------------------------

LEMMA Sizes ==
    /\ Capacity \in Nat /\ SendTimeout \in Nat /\ MaxHandler \in Nat
    /\ MaxFrames \in Nat
BY TimeAssumption, CapacityAssumption

LEMMA FlagsInv == Spec => []Flags
<1>1. Init => Flags
  BY DEF Init, Flags
<1>2. Flags /\ [Next]_vars => Flags'
  <2>. SUFFICES ASSUME Flags, [Next]_vars PROVE Flags'
    OBVIOUS
  <2>. USE DEF Flags, channel, history
  <2>1. CASE Take \/ SendDone \/ SendTimesOut \/ SendFails \/ ChannelEnds \/ Closed
    BY <2>1 DEF Take, SendDone, SendTimesOut, SendFails, ChannelEnds, Closed, LeaveLoop
  <2>2. CASE Message
    BY <2>2 DEF Message, Offer, Evict
  <2>3. CASE Arrive \/ (\E text \in BOOLEAN : Frame(text)) \/ HandlerDone \/ RecvEnd
    BY <2>3 DEF Arrive, Frame, Receive, HandlerDone, RecvEnd
  <2>4. CASE Heartbeat
    <3>1. CASE idle > Timeout
      BY <2>4, <3>1 DEF Heartbeat, HeartbeatAfter
    <3>2. CASE ~(idle > Timeout)
      BY <2>4, <3>2 DEF Heartbeat, HeartbeatAfter, Offer, Evict
    <3>. QED
      BY <3>1, <3>2
  <2>5. CASE End \/ Tick
    BY <2>5 DEF End, Tick
  <2>6. CASE UNCHANGED vars
    BY <2>6 DEF vars
  <2>. QED
    BY <2>1, <2>2, <2>3, <2>4, <2>5, <2>6 DEF Next, Runtime, Environment
<1>. QED
  BY <1>1, <1>2, PTL DEF Spec

\* Offering a message to the channel leaves the registry alone, or is an
\* eviction.
LEMMA OfferStep ==
    ASSUME Ranges, Offer
    PROVE  /\ queue' \in 0 .. Capacity
           /\ excuses' \subseteq {"late", "slow", "evicted"}
           /\ \/ (registered' <=> registered) /\ excuses' = excuses
              \/ excuses' # {}
<1>1. CASE Room
  <2>1. queue' \in 0 .. Capacity
    BY <1>1, CapacityAssumption DEF Ranges, Offer, Room
  <2>. QED
    BY <1>1, <2>1 DEF Ranges, Offer
<1>2. CASE ~Room
  BY <1>2 DEF Ranges, Offer, Evict
<1>. QED
  BY <1>1, <1>2

LEMMA InitIInv == Init => IInv
BY TimeAssumption, CapacityAssumption
   DEF Init, IInv, Ranges, Prompt, Quiet, Overdue, HandlerTime

\* Steps of the send task.
LEMMA SenderStep ==
    ASSUME IInv, Take \/ SendDone \/ (LeaveLoop /\ send # "ended") \/ Closed
    PROVE  IInv'
<1>. USE DEF Take, SendDone, LeaveLoop, Closed, channel, receiver, history
<1>1. Ranges /\ Overdue
  BY DEF IInv
<1>2. Ranges'
  <2>1. CASE Take
    BY <1>1, <2>1, Sizes DEF Ranges
  <2>2. CASE ~Take
    BY <1>1, <2>2, Sizes DEF Ranges
  <2>. QED
    BY <2>1, <2>2
<1>3. over' => recv' = "ended"
  BY DEF IInv
<1>4. excuses' = {} => Prompt'
  BY TimeAssumption DEF IInv, Ranges, Prompt, Quiet, HandlerTime
<1>5. Overdue'
  BY <1>1, TimeAssumption DEF Ranges, Overdue
<1>. QED
  BY <1>2, <1>3, <1>4, <1>5 DEF IInv

LEMMA MessageStep == ASSUME IInv, Message PROVE IInv'
<1>1. Ranges /\ Offer
  BY DEF IInv, Message
<1>2. Ranges'
  BY <1>1, OfferStep, <1>1 DEF Ranges, Message, sender, receiver
<1> QED
  BY <1>1, <1>2, OfferStep
     DEF IInv, Prompt, Quiet, Overdue, HandlerTime, Message, sender, receiver

LEMMA ArriveStep ==
    ASSUME IInv, Arrive
    PROVE  IInv'
<1>. USE DEF Arrive, channel, sender
<1>1. Ranges /\ Overdue
  BY DEF IInv
<1>2. Ranges'
  BY <1>1, Sizes DEF Ranges
<1>3. over' => recv' = "ended"
  BY DEF IInv
<1>4. excuses' = {} => Prompt'
  BY TimeAssumption DEF IInv, Ranges, Prompt, Quiet, HandlerTime
<1>5. Overdue'
  BY <1>1, TimeAssumption DEF Ranges, Overdue
<1>. QED
  BY <1>2, <1>3, <1>4, <1>5 DEF IInv

LEMMA FrameStep ==
    ASSUME IInv, NEW text \in BOOLEAN, Frame(text)
    PROVE  IInv'
<1>. USE DEF Frame, Receive, channel, sender, history
<1>1. Ranges /\ Overdue
  BY DEF IInv
<1>2. Ranges'
  BY <1>1, Sizes DEF Ranges
<1>3. over' => recv' = "ended"
  BY DEF IInv
<1>4. excuses' = {} => Prompt'
  BY TimeAssumption DEF IInv, Ranges, Prompt, Quiet, HandlerTime
<1>5. Overdue'
  BY <1>1, TimeAssumption DEF Ranges, Overdue
<1>. QED
  BY <1>2, <1>3, <1>4, <1>5 DEF IInv

LEMMA HandlerStep ==
    ASSUME IInv, HandlerDone \/ RecvEnd
    PROVE  IInv'
<1>. USE DEF HandlerDone, RecvEnd, channel, sender, history
<1>1. Ranges /\ Overdue
  BY DEF IInv
<1>2. Ranges'
  BY <1>1, Sizes DEF Ranges
<1>3. over' => recv' = "ended"
  BY DEF IInv
<1>4. excuses' = {} => Prompt'
  BY TimeAssumption DEF IInv, Ranges, Prompt, Quiet, HandlerTime
<1>5. Overdue'
  BY <1>1, TimeAssumption DEF Ranges, Overdue
<1>. QED
  BY <1>2, <1>3, <1>4, <1>5 DEF IInv

\* The heartbeat ends the connection only when something excuses it.
LEMMA HeartbeatStep == ASSUME IInv, Heartbeat PROVE IInv'
<1>1. CASE idle > Timeout
  <2>0. Ranges
    BY DEF IInv
  <2>1. recv = "select" => idle <= Timeout \/ excuses # {}
    BY DEF IInv, Prompt
  <2>2. excuses # {}
    BY <1>1, <2>0, <2>1, TimeAssumption DEF Ranges, Heartbeat, HeartbeatAfter
  <2>3. Ranges'
    <3>1. Interval \in Nat /\ recv = "select" /\ next <= 0 /\ next' = next + Interval
      BY TimeAssumption DEF Heartbeat, HeartbeatAfter
    <3>2. recv' = "ended" /\ UNCHANGED <<channel, waiting, excuses, sender, handlerFor, frames, idle>>
      BY <1>1 DEF Heartbeat, HeartbeatAfter
    <3>. QED
      BY <2>0, <3>1, <3>2 DEF Ranges, channel, sender
  <2>4. excuses' = excuses /\ recv' = "ended"
    BY <1>1 DEF Heartbeat, HeartbeatAfter
  <2>. QED
    BY <2>2, <2>3, <2>4 DEF IInv, Overdue
<1>2. CASE idle <= Timeout
  <2>0. ~(idle > Timeout)
    BY <1>2, TimeAssumption DEF IInv, Ranges
  <2>1. /\ recv = "select" /\ next <= 0 /\ next' = next + Interval
        /\ IF registered THEN Offer ELSE UNCHANGED <<channel, excuses>>
        /\ IF registered' /\ ~asked
           THEN asked' = TRUE /\ waiting' = 0
           ELSE UNCHANGED <<asked, waiting>>
        /\ UNCHANGED <<recv, timedOut, over, sender, handlerFor, frames, idle>>
    BY <2>0 DEF Heartbeat, HeartbeatAfter
  <2>2. /\ queue' \in 0 .. Capacity
        /\ excuses' \subseteq {"late", "slow", "evicted"}
        /\ \/ (registered' <=> registered) /\ excuses' = excuses
           \/ excuses' # {}
    <3>1. CASE registered
      BY <2>1, <3>1, OfferStep DEF IInv
    <3>2. CASE ~registered
      BY <2>1, <3>2 DEF IInv, Ranges, channel
    <3>. QED
      BY <3>1, <3>2
  <2>3. Ranges'
    BY <2>1, <2>2, TimeAssumption DEF IInv, Ranges, sender
  <2>4. excuses' = {} => Prompt'
    BY <2>1, <2>2, <1>2, TimeAssumption
       DEF IInv, Ranges, Prompt, Quiet, HandlerTime
  <2>5. Overdue'
    BY <2>1, <1>2, TimeAssumption DEF IInv, Ranges, Overdue
  <2>. QED
    BY <2>1, <2>3, <2>4, <2>5 DEF IInv
<1>. QED
  BY <1>1, <1>2, TimeAssumption DEF IInv, Ranges

LEMMA EndStep == ASSUME IInv, End PROVE IInv'
BY DEF IInv, Ranges, Prompt, Overdue, End, history

LEMMA TickStep == ASSUME IInv, Tick PROVE IInv'
<1>1. Ranges'
  BY TimeAssumption DEF IInv, Ranges, Tick, Ready, channel
<1>2. Overdue' /\ (over' => recv' = "ended")
  BY TimeAssumption DEF IInv, Ranges, Overdue, Tick, channel
<1>3. excuses' = {} => Prompt'
  <2>. SUFFICES ASSUME excuses' = {} PROVE Prompt'
    OBVIOUS
  <2>1. /\ Prompt
        /\ asked => waiting < AnswerTime
        /\ recv = "handler" => handlerFor < HandlerTime
    BY TimeAssumption DEF IInv, Ranges, Tick, HandlerTime
  <2>2. /\ recv = "select" => frames = 0 /\ next > 0
        /\ recv # "ended"
    BY DEF IInv, Ranges, Tick, Ready
  <2>. QED
    BY <2>1, <2>2, TimeAssumption
       DEF IInv, Ranges, Tick, Prompt, Quiet, HandlerTime, channel
<1>. QED
  BY <1>1, <1>2, <1>3 DEF IInv

LEMMA NextIInv == IInv /\ [Next]_vars => IInv'
<1>. SUFFICES ASSUME IInv, [Next]_vars PROVE IInv'
  OBVIOUS
<1>1. CASE Take \/ SendDone \/ SendTimesOut \/ SendFails \/ ChannelEnds \/ Closed
  BY <1>1, SenderStep DEF SendTimesOut, SendFails, ChannelEnds
<1>2. CASE Message
  BY <1>2, MessageStep
<1>3. CASE Arrive
  BY <1>3, ArriveStep
<1>4. CASE \E text \in BOOLEAN : Frame(text)
  BY <1>4, FrameStep
<1>5. CASE HandlerDone \/ RecvEnd
  BY <1>5, HandlerStep
<1>6. CASE Heartbeat
  BY <1>6, HeartbeatStep
<1>7. CASE End
  BY <1>7, EndStep
<1>8. CASE Tick
  BY <1>8, TickStep
<1>9. CASE UNCHANGED vars
  BY <1>9 DEF vars, IInv, Ranges, Prompt, Quiet, Overdue, HandlerTime
<1>. QED
  BY <1>1, <1>2, <1>3, <1>4, <1>5, <1>6, <1>7, <1>8, <1>9
     DEF Next, Runtime, Environment

LEMMA Invariance == Spec => []IInv
BY InitIInv, NextIInv, PTL DEF Spec

-----------------------------------------------------------------------------

\* The variables of a connection keep their types: the channel never holds more
\* than its capacity, and no write takes longer than SEND_TIMEOUT.
THEOREM TypeCorrect == Spec => []TypeOK
<1>1. IInv /\ Flags => TypeOK
  BY DEF IInv, Ranges, Flags, TypeOK
<1>. QED
  BY <1>1, Invariance, FlagsInv, PTL

\* A client that answers its pings in time loses its connection to the
\* heartbeat only for a slow handler or an eviction, whatever the interval,
\* the timeout (of the interval and the answer's time at least) and the
\* capacity of the channel are.
THEOREM NoFalseTimeoutHolds == Spec => []NoFalseTimeout
<1>1. IInv => NoFalseTimeout
  BY DEF IInv, Prompt, NoFalseTimeout
<1>. QED
  BY <1>1, Invariance, PTL

\* A silent client is noticed within the timeout and one interval.
THEOREM SilentDetectedHolds == Spec => []SilentDetected
<1>1. IInv => SilentDetected
  BY TimeAssumption DEF IInv, Ranges, Overdue, SilentDetected
<1>. QED
  BY <1>1, Invariance, PTL

=============================================================================
