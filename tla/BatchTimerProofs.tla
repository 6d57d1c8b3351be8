-------------------------- MODULE BatchTimerProofs --------------------------
(***************************************************************************)
(* Theorems about BatchTimer for every size of a batch, every wait and     *)
(* every number of errors.                                                 *)
(***************************************************************************)
EXTENDS BatchTimer, TLAPS

\* The waits that n turns with messages, and that n errors, can add.
Turns(n) == n * BatchWait
Errors(n) == n * (BatchWait + ErrorWait)

\* What the age of an open batch is made of: a full wait for each message but
\* the last, the wait of this turn, and a wait and a pause for each error, of
\* which the pause of this turn is not over yet.
Accounted ==
    /\ len = 0 => age = 0 /\ errors = 0
    /\ len > 0 /\ pause = 0 => age <= Turns(len - 1) + wait + Errors(errors)
    /\ len > 0 /\ pause > 0 =>
        errors > 0 /\ age <= Turns(len - 1) + wait + Errors(errors - 1) + (ErrorWait - pause)

LEMMA Sums ==
  /\ Turns(0) = 0 /\ Errors(0) = 0
  /\ \A n \in Nat : /\ Turns(n) \in Nat /\ Turns(n + 1) = Turns(n) + BatchWait
                    /\ Errors(n) \in Nat /\ Errors(n + 1) = Errors(n) + BatchWait + ErrorWait
BY TimerAssumption DEF Turns, Errors

LEMMA MoreTurns == \A m, n \in Nat : m <= n => Turns(m) <= Turns(n)
BY TimerAssumption DEF Turns

LEMMA TypeInductive == TypeOK /\ [Next]_vars => TypeOK'
<1> SUFFICES ASSUME TypeOK, [Next]_vars PROVE TypeOK'
  OBVIOUS
<1> USE TimerAssumption DEF TypeOK
<1>1. CASE Tick
  BY <1>1 DEF Tick
<1>2. CASE TickPause
  BY <1>2 DEF TickPause
<1>3. CASE Deadline
  BY <1>3 DEF Deadline, Flush
<1>4. CASE Recv
  BY <1>4 DEF Recv, RecvAt, Flush
<1>5. CASE RecvError
  BY <1>5 DEF RecvError
<1>6. CASE UNCHANGED vars
  BY <1>6 DEF vars
<1> QED BY <1>1, <1>2, <1>3, <1>4, <1>5, <1>6 DEF Next

\* A batch in the buffer is never full, and no wait exceeds the deadline.
THEOREM TypeCorrect == Spec => []TypeOK
<1>1. Init => TypeOK
  BY TimerAssumption DEF Init, TypeOK
<1> QED BY <1>1, TypeInductive, PTL DEF Spec

LEMMA AccountedInductive == TypeOK /\ Accounted /\ [Next]_vars => Accounted'
<1> SUFFICES ASSUME TypeOK, Accounted, [Next]_vars PROVE Accounted'
  OBVIOUS
<1>1. CASE Tick
  BY <1>1, TimerAssumption, Sums DEF Tick, TypeOK, Accounted
<1>2. CASE TickPause
  <2>1. CASE len = 0
    BY <1>2, <2>1 DEF TickPause, Accounted
  <2>2. CASE len > 0 /\ pause > 1
    BY <1>2, <2>2, TimerAssumption, Sums DEF TickPause, TypeOK, Accounted
  <2>3. CASE len > 0 /\ pause = 1
    <3>1. errors \in Nat /\ errors - 1 \in Nat /\ len - 1 \in Nat /\ wait <= BatchWait
      BY <2>3, TimerAssumption DEF TypeOK, Accounted
    <3>2. Errors(errors) = Errors(errors - 1) + BatchWait + ErrorWait
      BY <3>1, Sums
    <3>3. age <= Turns(len - 1) + wait + Errors(errors - 1) + (ErrorWait - 1)
      BY <2>3 DEF Accounted
    <3>4. /\ len' = len /\ errors' = errors /\ wait' = 0 /\ pause' = 0 /\ age' = age + 1
      BY <1>2, <2>3 DEF TickPause
    <3>5. age + 1 <= Turns(len - 1) + 0 + Errors(errors)
      BY <3>1, <3>2, <3>3, Sums, TimerAssumption DEF TypeOK
    <3> QED BY <2>3, <3>4, <3>5 DEF Accounted
  <2> QED BY <1>2, <2>1, <2>2, <2>3 DEF TickPause, TypeOK
<1>3. CASE Deadline
  BY <1>3 DEF Deadline, Flush, Accounted
<1>4. CASE Recv
  <2>1. CASE Flush
    BY <2>1 DEF Flush, Accounted
  <2>2. CASE len + 1 < BatchMax /\ len' = len + 1 /\ wait' = 0 /\ UNCHANGED <<pause, age, errors>>
    <3>1. pause = 0 /\ len \in Nat /\ errors \in Nat /\ wait \in Nat /\ wait <= BatchWait
      BY <1>4, TimerAssumption DEF Recv, RecvAt, TypeOK
    <3>2. CASE len = 0
      BY <2>2, <3>1, <3>2, Sums DEF Accounted
    <3>3. CASE len > 0
      <4>1. Turns(len) = Turns(len - 1) + BatchWait
        BY <3>1, <3>3, Sums
      <4>2. age <= Turns(len - 1) + wait + Errors(errors)
        BY <3>1, <3>3 DEF Accounted
      <4>3. age <= Turns(len) + 0 + Errors(errors)
        BY <3>1, <3>3, <4>1, <4>2, Sums, TimerAssumption DEF TypeOK
      <4>4. len' - 1 = len /\ len' > 0
        BY <2>2, <3>1
      <4> QED BY <2>2, <3>1, <4>3, <4>4 DEF Accounted
    <3> QED BY <3>1, <3>2, <3>3
  <2> QED BY <1>4, <2>1, <2>2 DEF Recv, RecvAt
<1>5. CASE RecvError
  BY <1>5, TimerAssumption, Sums DEF RecvError, TypeOK, Accounted
<1>6. CASE UNCHANGED vars
  BY <1>6 DEF vars, Accounted
<1> QED BY <1>1, <1>2, <1>3, <1>4, <1>5, <1>6 DEF Next

\* A message waits for its batch no longer than one wait for each message that
\* joins it, and a wait and a pause for each error of recv.
THEOREM AgeBoundedHolds == Spec => []AgeBounded
<1>1. Init => Accounted
  BY DEF Init, Accounted
<1>2. TypeOK /\ Accounted => AgeBounded
  <2> SUFFICES ASSUME TypeOK, Accounted
               PROVE  age <= Turns(BatchMax - 1) + Errors(errors)
    BY DEF AgeBounded, Turns, Errors
  <2>1. /\ BatchMax - 1 \in Nat /\ errors \in Nat /\ wait \in Nat /\ wait <= BatchWait
        /\ Turns(BatchMax - 1) \in Nat /\ Errors(errors) \in Nat
    BY Sums, TimerAssumption DEF TypeOK
  <2>2. CASE len = 0
    BY <2>1, <2>2 DEF Accounted
  <2>3. CASE len > 0
    <3>1. len - 1 \in Nat /\ len \in Nat /\ len <= BatchMax - 1 /\ Turns(len - 1) \in Nat
      BY <2>3, Sums, TimerAssumption DEF TypeOK
    <3>2. Turns(len) = Turns(len - 1) + BatchWait /\ Turns(len) <= Turns(BatchMax - 1)
      BY <2>1, <3>1, Sums, MoreTurns
    <3>3. age <= Turns(len - 1) + BatchWait + Errors(errors)
      <4>1. CASE pause = 0
        BY <2>1, <2>3, <3>1, <4>1, TimerAssumption DEF Accounted, TypeOK
      <4>2. CASE pause > 0
        <5>1. /\ errors - 1 \in Nat
              /\ age <= Turns(len - 1) + wait + Errors(errors - 1) + (ErrorWait - pause)
          BY <2>1, <2>3, <4>2 DEF Accounted
        <5>2. Errors((errors - 1) + 1) = Errors(errors - 1) + BatchWait + ErrorWait /\ Errors(errors - 1) \in Nat
          BY <5>1, Sums
        <5>3. (errors - 1) + 1 = errors
          BY <2>1
        <5> QED BY <2>1, <3>1, <4>2, <5>1, <5>2, <5>3, TimerAssumption DEF TypeOK
      <4> QED BY <4>1, <4>2 DEF TypeOK
    <3> QED BY <2>1, <3>1, <3>2, <3>3, TimerAssumption DEF TypeOK
  <2> QED BY <2>2, <2>3 DEF TypeOK
<1> QED BY <1>1, <1>2, AccountedInductive, TypeCorrect, PTL DEF Spec
=============================================================================
