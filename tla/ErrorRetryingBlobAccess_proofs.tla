------------------- MODULE ErrorRetryingBlobAccess_proofs -------------------
(***************************************************************************)
(* The delay caused by retrying is bounded, for all intervals and maximum  *)
(* delays, whatever the random number generator and the scheduler do.      *)
(***************************************************************************)
EXTENDS ErrorRetryingBlobAccess, TLAPS

(* Sleeps take time: when the operation is not sleeping, at least as much  *)
(* time has passed as it has slept.  A late attempt is only made by an     *)
(* operation that can no longer go back to sleep.                          *)
Inv ==
    /\ TypeOK
    /\ endTime = MaximumDelay
    /\ interval <= MaximumInterval
    /\ DelayBound
    /\ AtMostOneLateAttempt
    /\ pc \in {"attempt", "failed"} => slept <= now
    /\ pc = "sleeping" => slept <= wake
    /\ late > 0 => now > endTime
    /\ pc = "sleeping" => late = 0

(* The operation sleeps for less than the maximum delay plus one maximum   *)
(* interval, and calls the backend at most once after its deadline.        *)
THEOREM DelayCorrect == Spec => [](TypeOK /\ DelayBound /\ AtMostOneLateAttempt)
  <1> USE RetryAssumption
  <1> USE DEF Inv, TypeOK, DelayBound, AtMostOneLateAttempt
  <1>1. ASSUME Init
        PROVE  Inv
    <2>1. 0 < MaximumDelay + MaximumInterval
      OBVIOUS
    <2>2. DelayBound /\ AtMostOneLateAttempt
      BY <1>1, <2>1 DEF Init
    <2>3. TypeOK
      BY <1>1 DEF Init
    <2>4. QED
      BY <1>1, <2>2, <2>3 DEF Init
  <1>2. ASSUME Inv, [Next]_vars
        PROVE  Inv'
    <2> USE DEF clockVars, stats
    <2>1. CASE Tick
      BY <1>2, <2>1 DEF Tick
    <2>2. CASE Cancel
      BY <1>2, <2>2 DEF Cancel
    <2>3. CASE AttemptReturns
      BY <1>2, <2>3 DEF AttemptReturns, AttemptSucceeds, AttemptFails
    <2>4. CASE MaybeSleepStop
      BY <1>2, <2>4 DEF MaybeSleepStop
    <2>5. ASSUME NEW d \in 0 .. MaximumInterval, MaybeSleepBegin(d)
          PROVE  Inv'
      BY <1>2, <2>5 DEF MaybeSleepBegin
    <2>6. CASE MaybeSleepEnd
      BY <1>2, <2>6 DEF MaybeSleepEnd, NextInterval
    <2>7. CASE MaybeSleepInterrupted
      BY <1>2, <2>7 DEF MaybeSleepInterrupted
    <2>8. CASE UNCHANGED vars
      BY <1>2, <2>8 DEF vars
    <2>9. QED
      BY <1>2, <2>1, <2>2, <2>3, <2>4, <2>5, <2>6, <2>7, <2>8
         DEF Next, MaybeSleep
  <1>3. Inv => TypeOK /\ DelayBound /\ AtMostOneLateAttempt
    OBVIOUS
  <1>4. QED
    BY <1>1, <1>2, <1>3, PTL DEF Spec
=============================================================================
