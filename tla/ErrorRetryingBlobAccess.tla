---------------------- MODULE ErrorRetryingBlobAccess ----------------------
(***************************************************************************)
(* One operation (Get, GetFromComposite, FindMissing or GetCapabilities)   *)
(* against a backend that may fail, retried with full jitter backoff until *)
(* a maximum delay has passed.                                             *)
(*                                                                         *)
(* Time passes in ticks at any moment, so backend calls may take any time  *)
(* and timers may fire late.  Durations are drawn from [0, interval).      *)
(***************************************************************************)
EXTENDS Naturals

CONSTANTS
    InitialInterval,  \* ba.initialInterval
    MaximumInterval,  \* ba.maximumInterval
    MaximumDelay,     \* ba.maximumDelay
    MaxTime           \* bound: the clock stops here

ASSUME RetryAssumption ==
    /\ InitialInterval \in Nat \ {0}
    /\ MaximumInterval \in Nat \ {0}
    /\ InitialInterval <= MaximumInterval
    /\ MaximumDelay \in Nat
    /\ MaxTime \in Nat
    /\ MaximumDelay + MaximumInterval < MaxTime

VARIABLES
    now,        \* ba.clock.Now()
    pc,         \* what the operation is doing
    err,        \* the error of the last attempt
    endTime,    \* retryState.endTime
    interval,   \* retryState.interval
    wake,       \* when the timer of the current sleep fires
    cancelled,  \* whether ctx is done
    slept,      \* sum of the sleeps requested so far
    late        \* attempts that were started after endTime

clockVars == <<now, cancelled>>
stats     == <<slept, late>>
vars      == <<clockVars, pc, err, endTime, interval, wake, stats>>

(* getRetryState(), followed by the first call to the backend.             *)
Init ==
    /\ now = 0
    /\ endTime = MaximumDelay
    /\ interval = InitialInterval
    /\ pc = "attempt"
    /\ err = "none"
    /\ wake = 0
    /\ cancelled = FALSE
    /\ slept = 0
    /\ late = 0

(* Time passes.                                                            *)
Tick ==
    /\ now < MaxTime
    /\ now' = now + 1
    /\ UNCHANGED <<cancelled, pc, err, endTime, interval, wake, stats>>

(* The caller gives up on the operation.                                   *)
Cancel ==
    /\ ~cancelled
    /\ cancelled' = TRUE
    /\ UNCHANGED <<now, pc, err, endTime, interval, wake, stats>>

(* The backend returns.                                                    *)
AttemptSucceeds ==
    /\ pc = "attempt"
    /\ pc' = "done"
    /\ err' = "none"
    /\ UNCHANGED <<clockVars, endTime, interval, wake, stats>>

(* Infrastructure errors are UNAVAILABLE, INTERNAL and UNKNOWN; others     *)
(* include NOT_FOUND and, once the caller gave up, CANCELLED.              *)
AttemptFails(e) ==
    /\ pc = "attempt"
    /\ pc' = "failed"
    /\ err' = e
    /\ UNCHANGED <<clockVars, endTime, interval, wake, stats>>

(* Mutant: the deadline is not looked at.                                  *)
MaybeSleepStopNoDeadline ==
    /\ pc = "failed"
    /\ err # "infrastructure"
    /\ pc' = "done"
    /\ UNCHANGED <<clockVars, err, endTime, interval, wake, stats>>

(* maybeSleep(): the error is not retriable, or time is up.                *)
MaybeSleepStop ==
    /\ pc = "failed"
    /\ err # "infrastructure" \/ now > endTime
    /\ pc' = "done"
    /\ UNCHANGED <<clockVars, err, endTime, interval, wake, stats>>

(* Mutant: the deadline is not looked at.                                  *)
MaybeSleepBeginNoDeadline(d) ==
    /\ pc = "failed"
    /\ err = "infrastructure"
    /\ d < interval
    /\ wake' = now + d
    /\ slept' = slept + d
    /\ pc' = "sleeping"
    /\ UNCHANGED <<clockVars, err, endTime, interval, late>>

(* maybeSleep(): wait for a random amount of time.                         *)
MaybeSleepBegin(d) ==
    /\ pc = "failed"
    /\ err = "infrastructure"
    /\ now <= endTime
    /\ d < interval
    /\ wake' = now + d
    /\ slept' = slept + d
    /\ pc' = "sleeping"
    /\ UNCHANGED <<clockVars, err, endTime, interval, late>>

(* The interval of the next sleep.                                         *)
NextInterval ==
    IF interval * 2 > MaximumInterval THEN MaximumInterval ELSE interval * 2

(* The timer fires, and the backend is called once more.                   *)
MaybeSleepEnd ==
    /\ pc = "sleeping"
    /\ now >= wake
    /\ interval' = NextInterval
    /\ pc' = "attempt"
    /\ late' = IF now > endTime THEN late + 1 ELSE late
    /\ UNCHANGED <<clockVars, err, endTime, wake, slept>>

(* The caller gave up during the sleep.  If the timer has fired as well,   *)
(* select may choose either.                                               *)
MaybeSleepInterrupted ==
    /\ pc = "sleeping"
    /\ cancelled
    /\ pc' = "done"
    /\ UNCHANGED <<clockVars, err, endTime, interval, wake, stats>>

AttemptReturns ==
    \/ AttemptSucceeds
    \/ \E e \in {"infrastructure", "other"} : AttemptFails(e)

MaybeSleep ==
    \/ MaybeSleepStop
    \/ \E d \in 0 .. MaximumInterval : MaybeSleepBegin(d)

Next ==
    \/ Tick
    \/ Cancel
    \/ AttemptReturns
    \/ MaybeSleep
    \/ MaybeSleepEnd
    \/ MaybeSleepInterrupted

Spec == Init /\ [][Next]_vars

(* The clock runs, timers fire, and the backend returns at some point.     *)
FairSpec ==
    /\ Spec
    /\ WF_vars(Tick)
    /\ WF_vars(AttemptReturns)
    /\ WF_vars(MaybeSleep)
    /\ WF_vars(MaybeSleepEnd)

-----------------------------------------------------------------------------
(* Type invariant.                                                         *)
TypeOK ==
    /\ now \in Nat
    /\ pc \in {"attempt", "failed", "sleeping", "done"}
    /\ err \in {"none", "infrastructure", "other"}
    /\ endTime \in Nat
    /\ interval \in Nat \ {0}
    /\ wake \in Nat
    /\ cancelled \in BOOLEAN
    /\ slept \in Nat
    /\ late \in Nat

(* The delay that retrying adds to an operation is the time it sleeps.  It *)
(* may exceed the maximum delay, because the deadline is only looked at    *)
(* before sleeping, but by less than one interval.                         *)
DelayBound == slept < MaximumDelay + MaximumInterval

(* Once the deadline has passed, the backend is called at most once more.  *)
AtMostOneLateAttempt == late <= 1

(* Every operation returns, however often the backend fails.               *)
OperationReturns == pc = "attempt" ~> pc = "done"
=============================================================================
