--------------------------- MODULE ConnectionManager ---------------------------
(***************************************************************************)
(* ConnectionManager.Run (internal/marketdata/ws_manager.go): it calls     *)
(* connect again and again, with a backoff after each failure and a        *)
(* circuit breaker after FailureThreshold of them.  What connect does is   *)
(* the caller's: here it returns an error or nil at any time (Streams says *)
(* when).  Time is counted in ticks; timers and ages are kept as distances.*)
(***************************************************************************)
EXTENDS Integers

CONSTANTS
  FailureThreshold,
  ResetTimeout,
  InitialDelay, MaxBackoff,  \* the backoff doubles from one to the other
  Spread                     \* of the jitter

ASSUME ThresholdAssumption == FailureThreshold \in Nat \ {0}
ASSUME BackoffAssumption ==
  /\ ResetTimeout \in Nat /\ InitialDelay \in Nat /\ MaxBackoff \in Nat /\ Spread \in Nat

VARIABLES
  loop,     \* Run: its step, its timer, and the breaker
  opened,   \* ticks since openedAt, as far as they matter
  stopped   \* the context is cancelled

managerVars == <<loop, opened, stopped>>

InitManager ==
  /\ loop = [pc |-> "idle", attempts |-> 0, open |-> FALSE, timer |-> 0]
  /\ opened = ResetTimeout
  /\ stopped = FALSE

-------------------------------------------------------------------------------
Start ==
  /\ loop.pc = "idle"
  /\ loop' = [loop EXCEPT !.pc = "check"]
  /\ UNCHANGED <<opened, stopped>>

\* Before Run there is no cancel function, and Stop does nothing.
Stop ==
  /\ loop.pc # "idle"
  /\ stopped' = TRUE
  /\ UNCHANGED <<loop, opened>>

\* Faulty variant: the breaker is not asked.
AllowAttempt_Always == TRUE

AllowAttempt == loop.open => opened >= ResetTimeout

\* The head of the loop.  A breaker opened long enough ago closes by itself.
Check ==
  /\ loop.pc = "check"
  /\ loop' = IF stopped THEN [loop EXCEPT !.pc = "ended"]
             ELSE IF ~AllowAttempt THEN [loop EXCEPT !.pc = "resting", !.timer = ResetTimeout]
             ELSE IF loop.open THEN [loop EXCEPT !.pc = "connect", !.open = FALSE, !.attempts = 0]
             ELSE [loop EXCEPT !.pc = "connect"]
  /\ UNCHANGED <<opened, stopped>>

\* The pause of an open breaker is over: it closes, and the count of failures
\* starts anew.
Rested ==
  /\ loop.pc = "resting" /\ loop.timer = 0
  /\ loop' = [loop EXCEPT !.pc = "connect", !.open = FALSE, !.attempts = 0]
  /\ UNCHANGED <<opened, stopped>>

\* connect returned nil: the loop goes on at once.
Succeed ==
  /\ loop' = [loop EXCEPT !.pc = "check", !.attempts = 0]
  /\ UNCHANGED <<opened, stopped>>

NextDelay(attempt) ==
  IF InitialDelay * 2 ^ attempt < MaxBackoff THEN InitialDelay * 2 ^ attempt ELSE MaxBackoff

Delays(attempt) == {d \in 0 .. MaxBackoff + Spread : d >= NextDelay(attempt) - Spread
                                                      /\ d <= NextDelay(attempt) + Spread}

\* Faulty variant: the threshold is passed before the breaker opens.
Trips_Late(attempts) == attempts > FailureThreshold

Trips(attempts) == attempts >= FailureThreshold

\* connect returned an error.
Fail ==
  /\ IF stopped
     THEN /\ loop' = [loop EXCEPT !.pc = "ended"]
          /\ UNCHANGED opened
     ELSE /\ \E delay \in Delays(loop.attempts) :
               loop' = [loop EXCEPT !.pc = "backoff", !.attempts = @ + 1, !.timer = delay,
                                    !.open = @ \/ Trips(loop.attempts + 1)]
          /\ opened' = IF ~loop.open /\ Trips(loop.attempts + 1) THEN 0 ELSE opened
  /\ UNCHANGED stopped

Retry ==
  /\ loop.pc = "backoff" /\ loop.timer = 0
  /\ loop' = [loop EXCEPT !.pc = "check"]
  /\ UNCHANGED <<opened, stopped>>

\* sleepCtx ends with the context.
Interrupted ==
  /\ stopped
  /\ loop.pc \in {"resting", "backoff"}
  /\ loop' = [loop EXCEPT !.pc = "ended"]
  /\ UNCHANGED <<opened, stopped>>

ManagerTick ==
  /\ opened' = IF opened < ResetTimeout THEN opened + 1 ELSE opened
  /\ loop' = [loop EXCEPT !.timer = IF @ > 0 THEN @ - 1 ELSE 0]
  /\ UNCHANGED stopped

LoopSteps == Check \/ Rested \/ Retry \/ Interrupted

-------------------------------------------------------------------------------
(* Properties. *)

\* After FailureThreshold failures in a row no connection is tried before
\* ResetTimeout has passed since the last of them, whichever of its two ways the
\* breaker closes (allowAttempt, Run).
BreakerRests ==
  /\ loop.attempts <= FailureThreshold
  /\ loop.pc = "connect" => ~loop.open /\ loop.attempts < FailureThreshold /\ opened >= ResetTimeout
===============================================================================
