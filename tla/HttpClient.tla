------------------------------ MODULE HttpClient ------------------------------
(***************************************************************************)
(* The HTTP client of one venue (internal/exchange/httpclient/client.go):  *)
(* the goroutines that call Do share one token bucket; a safe request is   *)
(* tried again after a broken connection, a 429 or a 5xx, an unsafe one is *)
(* not.  The network and the venue are external.                           *)
(*                                                                         *)
(* Time is counted in ticks.  The moments the client compares are kept as  *)
(* distances: the time since lastFill, and what is left of each timer.     *)
(***************************************************************************)
EXTENDS Integers

CONSTANTS
  Calls,       \* the calls of Do
  Safe,        \* those of them that may be repeated
  Timed,       \* those whose context has a deadline
  Period,      \* ticks for one token: a second divided by RequestsPerSecond
  Burst,       \* the size of the bucket
  MaxRetries,
  BaseDelay, MaxDelay, Jitter,  \* of the backoff, in ticks
  Deadline     \* ticks a timed call has

ASSUME CallsAssumption == Safe \subseteq Calls /\ Timed \subseteq Calls
ASSUME RateAssumption == Period \in Nat \ {0} /\ Burst \in Nat \ {0}
ASSUME RetryAssumption == MaxRetries \in Nat
ASSUME DelayAssumption ==
  BaseDelay \in Nat /\ MaxDelay \in Nat /\ Jitter \in Nat /\ Deadline \in Nat

VARIABLES
  tokens,   \* in the bucket
  elapsed,  \* ticks since lastFill, as far as they can fill the bucket
  call,     \* each call of Do
  credit    \* a history: what an exact bucket would hold, in ticks

httpVars == <<tokens, elapsed, call, credit>>

Full == Burst * Period
\* The exact bucket keeps up to one more token: the fraction of one that the
\* full bucket of the client still remembers in lastFill.
CreditLimit == Full + Period - 1

Steps == {"idle", "token", "waiting", "sending", "backoff", "returned"}
Results == {"none", "reply", "network", "status", "context"}

TypeOKHttp ==
  /\ tokens \in 0 .. Burst
  /\ elapsed \in 0 .. Full
  /\ credit \in Int
  /\ call \in [Calls -> [pc : Steps, attempt : 0 .. MaxRetries + 1, timer : Nat,
                         left : 0 .. Deadline, sent : Nat, result : Results]]

InitHttp ==
  /\ tokens = Burst
  /\ elapsed = 0
  /\ call = [c \in Calls |-> [pc |-> "idle", attempt |-> 0, timer |-> 0, left |-> Deadline,
                              sent |-> 0, result |-> "none"]]
  /\ credit = Full

-------------------------------------------------------------------------------
Lesser(a, b) == IF a < b THEN a ELSE b

Earned == elapsed \div Period

\* Faulty variant: the time already paid out is not forgotten.
Refill_KeepsTime(left, since) ==
  /\ left = Lesser(tokens + Earned, Burst)
  /\ since = elapsed

\* Faulty variant: the time is forgotten also when nothing was earned.
Refill_ForgetsTime(left, since) ==
  /\ left = Lesser(tokens + Earned, Burst)
  /\ since = 0

\* left tokens, lastFill since ticks ago.  A fraction of a token is lost.
Refill(left, since) ==
  /\ left = Lesser(tokens + Earned, Burst)
  /\ since = IF Earned > 0 THEN 0 ELSE elapsed

StartCall(c) ==
  /\ call[c].pc = "idle"
  /\ call' = [call EXCEPT ![c].pc = "token"]
  /\ UNCHANGED <<tokens, elapsed, credit>>

\* Faulty variant: a second for each token.
TokenWait_Second == 2 * Period

TokenWait == Period

\* One pass of waitToken's loop.  The context is looked at only while waiting.
TakeToken(c) ==
  /\ call[c].pc = "token"
  /\ \E left \in 0 .. Burst, since \in 0 .. Full :
       /\ Refill(left, since)
       /\ elapsed' = since
       /\ IF left > 0
          THEN /\ tokens' = left - 1
               /\ credit' = credit - Period
               /\ call' = [call EXCEPT ![c].pc = "sending", ![c].sent = @ + 1]
          ELSE /\ tokens' = left
               /\ UNCHANGED credit
               /\ call' = [call EXCEPT ![c].pc = "waiting", ![c].timer = TokenWait]

Delay(attempt) == Lesser(BaseDelay * 2 ^ attempt, MaxDelay)
Backoffs(attempt) == {d \in 0 .. MaxDelay + Jitter : d >= Delay(attempt) /\ d <= Delay(attempt) + Jitter}

\* Faulty variant: only the kind of the failure decides, not of the request.
Retried_Always(c, outcome) == outcome \in {"network", "status"}

Retried(c, outcome) == c \in Safe /\ outcome \in {"network", "status"}

\* doOnce: a reply, no reply, or a reply with 429 or 5xx.
Reply(c, outcome) ==
  /\ call[c].pc = "sending"
  /\ IF Retried(c, outcome)
     THEN \E delay \in Backoffs(call[c].attempt) :
            call' = [call EXCEPT ![c].pc = "backoff", ![c].result = outcome, ![c].timer = delay]
     ELSE call' = [call EXCEPT ![c].pc = "returned", ![c].result = outcome]
  /\ UNCHANGED <<tokens, elapsed, credit>>

\* A timer fires.  The backoff follows the last attempt too.
WakeUp(c) ==
  /\ call[c].timer = 0
  /\ \/ /\ call[c].pc = "waiting"
        /\ call' = [call EXCEPT ![c].pc = "token"]
     \/ /\ call[c].pc = "backoff"
        /\ call[c].attempt < MaxRetries
        /\ call' = [call EXCEPT ![c].pc = "token", ![c].attempt = @ + 1]
     \/ /\ call[c].pc = "backoff"
        /\ call[c].attempt = MaxRetries
        /\ call' = [call EXCEPT ![c].pc = "returned", ![c].attempt = @ + 1]
  /\ UNCHANGED <<tokens, elapsed, credit>>

\* The context ends while the call waits for a token or between two attempts.
Expire(c) ==
  /\ c \in Timed
  /\ call[c].left = 0
  /\ call[c].pc \in {"waiting", "backoff"}
  /\ call' = [call EXCEPT ![c].pc = "returned", ![c].result = "context"]
  /\ UNCHANGED <<tokens, elapsed, credit>>

CallSteps(c) ==
  \/ TakeToken(c) \/ WakeUp(c) \/ Expire(c)
  \/ \E outcome \in {"reply", "network", "status"} : Reply(c, outcome)

Down(n) == IF n > 0 THEN n - 1 ELSE 0

Tick ==
  /\ elapsed' = Lesser(elapsed + 1, Full)
  /\ credit' = Lesser(credit + 1, CreditLimit)
  /\ call' = [c \in Calls |->
                [call[c] EXCEPT !.timer = Down(@),
                                !.left = IF call[c].pc = "idle" THEN @ ELSE Down(@)]]
  /\ UNCHANGED tokens

NextHttp == Tick \/ \E c \in Calls : StartCall(c) \/ CallSteps(c)

FairHttp == WF_httpVars(Tick) /\ \A c \in Calls : WF_httpVars(CallSteps(c))

SpecHttp == InitHttp /\ [][NextHttp]_httpVars /\ FairHttp

-------------------------------------------------------------------------------
(* Properties. *)

\* However the calls interleave, the client sends no more than an exact bucket
\* would allow: at most Burst + 1 requests and one more for each Period, over
\* any stretch of time (waitToken, refill).
WithinRate == credit >= 0

\* An order or a transfer leaves the client at most once, whatever the venue or
\* the network answers, and a safe request at most MaxRetries + 1 times (Do).
UnsafeSentOnce ==
  \A c \in Calls : call[c].sent <= IF c \in Safe THEN MaxRetries + 1 ELSE 1

\* While a call waits, the next token is less than two periods after the last:
\* refill loses less than one token each time (client.go:203).
TokenIsDue ==
  \A c \in Calls : call[c].pc = "waiting" /\ call[c].timer > 0 => elapsed + call[c].timer < 2 * Period

\* Calls that share the bucket do not starve each other: each of them returns,
\* with or without a deadline.
CallsReturn == \A c \in Calls : call[c].pc # "idle" ~> call[c].pc = "returned"
===============================================================================
