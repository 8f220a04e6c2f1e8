-------------------------- MODULE ConnectionsProofs --------------------------
(***************************************************************************)
(* Proofs about what the application is connected by: the HTTP client, for *)
(* every set of calls, rate, size of the bucket and backoff; then, of the  *)
(* composition, the connection manager and the streams, for every          *)
(* threshold, delay, set of subscriptions and size of the Go channels.     *)
(***************************************************************************)
EXTENDS Connections, TLAPS

(***************************************************************************)
(* What refill does to the bucket: the tokens it leaves are worth no more  *)
(* than the time that had passed.                                          *)
(***************************************************************************)
LEMMA RefillIsWorth ==
  ASSUME tokens \in 0 .. Burst, elapsed \in 0 .. Full,
         NEW left \in 0 .. Burst, NEW since \in 0 .. Full, Refill(left, since)
  PROVE  /\ since <= elapsed
         /\ left * Period + since <= tokens * Period + elapsed
         /\ left * Period + since <= CreditLimit
         /\ left = 0 => since = elapsed /\ elapsed < Period
  <1> DEFINE E == elapsed \div Period
  <1>1. Period \in Nat \ {0} /\ Burst \in Nat \ {0} /\ Full \in Nat
    BY RateAssumption DEF Full
  <1>2. E \in Nat /\ E * Period <= elapsed /\ elapsed < E * Period + Period
    BY <1>1
  <1>3. left = Lesser(tokens + E, Burst) /\ since = IF E > 0 THEN 0 ELSE elapsed
    BY DEF Refill, Earned
  <1> HIDE DEF E
  <1>4. left * Period <= Burst * Period
    BY <1>1
  <1>5. CASE E = 0
    <2>1. left = tokens /\ since = elapsed /\ elapsed < Period
      BY <1>1, <1>2, <1>3, <1>5 DEF Lesser
    <2> QED
      BY <1>1, <1>4, <2>1 DEF CreditLimit, Full
  <1>6. CASE E > 0
    <2>1. since = 0 /\ left <= tokens + E /\ left # 0
      BY <1>1, <1>2, <1>3, <1>6 DEF Lesser
    <2>2. left * Period <= tokens * Period + E * Period
      <3>1. left * Period <= (tokens + E) * Period
        BY <1>1, <1>2, <2>1
      <3> QED
        BY <1>1, <1>2, <3>1
    <2> QED
      BY <1>1, <1>2, <1>4, <2>1, <2>2 DEF CreditLimit, Full
  <1> QED
    BY <1>2, <1>5, <1>6

-------------------------------------------------------------------------------
(***************************************************************************)
(* Type correctness: the bucket, the timers and the attempts stay in       *)
(* their ranges whatever the calls do.                                     *)
(***************************************************************************)
LEMMA BackoffIsNatural == \A attempt : Backoffs(attempt) \subseteq Nat
  BY DelayAssumption DEF Backoffs

LEMMA LimitsAreNatural == Full \in Nat /\ CreditLimit \in Nat
  <1>1. Full \in Nat
    BY RateAssumption DEF Full
  <1> QED
    BY <1>1, RateAssumption DEF CreditLimit

LEMMA TypeInit == InitHttp => TypeOKHttp
  BY LimitsAreNatural, RateAssumption, RetryAssumption, DelayAssumption
  DEF InitHttp, TypeOKHttp, Steps, Results

LEMMA TypeTick == TypeOKHttp /\ Tick => TypeOKHttp'
  <1> SUFFICES ASSUME TypeOKHttp, Tick PROVE TypeOKHttp'
    OBVIOUS
  <1>1. Full \in Nat /\ CreditLimit \in Int
    BY LimitsAreNatural
  <1>2. tokens' \in 0 .. Burst
    BY DEF TypeOKHttp, Tick
  <1>3. elapsed' \in 0 .. Full
    <2>1. elapsed' = Lesser(elapsed + 1, Full) /\ elapsed \in 0 .. Full
      BY DEF TypeOKHttp, Tick
    <2> QED
      BY <1>1, <2>1 DEF Lesser
  <1>4. credit' \in Int
    <2>1. credit' = Lesser(credit + 1, CreditLimit) /\ credit \in Int
      BY DEF TypeOKHttp, Tick
    <2> QED
      BY <1>1, <2>1 DEF Lesser
  <1>5. \A n \in Nat : Down(n) \in Nat /\ Down(n) <= n
    BY DEF Down
  <1>6. call' \in [Calls -> [pc : Steps, attempt : 0 .. MaxRetries + 1, timer : Nat,
                            left : 0 .. Deadline, sent : Nat, result : Results]]
    <2>1. call \in [Calls -> [pc : Steps, attempt : 0 .. MaxRetries + 1, timer : Nat,
                              left : 0 .. Deadline, sent : Nat, result : Results]]
      BY DEF TypeOKHttp
    <2>2. ASSUME NEW c \in Calls
          PROVE  [[call[c] EXCEPT !.timer = Down(@)]
                    EXCEPT !.left = IF call[c].pc = "idle" THEN @ ELSE Down(@)]
                   \in [pc : Steps, attempt : 0 .. MaxRetries + 1, timer : Nat,
                        left : 0 .. Deadline, sent : Nat, result : Results]
      <3>1. Down(call[c].timer) \in Nat
        BY <1>5, <2>1
      <3>2. Down(call[c].left) \in 0 .. Deadline
        BY <1>5, <2>1, DelayAssumption
      <3> QED
        BY <2>1, <3>1, <3>2
    <2> QED
      BY <2>2 DEF Tick
  <1> QED
    BY <1>2, <1>3, <1>4, <1>6 DEF TypeOKHttp

LEMMA TypeCall ==
  ASSUME TypeOKHttp, NEW c \in Calls, StartCall(c) \/ CallSteps(c)
  PROVE  TypeOKHttp'
  <1>1. Period \in Nat
    BY RateAssumption
  <1>2. CASE StartCall(c)
    BY <1>2 DEF StartCall, TypeOKHttp, Steps
  <1>3. CASE TakeToken(c)
    <2>1. PICK left \in 0 .. Burst, since \in 0 .. Full :
            /\ Refill(left, since)
            /\ elapsed' = since
            /\ IF left > 0
               THEN /\ tokens' = left - 1
                    /\ credit' = credit - Period
                    /\ call' = [call EXCEPT ![c].pc = "sending", ![c].sent = @ + 1]
               ELSE /\ tokens' = left
                    /\ UNCHANGED credit
                    /\ call' = [call EXCEPT ![c].pc = "waiting", ![c].timer = TokenWait]
      BY <1>3 DEF TakeToken
    <2>2. tokens' \in 0 .. Burst /\ elapsed' \in 0 .. Full /\ credit' \in Int
      BY <1>1, <2>1, RateAssumption DEF TypeOKHttp
    <2>3. CASE left > 0
      <3>1. call' = [call EXCEPT ![c].pc = "sending", ![c].sent = @ + 1]
        BY <2>1, <2>3
      <3> QED
        BY <2>2, <3>1 DEF TypeOKHttp, Steps
    <2>4. CASE ~ (left > 0)
      <3>1. call' = [call EXCEPT ![c].pc = "waiting", ![c].timer = Period]
        BY <2>1, <2>4 DEF TokenWait
      <3>2. call' \in [Calls -> [pc : Steps, attempt : 0 .. MaxRetries + 1, timer : Nat,
                                 left : 0 .. Deadline, sent : Nat, result : Results]]
        <4>1. call \in [Calls -> [pc : Steps, attempt : 0 .. MaxRetries + 1, timer : Nat,
                                  left : 0 .. Deadline, sent : Nat, result : Results]]
          BY DEF TypeOKHttp
        <4>2. "waiting" \in Steps
          BY DEF Steps
        <4> QED
          BY ONLY <1>1, <3>1, <4>1, <4>2
      <3> QED
        BY <2>2, <3>2 DEF TypeOKHttp
    <2> QED
      BY <2>3, <2>4
  <1>4. CASE WakeUp(c)
    BY <1>4, RetryAssumption DEF WakeUp, TypeOKHttp, Steps
  <1>5. CASE Expire(c)
    <2>1. call' = [call EXCEPT ![c].pc = "returned", ![c].result = "context"]
      BY <1>5 DEF Expire
    <2>2. UNCHANGED <<tokens, elapsed, credit>>
      BY <1>5 DEF Expire
    <2>3. "returned" \in Steps /\ "context" \in Results
      BY DEF Steps, Results
    <2> QED
      BY <2>1, <2>2, <2>3 DEF TypeOKHttp
  <1>6. ASSUME NEW outcome \in {"reply", "network", "status"}, Reply(c, outcome)
        PROVE  TypeOKHttp'
    <2>1. CASE Retried(c, outcome)
      <3>1. PICK delay \in Backoffs(call[c].attempt) :
              call' = [call EXCEPT ![c].pc = "backoff", ![c].result = outcome, ![c].timer = delay]
        BY <1>6, <2>1 DEF Reply
      <3>2. delay \in Nat
        BY BackoffIsNatural
      <3>3. UNCHANGED <<tokens, elapsed, credit>>
        BY <1>6 DEF Reply
      <3>4. outcome \in Results
        BY DEF Results
      <3>5. call' \in [Calls -> [pc : Steps, attempt : 0 .. MaxRetries + 1, timer : Nat,
                                left : 0 .. Deadline, sent : Nat, result : Results]]
        <4>1. call \in [Calls -> [pc : Steps, attempt : 0 .. MaxRetries + 1, timer : Nat,
                                 left : 0 .. Deadline, sent : Nat, result : Results]]
          BY DEF TypeOKHttp
        <4> DEFINE new == [call[c] EXCEPT !.pc = "backoff", !.result = outcome, !.timer = delay]
        <4>2. "backoff" \in Steps
          BY DEF Steps
        <4>3. new \in [pc : Steps, attempt : 0 .. MaxRetries + 1, timer : Nat,
                      left : 0 .. Deadline, sent : Nat, result : Results]
          BY <3>2, <3>4, <4>1, <4>2
        <4>4. call' = [call EXCEPT ![c] = new]
          BY <3>1, <4>1
        <4> QED
          BY <4>1, <4>3, <4>4
      <3> QED
        BY <3>3, <3>5 DEF TypeOKHttp
    <2>2. CASE ~ Retried(c, outcome)
      BY <1>6, <2>2 DEF Reply, TypeOKHttp, Steps, Results
    <2> QED
      BY <2>1, <2>2
  <1> QED
    BY <1>2, <1>3, <1>4, <1>5, <1>6 DEF CallSteps

LEMMA TypeStep == TypeOKHttp /\ [NextHttp]_httpVars => TypeOKHttp'
  <1> SUFFICES ASSUME TypeOKHttp, [NextHttp]_httpVars PROVE TypeOKHttp'
    OBVIOUS
  <1>1. CASE Tick
    BY <1>1, TypeTick
  <1>2. CASE \E c \in Calls : StartCall(c) \/ CallSteps(c)
    BY <1>2, TypeCall
  <1>3. CASE UNCHANGED httpVars
    BY <1>3 DEF httpVars, TypeOKHttp
  <1> QED
    BY <1>1, <1>2, <1>3 DEF NextHttp

(* The state of the client is always well formed. *)
THEOREM TypeCorrect == SpecHttp => []TypeOKHttp
  BY TypeInit, TypeStep, PTL DEF SpecHttp

-------------------------------------------------------------------------------
(***************************************************************************)
(* The rate.  The tokens and the time kept for the next refill are never   *)
(* worth more than the exact bucket holds.                                 *)
(***************************************************************************)
Worth == Lesser(tokens * Period + elapsed, CreditLimit)
WorthIsCovered == credit >= Worth

LEMMA RateInit == InitHttp => WorthIsCovered
  BY LimitsAreNatural, RateAssumption DEF InitHttp, WorthIsCovered, Worth, Lesser, Full, CreditLimit

\* What one pass of waitToken does, with the values refill leaves.
LEMMA TakeTokenIs ==
  ASSUME NEW c \in Calls, TakeToken(c)
  PROVE  \E left \in 0 .. Burst, since \in 0 .. Full :
           /\ Refill(left, since)
           /\ elapsed' = since
           /\ left > 0 => /\ tokens' = left - 1
                         /\ credit' = credit - Period
                         /\ call' = [call EXCEPT ![c].pc = "sending", ![c].sent = @ + 1]
           /\ left = 0 => /\ tokens' = 0
                         /\ credit' = credit
                         /\ call' = [call EXCEPT ![c].pc = "waiting", ![c].timer = Period]
  BY DEF TakeToken, TokenWait

LEMMA RateTake ==
  ASSUME TypeOKHttp, WorthIsCovered, NEW c \in Calls, TakeToken(c)
  PROVE  WorthIsCovered'
  <1>1. PICK left \in 0 .. Burst, since \in 0 .. Full :
          /\ Refill(left, since)
          /\ elapsed' = since
          /\ left > 0 => tokens' = left - 1 /\ credit' = credit - Period
          /\ left = 0 => tokens' = 0 /\ credit' = credit
    BY TakeTokenIs
  <1>2. /\ left * Period + since <= tokens * Period + elapsed
        /\ left * Period + since <= CreditLimit
    BY <1>1, RefillIsWorth DEF TypeOKHttp
  <1>3. /\ Period \in Nat \ {0} /\ Burst \in Nat /\ tokens \in Nat /\ elapsed \in Nat
        /\ credit \in Int /\ CreditLimit \in Nat /\ since \in Nat /\ left \in Nat
    BY LimitsAreNatural, RateAssumption DEF TypeOKHttp
  <1>4. tokens * Period \in Nat /\ left * Period \in Nat
    BY <1>3
  <1>5. credit >= left * Period + since
    BY <1>2, <1>3, <1>4 DEF WorthIsCovered, Worth, Lesser
  <1>6. CASE left > 0
    <2>1. (left - 1) * Period = left * Period - Period
      BY <1>3
    <2>2. credit - Period >= (left - 1) * Period + since
      BY <1>3, <1>4, <1>5, <2>1
    <2>3. (left - 1) * Period \in Int
      BY <1>3
    <2> QED
      BY <1>1, <1>3, <1>6, <2>2, <2>3 DEF WorthIsCovered, Worth, Lesser, CreditLimit, Full
  <1>7. CASE left = 0
    <2>1. 0 * Period = 0
      BY <1>3
    <2> QED
      BY <1>1, <1>3, <1>5, <1>7, <2>1 DEF WorthIsCovered, Worth, Lesser, CreditLimit, Full
  <1> QED
    BY <1>3, <1>6, <1>7

LEMMA LesserGrows ==
  ASSUME NEW w \in Int, NEW e \in Int, NEW f \in Int, NEW k \in Int, NEW limit \in Int,
         k >= Lesser(w + e, limit), f <= e + 1
  PROVE  Lesser(k + 1, limit) >= Lesser(w + f, limit)
  BY DEF Lesser

LEMMA RateTick ==
  ASSUME TypeOKHttp, WorthIsCovered, Tick
  PROVE  WorthIsCovered'
  <1>1. /\ tokens' = tokens /\ elapsed' <= elapsed + 1 /\ elapsed' \in Nat
        /\ credit' = Lesser(credit + 1, CreditLimit)
    <2>1. elapsed' = Lesser(elapsed + 1, Full) /\ elapsed \in 0 .. Full /\ Full \in Nat
      BY LimitsAreNatural DEF Tick, TypeOKHttp
    <2>2. tokens' = tokens /\ credit' = Lesser(credit + 1, CreditLimit)
      BY DEF Tick
    <2>3. elapsed' <= elapsed + 1 /\ elapsed' \in Nat
      BY <2>1 DEF Lesser
    <2> QED
      BY <2>2, <2>3
  <1>2. tokens * Period \in Nat /\ elapsed \in Nat /\ credit \in Int /\ CreditLimit \in Nat
    BY LimitsAreNatural, RateAssumption DEF TypeOKHttp
  <1>3. credit >= Lesser(tokens * Period + elapsed, CreditLimit)
    BY DEF WorthIsCovered, Worth
  <1>4. \A w \in Int : credit >= Lesser(w + elapsed, CreditLimit)
                     => credit' >= Lesser(w + elapsed', CreditLimit)
    <2>1. elapsed \in Int /\ elapsed' \in Int /\ CreditLimit \in Int /\ credit \in Int
      BY <1>1, <1>2
    <2> QED
      BY <1>1, <2>1, LesserGrows
  <1>5. credit' >= Lesser(tokens * Period + elapsed', CreditLimit)
    BY <1>2, <1>3, <1>4
  <1> QED
    BY <1>1, <1>5 DEF WorthIsCovered, Worth, Lesser, CreditLimit, Full

LEMMA RateStep == TypeOKHttp /\ WorthIsCovered /\ [NextHttp]_httpVars => WorthIsCovered'
  <1> SUFFICES ASSUME TypeOKHttp, WorthIsCovered, [NextHttp]_httpVars PROVE WorthIsCovered'
    OBVIOUS
  <1>1. CASE Tick
    BY <1>1, RateTick
  <1>2. ASSUME NEW c \in Calls, StartCall(c) \/ CallSteps(c)
        PROVE  WorthIsCovered'
    <2>1. CASE TakeToken(c)
      BY <2>1, RateTake
    <2>2. CASE UNCHANGED <<tokens, elapsed, credit>>
      BY <2>2 DEF WorthIsCovered, Worth, Lesser, CreditLimit, Full
    <2> QED
      BY <1>2, <2>1, <2>2 DEF CallSteps, StartCall, Reply, WakeUp, Expire
  <1>3. CASE UNCHANGED httpVars
    BY <1>3 DEF httpVars, WorthIsCovered, Worth, Lesser, CreditLimit, Full
  <1> QED
    BY <1>1, <1>2, <1>3 DEF NextHttp

(* However many calls share the client, it sends no more than a bucket     *)
(* that loses nothing would allow (waitToken, refill).                     *)
THEOREM RateIsKept == SpecHttp => []WithinRate
  <1>1. TypeOKHttp /\ WorthIsCovered => WithinRate
    <2> SUFFICES ASSUME TypeOKHttp, WorthIsCovered PROVE WithinRate
      OBVIOUS
    <2>1. tokens * Period \in Nat /\ elapsed \in Nat /\ credit \in Int /\ CreditLimit \in Nat
      BY LimitsAreNatural, RateAssumption DEF TypeOKHttp
    <2> QED
      BY <2>1 DEF WorthIsCovered, Worth, Lesser, WithinRate
  <1> QED
    BY <1>1, RateInit, RateStep, TypeCorrect, PTL DEF SpecHttp

-------------------------------------------------------------------------------
(***************************************************************************)
(* The next token.  A call starts to wait less than one period after       *)
(* lastFill, and refill never moves lastFill back.                         *)
(***************************************************************************)
LEMMA DueTake ==
  ASSUME TypeOKHttp, TokenIsDue, NEW c \in Calls, TakeToken(c)
  PROVE  TokenIsDue'
  <1>1. PICK left \in 0 .. Burst, since \in 0 .. Full :
          /\ Refill(left, since)
          /\ elapsed' = since
          /\ left > 0 => call' = [call EXCEPT ![c].pc = "sending", ![c].sent = @ + 1]
          /\ left = 0 => call' = [call EXCEPT ![c].pc = "waiting", ![c].timer = Period]
    BY TakeTokenIs
  <1>2. since <= elapsed /\ (left = 0 => since = elapsed /\ elapsed < Period)
    BY <1>1, RefillIsWorth DEF TypeOKHttp
  <1>3. elapsed \in Nat /\ elapsed' \in Nat /\ elapsed' <= elapsed /\ Period \in Nat \ {0}
    <2>1. elapsed \in 0 .. Full /\ Full \in Nat
      BY LimitsAreNatural DEF TypeOKHttp
    <2> QED
      BY <1>1, <1>2, <2>1, RateAssumption
  <1>4. left > 0 \/ left = 0
    OBVIOUS
  <1> SUFFICES ASSUME NEW d \in Calls, call'[d].pc = "waiting", call'[d].timer > 0
               PROVE  elapsed' + call'[d].timer < 2 * Period
    BY DEF TokenIsDue
  <1>5. CASE d = c
    <2>1. left = 0
      BY <1>1, <1>4, <1>5 DEF TypeOKHttp
    <2>2. call'[d].timer = Period
      BY <1>1, <1>5, <2>1 DEF TypeOKHttp
    <2> QED
      BY <1>1, <1>2, <1>3, <2>1, <2>2
  <1>6. CASE d # c
    <2>1. call'[d] = call[d]
      BY <1>1, <1>4, <1>6 DEF TypeOKHttp
    <2>2. elapsed + call[d].timer < 2 * Period
      BY <2>1 DEF TokenIsDue
    <2>3. call[d].timer \in Nat
      BY DEF TypeOKHttp
    <2> QED
      BY <1>3, <2>1, <2>2, <2>3
  <1> QED
    BY <1>5, <1>6

\* What the other steps of a call leave of its timer.
LEMMA DueOther ==
  ASSUME TypeOKHttp, TokenIsDue, NEW c \in Calls,
         elapsed' = elapsed, \A d \in Calls \ {c} : call'[d] = call[d],
         call'[c].pc # "waiting"
  PROVE  TokenIsDue'
  BY DEF TokenIsDue

LEMMA DueTick ==
  ASSUME TypeOKHttp, TokenIsDue, Tick
  PROVE  TokenIsDue'
  <1> SUFFICES ASSUME NEW d \in Calls, call'[d].pc = "waiting", call'[d].timer > 0
               PROVE  elapsed' + call'[d].timer < 2 * Period
    BY DEF TokenIsDue
  <1>1. call'[d].pc = call[d].pc /\ call'[d].timer = Down(call[d].timer)
    BY DEF Tick, TypeOKHttp
  <1>2. call[d].timer \in Nat
    BY DEF TypeOKHttp
  <1>3. call[d].timer > 0 /\ call'[d].timer = call[d].timer - 1
    BY <1>1, <1>2 DEF Down
  <1>4. elapsed \in Nat /\ elapsed' \in Nat /\ elapsed' <= elapsed + 1
    <2>1. elapsed' = Lesser(elapsed + 1, Full) /\ elapsed \in 0 .. Full /\ Full \in Nat
      BY LimitsAreNatural DEF Tick, TypeOKHttp
    <2> QED
      BY <2>1 DEF Lesser
  <1>5. elapsed + call[d].timer < 2 * Period
    BY <1>1, <1>3 DEF TokenIsDue
  <1>6. Period \in Nat
    BY RateAssumption
  <1> QED
    BY <1>2, <1>3, <1>4, <1>5, <1>6

\* A step of a call other than TakeToken: it ends, backs off or looks again.
LEMMA CallMoves ==
  ASSUME TypeOKHttp, NEW c \in Calls, StartCall(c) \/ CallSteps(c), ~ TakeToken(c)
  PROVE  /\ UNCHANGED <<tokens, elapsed, credit>>
         /\ \A d \in Calls \ {c} : call'[d] = call[d]
         /\ call'[c].pc \in {"token", "backoff", "returned"}
  <1>1. CASE StartCall(c)
    BY <1>1 DEF StartCall, TypeOKHttp
  <1>2. CASE WakeUp(c)
    BY <1>2 DEF WakeUp, TypeOKHttp
  <1>3. CASE Expire(c)
    <2>1. /\ call' = [call EXCEPT ![c].pc = "returned", ![c].result = "context"]
          /\ UNCHANGED <<tokens, elapsed, credit>>
      BY <1>3 DEF Expire
    <2> QED
      BY <2>1 DEF TypeOKHttp
  <1>4. ASSUME NEW outcome \in {"reply", "network", "status"}, Reply(c, outcome)
        PROVE  /\ UNCHANGED <<tokens, elapsed, credit>>
               /\ \A d \in Calls \ {c} : call'[d] = call[d]
               /\ call'[c].pc \in {"token", "backoff", "returned"}
    <2>1. UNCHANGED <<tokens, elapsed, credit>>
      BY <1>4 DEF Reply
    <2>2. CASE Retried(c, outcome)
      <3>1. PICK delay \in Backoffs(call[c].attempt) :
              call' = [call EXCEPT ![c].pc = "backoff", ![c].result = outcome, ![c].timer = delay]
        BY <1>4, <2>2 DEF Reply
      <3> QED
        BY <2>1, <3>1 DEF TypeOKHttp
    <2>3. CASE ~ Retried(c, outcome)
      <3>1. call' = [call EXCEPT ![c].pc = "returned", ![c].result = outcome]
        BY <1>4, <2>3 DEF Reply
      <3> QED
        BY <2>1, <3>1 DEF TypeOKHttp
    <2> QED
      BY <2>2, <2>3
  <1> QED
    BY <1>1, <1>2, <1>3, <1>4 DEF CallSteps

LEMMA DueStep == TypeOKHttp /\ TokenIsDue /\ [NextHttp]_httpVars => TokenIsDue'
  <1> SUFFICES ASSUME TypeOKHttp, TokenIsDue, [NextHttp]_httpVars PROVE TokenIsDue'
    OBVIOUS
  <1>1. CASE Tick
    BY <1>1, DueTick
  <1>2. ASSUME NEW c \in Calls, StartCall(c) \/ CallSteps(c)
        PROVE  TokenIsDue'
    <2>1. CASE TakeToken(c)
      BY <2>1, DueTake
    <2>2. CASE ~ TakeToken(c)
      <3>1. /\ elapsed' = elapsed
            /\ \A d \in Calls \ {c} : call'[d] = call[d]
            /\ call'[c].pc # "waiting"
        BY <1>2, <2>2, CallMoves
      <3> QED
        BY <3>1, DueOther
    <2> QED
      BY <2>1, <2>2
  <1>3. CASE UNCHANGED httpVars
    BY <1>3 DEF httpVars, TokenIsDue
  <1> QED
    BY <1>1, <1>2, <1>3 DEF NextHttp

(* A call that waits for a token has one earned for it before two periods  *)
(* have passed since lastFill, whatever the other calls did meanwhile      *)
(* (waitToken, refill: at most a fraction of a token is lost).             *)
THEOREM TokenComes == SpecHttp => []TokenIsDue
  <1>1. InitHttp => TokenIsDue
    BY DEF InitHttp, TokenIsDue
  <1> QED
    BY <1>1, DueStep, TypeCorrect, PTL DEF SpecHttp

-------------------------------------------------------------------------------
(***************************************************************************)
(* Repeated requests.  The loop of Do sends once for each attempt, and     *)
(* only a safe request reaches a second attempt.                           *)
(***************************************************************************)
Counted(r, safe) ==
  /\ r.pc \in {"idle", "token", "waiting"} => r.sent <= r.attempt
  /\ r.sent <= r.attempt + 1 /\ r.sent <= MaxRetries + 1
  /\ r.pc # "returned" => r.attempt <= MaxRetries
  /\ ~ safe => r.attempt = 0 /\ r.pc # "backoff"

AttemptsAreCounted == \A c \in Calls : Counted(call[c], c \in Safe)

LEMMA CountedTick == TypeOKHttp /\ AttemptsAreCounted /\ Tick => AttemptsAreCounted'
  <1> SUFFICES ASSUME TypeOKHttp, AttemptsAreCounted, Tick, NEW c \in Calls
               PROVE  Counted(call'[c], c \in Safe)
    BY DEF AttemptsAreCounted
  <1>1. call'[c].pc = call[c].pc /\ call'[c].sent = call[c].sent /\ call'[c].attempt = call[c].attempt
    BY DEF Tick, TypeOKHttp
  <1> QED
    BY <1>1 DEF AttemptsAreCounted, Counted

LEMMA CountedCall ==
  ASSUME TypeOKHttp, AttemptsAreCounted, NEW c \in Calls, StartCall(c) \/ CallSteps(c)
  PROVE  AttemptsAreCounted'
  <1> DEFINE r == call[c]
  <1>1. /\ Counted(r, c \in Safe) /\ MaxRetries \in Nat
        /\ r.attempt \in 0 .. MaxRetries + 1 /\ r.sent \in Nat
    BY RetryAssumption DEF AttemptsAreCounted, TypeOKHttp
  <1>2. ASSUME \A d \in Calls \ {c} : call'[d] = call[d], Counted(call'[c], c \in Safe)
        PROVE  AttemptsAreCounted'
    BY <1>2 DEF AttemptsAreCounted
  <1>3. CASE StartCall(c)
    <2>1. /\ call[c].pc = "idle" /\ call'[c].pc = "token" /\ call'[c].sent = call[c].sent
          /\ call'[c].attempt = call[c].attempt /\ \A d \in Calls \ {c} : call'[d] = call[d]
      BY <1>3 DEF StartCall, TypeOKHttp
    <2> QED
      BY <1>1, <1>2, <2>1 DEF Counted
  <1>4. CASE TakeToken(c)
    <2>1. PICK left \in 0 .. Burst, since \in 0 .. Full :
            /\ left > 0 => call' = [call EXCEPT ![c].pc = "sending", ![c].sent = @ + 1]
            /\ left = 0 => call' = [call EXCEPT ![c].pc = "waiting", ![c].timer = Period]
      BY <1>4, TakeTokenIs
    <2>2. call[c].pc = "token" /\ (left > 0 \/ left = 0)
      BY <1>4 DEF TakeToken
    <2>3. CASE left > 0
      <3>1. /\ call'[c].pc = "sending" /\ call'[c].sent = call[c].sent + 1
            /\ call'[c].attempt = call[c].attempt /\ \A d \in Calls \ {c} : call'[d] = call[d]
        BY <2>1, <2>3 DEF TypeOKHttp
      <3> QED
        BY <1>1, <1>2, <2>2, <3>1 DEF Counted
    <2>4. CASE left = 0
      <3>1. /\ call'[c].pc = "waiting" /\ call'[c].sent = call[c].sent
            /\ call'[c].attempt = call[c].attempt /\ \A d \in Calls \ {c} : call'[d] = call[d]
        BY <2>1, <2>4 DEF TypeOKHttp
      <3> QED
        BY <1>1, <1>2, <2>2, <3>1 DEF Counted
    <2> QED
      BY <2>2, <2>3, <2>4
  <1>5. CASE WakeUp(c)
    <2>1. /\ call'[c].sent = call[c].sent /\ \A d \in Calls \ {c} : call'[d] = call[d]
          /\ \/ call[c].pc = "waiting" /\ call'[c].pc = "token" /\ call'[c].attempt = call[c].attempt
             \/ /\ call[c].pc = "backoff" /\ call'[c].attempt = call[c].attempt + 1
                /\ \/ call[c].attempt < MaxRetries /\ call'[c].pc = "token"
                   \/ call[c].attempt = MaxRetries /\ call'[c].pc = "returned"
      BY <1>5 DEF WakeUp, TypeOKHttp
    <2> QED
      BY <1>1, <1>2, <2>1 DEF Counted
  <1>6. CASE Expire(c)
    <2>1. call' = [call EXCEPT ![c].pc = "returned", ![c].result = "context"]
      BY <1>6 DEF Expire
    <2>2. /\ call'[c].pc = "returned" /\ call'[c].sent = call[c].sent
          /\ call'[c].attempt = call[c].attempt /\ \A d \in Calls \ {c} : call'[d] = call[d]
      BY <2>1 DEF TypeOKHttp
    <2> QED
      BY <1>1, <1>2, <2>2 DEF Counted
  <1>7. ASSUME NEW outcome \in {"reply", "network", "status"}, Reply(c, outcome)
        PROVE  AttemptsAreCounted'
    <2>1. call[c].pc = "sending"
      BY <1>7 DEF Reply
    <2>2. CASE Retried(c, outcome)
      <3>1. PICK delay \in Backoffs(call[c].attempt) :
              call' = [call EXCEPT ![c].pc = "backoff", ![c].result = outcome, ![c].timer = delay]
        BY <1>7, <2>2 DEF Reply
      <3>2. /\ call'[c].pc = "backoff" /\ call'[c].sent = call[c].sent
            /\ call'[c].attempt = call[c].attempt /\ \A d \in Calls \ {c} : call'[d] = call[d]
        BY <3>1 DEF TypeOKHttp
      <3>3. c \in Safe
        BY <2>2 DEF Retried
      <3> QED
        BY <1>1, <1>2, <2>1, <3>2, <3>3 DEF Counted
    <2>3. CASE ~ Retried(c, outcome)
      <3>1. call' = [call EXCEPT ![c].pc = "returned", ![c].result = outcome]
        BY <1>7, <2>3 DEF Reply
      <3>2. /\ call'[c].pc = "returned" /\ call'[c].sent = call[c].sent
            /\ call'[c].attempt = call[c].attempt /\ \A d \in Calls \ {c} : call'[d] = call[d]
        BY <3>1 DEF TypeOKHttp
      <3> QED
        BY <1>1, <1>2, <2>1, <3>2 DEF Counted
    <2> QED
      BY <2>2, <2>3
  <1> QED
    BY <1>3, <1>4, <1>5, <1>6, <1>7 DEF CallSteps

(* An order, a transfer or a setting leaves the client at most once; a     *)
(* request that may be repeated at most MaxRetries + 1 times (Do).         *)
THEOREM UnsafeIsSentOnce == SpecHttp => []UnsafeSentOnce
  <1>1. InitHttp => AttemptsAreCounted
    <2> SUFFICES ASSUME InitHttp, NEW c \in Calls PROVE Counted(call[c], c \in Safe)
      BY DEF AttemptsAreCounted
    <2>1. call[c].pc = "idle" /\ call[c].attempt = 0 /\ call[c].sent = 0
      BY DEF InitHttp
    <2> QED
      BY <2>1, RetryAssumption DEF Counted
  <1>2. TypeOKHttp /\ AttemptsAreCounted /\ [NextHttp]_httpVars => AttemptsAreCounted'
    <2>1. CASE UNCHANGED httpVars
      BY <2>1 DEF httpVars, AttemptsAreCounted, Counted
    <2> QED
      BY <2>1, CountedTick, CountedCall DEF NextHttp
  <1>3. TypeOKHttp /\ AttemptsAreCounted => UnsafeSentOnce
    <2> SUFFICES ASSUME TypeOKHttp, AttemptsAreCounted, NEW c \in Calls
                 PROVE  call[c].sent <= IF c \in Safe THEN MaxRetries + 1 ELSE 1
      BY DEF UnsafeSentOnce
    <2>1. Counted(call[c], c \in Safe) /\ call[c].sent \in Nat /\ MaxRetries \in Nat
      BY RetryAssumption DEF AttemptsAreCounted, TypeOKHttp
    <2>2. CASE c \in Safe
      BY <2>1, <2>2 DEF Counted
    <2>3. CASE c \notin Safe
      BY <2>1, <2>3 DEF Counted
    <2> QED
      BY <2>2, <2>3
  <1> QED
    BY <1>1, <1>2, <1>3, TypeCorrect, PTL DEF SpecHttp
-------------------------------------------------------------------------------
(***************************************************************************)
(* The manager.  Only the connect callback ends an attempt, and it does so *)
(* while the loop waits for it; a closed breaker has rested long enough,   *)
(* and while the loop rests its timer covers what is left.                 *)
(***************************************************************************)
Stages == {"idle", "check", "connect", "resting", "backoff", "ended"}

TypeOKManager ==
  /\ loop \in [pc : Stages, attempts : Nat, open : BOOLEAN, timer : Nat]
  /\ opened \in Nat

Rests ==
  /\ loop.attempts <= FailureThreshold
  /\ ~loop.open => loop.attempts < FailureThreshold /\ opened >= ResetTimeout
  /\ loop.pc = "connect" => ~loop.open
  /\ loop.pc = "resting" => opened + loop.timer >= ResetTimeout

Called ==
  /\ reader.pc \in {"token", "dialing"} => loop.pc = "connect"
  /\ channel.closed => reader.pc = "off"

ManagerInv == TypeOKManager /\ Rests /\ Called

-------------------------------------------------------------------------------
Readings == {"checking", "reading", "sending"}
Values == [Fields -> Nat]
Messages == [at : Nat, fields : SUBSET Fields, value : Values]

TypeOKStream ==
  /\ truth \in Seq(Values) /\ truth # <<>>
  /\ conn \in [open : BOOLEAN, wire : Seq(Messages)]
  /\ reader \in [pc : {"off", "token", "dialing", "greeting"} \cup Readings,
                 topic : {"none"} \cup Asked, kept : Values, pending : Messages]
  /\ channel \in [items : Seq(Messages), closed : BOOLEAN]
  /\ taken \in Messages

Changes == reader.topic \in DOMAIN Traits.changes
Merges == Changes /\ Traits.changes[reader.topic] = "merged"

\* A message shows what the venue had at its moment; one with changes only,
\* what differs from the moment before.
Genuine(msg) ==
  /\ msg.at \in DOMAIN truth
  /\ \A f \in msg.fields : msg.value[f] = truth[msg.at][f]

OnWire(msg) ==
  /\ Genuine(msg)
  /\ msg.fields # Fields =>
       /\ Changes /\ msg.at - 1 \in DOMAIN truth
       /\ \A f \in Fields \ msg.fields : truth[msg.at][f] = truth[msg.at - 1][f]

Wired ==
  /\ \A i \in DOMAIN conn.wire : OnWire(conn.wire[i])
  /\ \A i, j \in DOMAIN conn.wire : conn.wire[j].at - conn.wire[i].at = j - i
  /\ conn.open /\ conn.wire # <<>> => conn.wire[Len(conn.wire)].at = Len(truth)

\* What the reader meets next, as long as it meets anything.
Following == reader.pc \in Readings /\ (conn.open \/ conn.wire # <<>>)
NextAt == IF conn.wire = <<>> THEN Len(truth) + 1 ELSE conn.wire[1].at

KeptIsLast ==
  Following /\ Merges /\ (conn.wire # <<>> => conn.wire[1].fields # Fields)
  => NextAt - 1 \in DOMAIN truth /\ reader.kept = truth[NextAt - 1]

Comes(at, before) == IF Private THEN at = before + 1 ELSE at > before

\* The newest event but one that waits to be sent.
Newest == IF channel.items = <<>> THEN taken ELSE channel.items[Len(channel.items)]

Ordered ==
  /\ \A i \in DOMAIN channel.items : Genuine(channel.items[i])
  /\ taken.at # 0 => Genuine(taken)
  /\ reader.pending.at # 0 => Genuine(reader.pending)
  /\ \A i \in DOMAIN channel.items : i + 1 \in DOMAIN channel.items =>
       Comes(channel.items[i + 1].at, channel.items[i].at)
  /\ taken.at # 0 /\ channel.items # <<>> => Comes(channel.items[1].at, taken.at)
  /\ reader.pending.at # 0 /\ Newest.at # 0 => Comes(reader.pending.at, Newest.at)
  /\ Following /\ reader.pending.at # 0 => Comes(NextAt, reader.pending.at)
  /\ Following /\ reader.pending.at = 0 /\ Newest.at # 0 => Comes(NextAt, Newest.at)

\* What a connection leaves when it ends, and how it begins.
Clean ==
  /\ reader.pc = "sending" <=> reader.pending.at # 0
  /\ reader.pc \in {"off", "token", "dialing"} => conn = NoConn
  /\ reader.pc = "greeting" => conn.wire = <<>> /\ channel.items = <<>> /\ taken.at = 0

StreamInv == TypeOKStream /\ Wired /\ KeptIsLast /\ Ordered /\ Clean

-------------------------------------------------------------------------------
(* A closed breaker has rested. *)

LEMMA DelaysAreNatural == \A attempt : Delays(attempt) \subseteq Nat
  BY BackoffAssumption DEF Delays

LEMMA ManagerInit == Init => ManagerInv
  BY ThresholdAssumption, BackoffAssumption
  DEF Init, InitStream, InitManager, ManagerInv, TypeOKManager, Rests, Called, Stages,
      Off, NoChannel, Nothing, NoEvent

\* The end of an attempt, with an error or without.
LEMMA AttemptEnds ==
  ASSUME ManagerInv, loop.pc = "connect", Fail \/ Succeed
  PROVE  TypeOKManager' /\ Rests'
  <1> USE ThresholdAssumption, BackoffAssumption
  <1>1. ~loop.open /\ loop.attempts < FailureThreshold /\ opened >= ResetTimeout
    BY DEF ManagerInv, Rests
  <1>2. TypeOKManager
    BY DEF ManagerInv
  <1>3. CASE Succeed
    <2>1. loop' \in [pc : Stages, attempts : Nat, open : BOOLEAN, timer : Nat]
      BY <1>2, <1>3 DEF Succeed, TypeOKManager, Stages
    <2>2. loop'.pc = "check" /\ loop'.attempts = 0 /\ loop'.open = loop.open /\ opened' = opened
      BY <1>2, <1>3 DEF Succeed, TypeOKManager
    <2> QED
      BY <1>1, <1>2, <2>1, <2>2 DEF TypeOKManager, Rests
  <1>4. CASE Fail /\ stopped
    BY <1>1, <1>2, <1>4 DEF Fail, TypeOKManager, Rests, Stages
  <1>5. CASE Fail /\ ~stopped
    <2>1. PICK delay \in Delays(loop.attempts) :
            loop' = [loop EXCEPT !.pc = "backoff", !.attempts = @ + 1, !.timer = delay,
                                 !.open = @ \/ Trips(loop.attempts + 1)]
      BY <1>5 DEF Fail
    <2>2. delay \in Nat
      BY <2>1, DelaysAreNatural
    <2>3. opened' = IF Trips(loop.attempts + 1) THEN 0 ELSE opened
      BY <1>1, <1>5 DEF Fail
    <2>4. /\ loop'.pc = "backoff" /\ loop'.timer = delay /\ loop'.attempts = loop.attempts + 1
          /\ loop'.open <=> Trips(loop.attempts + 1)
      BY <1>1, <1>2, <2>1 DEF TypeOKManager
    <2>5. loop' \in [pc : Stages, attempts : Nat, open : BOOLEAN, timer : Nat]
      <3>1. (loop.open \/ Trips(loop.attempts + 1)) \in BOOLEAN
        BY <1>2 DEF TypeOKManager, Trips
      <3>2. loop.attempts + 1 \in Nat /\ "backoff" \in Stages
        BY <1>2 DEF TypeOKManager, Stages
      <3> QED
        BY <1>2, <2>1, <2>2, <3>1, <3>2 DEF TypeOKManager
    <2>6. opened' \in Nat
      BY <1>2, <2>3 DEF TypeOKManager
    <2> QED
      BY <1>1, <1>2, <2>3, <2>4, <2>5, <2>6 DEF TypeOKManager, Rests, Trips
  <1> QED
    BY <1>3, <1>4, <1>5

\* The loop and the clock.
LEMMA LoopStep ==
  ASSUME ManagerInv, ManagerSteps
  PROVE  ManagerInv'
  <1> USE ThresholdAssumption, BackoffAssumption
  <1>1. UNCHANGED streamVars
    BY DEF ManagerSteps
  <1>2. TypeOKManager' /\ Rests' /\ (loop.pc = "connect" => loop'.pc = "connect")
    <2>0. TypeOKManager /\ Rests
      BY DEF ManagerInv
    <2>1. CASE Start
      BY <2>1 DEF Start, ManagerInv, TypeOKManager, Rests, Stages
    <2>2. CASE Stop
      BY <2>2 DEF Stop, ManagerInv, TypeOKManager, Rests, Stages
    <2>3. CASE Check
      <3>1. loop' \in [pc : Stages, attempts : Nat, open : BOOLEAN, timer : Nat] /\ opened' \in Nat
        BY <2>3, <2>0 DEF Check, TypeOKManager, Stages
      <3>2. CASE stopped
        <4>1. loop'.pc = "ended" /\ loop'.attempts = loop.attempts /\ loop'.open = loop.open
          BY <2>3, <2>0, <3>2 DEF Check, TypeOKManager
        <4> QED
          BY <2>3, <2>0, <3>1, <4>1 DEF Check, TypeOKManager, Rests
      <3>3. CASE ~stopped /\ ~AllowAttempt
        <4>1. /\ loop'.pc = "resting" /\ loop'.timer = ResetTimeout
              /\ loop'.attempts = loop.attempts /\ loop'.open = loop.open
          BY <2>3, <2>0, <3>3 DEF Check, TypeOKManager
        <4> QED
          BY <2>3, <2>0, <3>1, <4>1 DEF Check, TypeOKManager, Rests
      <3>4. CASE ~stopped /\ AllowAttempt /\ loop.open
        <4>1. loop'.pc = "connect" /\ loop'.attempts = 0 /\ ~loop'.open /\ opened >= ResetTimeout
          BY <2>3, <2>0, <3>4 DEF Check, TypeOKManager, AllowAttempt
        <4> QED
          BY <2>3, <2>0, <3>1, <4>1 DEF Check, TypeOKManager, Rests
      <3>5. CASE ~stopped /\ AllowAttempt /\ ~loop.open
        <4>1. loop'.pc = "connect" /\ loop'.attempts = loop.attempts /\ ~loop'.open
          BY <2>3, <2>0, <3>5 DEF Check, TypeOKManager
        <4> QED
          BY <2>3, <2>0, <3>1, <3>5, <4>1 DEF Check, TypeOKManager, Rests
      <3> QED
        BY <2>3, <3>2, <3>3, <3>4, <3>5 DEF Check
    <2>4. CASE Rested
      <3>1. loop' \in [pc : Stages, attempts : Nat, open : BOOLEAN, timer : Nat]
        BY <2>4, <2>0 DEF Rested, TypeOKManager, Stages
      <3>2. loop'.pc = "connect" /\ loop'.attempts = 0 /\ ~loop'.open
        BY <2>4, <2>0 DEF Rested, TypeOKManager
      <3>3. opened' = opened /\ opened >= ResetTimeout
        BY <2>4, <2>0 DEF Rested, TypeOKManager, Rests
      <3> QED
        BY <2>0, <3>1, <3>2, <3>3 DEF TypeOKManager, Rests
    <2>5. CASE Retry
      BY <2>5 DEF Retry, ManagerInv, TypeOKManager, Rests, Stages
    <2>6. CASE Interrupted
      BY <2>6 DEF Interrupted, ManagerInv, TypeOKManager, Rests, Stages
    <2>7. CASE ManagerTick
      BY <2>7 DEF ManagerTick, ManagerInv, TypeOKManager, Rests, Stages
    <2> QED
      BY <2>1, <2>2, <2>3, <2>4, <2>5, <2>6, <2>7 DEF ManagerSteps, LoopSteps
  <1>3. Called'
    BY <1>1, <1>2 DEF ManagerInv, Called, streamVars
  <1> QED
    BY <1>2, <1>3 DEF ManagerInv

LEMMA CallbackStep ==
  ASSUME ManagerInv, TypeOKStream, CallbackSteps
  PROVE  ManagerInv'
  <1>1. TypeOKManager /\ Rests /\ Called
    BY DEF ManagerInv
  <1>2. CASE UNCHANGED managerVars /\ Called'
    BY <1>1, <1>2 DEF ManagerInv, TypeOKManager, Rests, managerVars
  <1>3. CASE Subscribe
    <2>1. CASE Fail /\ UNCHANGED <<reader, channel>>
      BY <1>1, <1>3, <2>1, AttemptEnds DEF Subscribe, Connecting, ManagerInv, Called
    <2>2. CASE UNCHANGED <<managerVars, channel>>
      BY <1>2, <1>3, <2>2 DEF Subscribe, Connecting, Called, managerVars
    <2> QED
      BY <1>3, <2>1, <2>2 DEF Subscribe
  <1>4. CASE Token
    <2>1. reader'.pc \in {"dialing", reader.pc}
      BY <1>4 DEF Token, TypeOKStream
    <2> QED
      BY <1>1, <1>2, <1>4, <2>1 DEF Token, Called, managerVars
  <1>5. CASE Dial
    <2>1. reader'.pc \notin {"token", "dialing"}
      <3>1. reader.pc = "dialing"
        BY <1>5 DEF Dial
      <3>2. PICK topic : reader' = [reader EXCEPT
                !.pc = IF Traits.greeting THEN "greeting" ELSE "checking", !.topic = topic]
        BY <1>5 DEF Dial
      <3> QED
        BY <3>1, <3>2 DEF TypeOKStream
    <2> QED
      BY <1>1, <1>2, <1>5, <2>1 DEF Dial, Called, NoChannel
  <1>6. CASE NotConnected
    <2>1. loop.pc = "connect" /\ Fail /\ reader' = Off /\ channel' = channel
      BY <1>1, <1>6 DEF NotConnected, Called
    <2> QED
      BY <1>1, <2>1, AttemptEnds DEF ManagerInv, Called, Off
  <1>7. CASE Take
    <2>1. channel'.closed = channel.closed
      BY <1>7 DEF Take, TypeOKStream
    <2> QED
      BY <1>1, <1>2, <1>7, <2>1 DEF Take, Called, managerVars
  <1>8. CASE Return
    <2>1. reader.pc \notin {"token", "dialing"} /\ loop.pc = "connect"
      BY <1>1, <1>8 DEF Return, Connecting, Called
    <2>2. ~channel'.closed
      BY <1>1, <1>8 DEF Return, NoChannel, Called
    <2> QED
      BY <1>1, <1>8, <2>1, <2>2, AttemptEnds DEF Return, ManagerInv, Called
  <1> QED
    BY <1>3, <1>4, <1>5, <1>6, <1>7, <1>8 DEF CallbackSteps

\* The venue and the goroutine call nothing.
LEMMA OtherStep ==
  ASSUME ManagerInv, TypeOKStream, Break \/ ReaderSteps \/ (\E f \in Fields : Update(f))
  PROVE  ManagerInv'
  <1>1. UNCHANGED managerVars
    BY DEF Break, Update, ReaderSteps, Greeted, NotGreeted, CheckContext, Watch, Read,
           ReadError, Sent, SendGivenUp
  <1>2. Called
    BY DEF ManagerInv
  <1>3. Called'
    <2>1. CASE EndReader
      BY <2>1 DEF EndReader, Called, Off
    <2>2. CASE UNCHANGED <<reader, channel>>
      BY <1>1, <1>2, <2>2 DEF Called, managerVars
    <2>3. CASE Greeted
      <3>1. reader'.pc \notin {"token", "dialing"}
        BY <2>3 DEF Greeted, TypeOKStream
      <3> QED
        BY <1>2, <2>3, <3>1 DEF Greeted, Called
    <2>4. CASE CheckContext
      <3>1. CASE ~EndReader
        <4>1. reader'.pc = "reading" /\ UNCHANGED channel
          BY <2>4, <3>1 DEF CheckContext, TypeOKStream
        <4> QED
          BY <1>2, <2>4, <4>1 DEF CheckContext, Called
      <3> QED
        BY <2>1, <3>1
    <2>5. CASE Read
      <3>1. reader.pc = "reading" /\ reader'.pc \in {"sending", "checking", "reading"}
        BY <2>5 DEF Read, TypeOKStream
      <3>2. ~channel.closed
        BY <1>2, <3>1 DEF Called
      <3>3. channel'.closed = channel.closed
        BY <2>5 DEF Read, Deliver, TypeOKStream
      <3> QED
        BY <3>1, <3>2, <3>3 DEF Called
    <2>6. CASE Sent
      <3>1. reader.pc = "sending" /\ reader'.pc \notin {"token", "dialing"}
        BY <2>6 DEF Sent, TypeOKStream
      <3>2. channel'.closed = channel.closed
        BY <2>6 DEF Sent, Deliver, TypeOKStream
      <3> QED
        BY <1>2, <3>1, <3>2 DEF Called
    <2> QED
      BY <2>1, <2>2, <2>3, <2>4, <2>5, <2>6
      DEF ReaderSteps, Break, Update, NotGreeted, Watch, ReadError, SendGivenUp
  <1> QED
    BY <1>1, <1>3 DEF ManagerInv, TypeOKManager, Rests, managerVars

LEMMA ManagerStep == ManagerInv /\ TypeOKStream /\ [Next]_vars => ManagerInv'
  <1> SUFFICES ASSUME ManagerInv, TypeOKStream, [Next]_vars PROVE ManagerInv'
    OBVIOUS
  <1>1. CASE UNCHANGED <<managerVars, streamVars>>
    BY <1>1 DEF ManagerInv, TypeOKManager, Rests, Called, managerVars, streamVars
  <1>2. CASE Http \/ UNCHANGED vars
    BY <1>1, <1>2 DEF Http, vars
  <1>3. CASE Streaming
    BY <1>3, LoopStep, CallbackStep, OtherStep DEF Streaming, NextStream
  <1> QED
    BY <1>2, <1>3 DEF Next

-------------------------------------------------------------------------------
(* Events are faithful. *)

\* A private stream sends no changes.
LEMMA PrivateIsWhole == Private => ~Changes
  <1> SUFFICES ASSUME source.kind = "private" PROVE DOMAIN Traits.changes = {}
    BY DEF Private, Changes
  <1>1. Traits.changes = [topic \in {} |-> "merged"]
    BY DEF Traits, StreamOf, BinanceModule!PrivateStream, BinanceModule!Whole,
           BybitModule!PrivateStream, BybitModule!Whole
  <1> QED
    BY <1>1

LEMMA ConstantsAreTyped ==
  /\ Nothing \in Values /\ NoEvent \in Messages /\ NoEvent.at = 0
  /\ NoChannel.items = <<>> /\ NoConn.wire = <<>> /\ ~NoConn.open
  /\ Off.pc = "off" /\ Off.topic = "none" /\ Off.kept = Nothing /\ Off.pending = NoEvent
  <1>1. Nothing \in Values
    BY DEF Nothing, Values
  <1>2. NoEvent \in Messages /\ NoEvent.at = 0
    BY <1>1 DEF NoEvent, Messages
  <1> QED
    BY <1>1, <1>2 DEF NoChannel, NoConn, Off

LEMMA CurrentIs ==
  ASSUME TypeOKStream
  PROVE  /\ Current \in Messages /\ Current.at = Len(truth) /\ Current.fields = Fields
         /\ Current.value = truth[Len(truth)] /\ Len(truth) \in DOMAIN truth
         /\ DOMAIN truth = 1 .. Len(truth) /\ Len(truth) \in Nat
  <1>1. Len(truth) \in Nat /\ DOMAIN truth = 1 .. Len(truth) /\ Len(truth) \in DOMAIN truth
    BY DEF TypeOKStream
  <1>2. truth[Len(truth)] \in Values
    BY <1>1 DEF TypeOKStream
  <1> QED
    BY <1>1, <1>2 DEF Current, Last, Messages

LEMMA StreamInit == Init => StreamInv
  <1> SUFFICES ASSUME Init PROVE StreamInv
    OBVIOUS
  <1> USE ConstantsAreTyped
  <1>1. /\ truth = <<[f \in Fields |-> 1]>> /\ conn = NoConn /\ reader = Off
        /\ channel = NoChannel /\ taken = NoEvent
    BY DEF Init, InitStream
  <1>2. TypeOKStream
    <2>1. [f \in Fields |-> 1] \in Values
      BY DEF Values
    <2>2. Off \in [pc : {"off", "token", "dialing", "greeting"} \cup Readings,
                   topic : {"none"} \cup Asked, kept : Values, pending : Messages]
      BY DEF Off
    <2> QED
      BY <1>1, <2>1, <2>2 DEF TypeOKStream, NoConn, NoChannel
  <1>3. Wired
    BY <1>1 DEF Wired
  <1>4. ~Following
    BY <1>1 DEF Following, Readings
  <1>5. KeptIsLast /\ Ordered
    BY <1>1, <1>4 DEF KeptIsLast, Ordered, Newest
  <1>6. Clean
    BY <1>1 DEF Clean
  <1> QED
    BY <1>2, <1>3, <1>5, <1>6 DEF StreamInv

\* A step after which the same messages are met, and the same events are there.
LEMMA Same ==
  ASSUME StreamInv, UNCHANGED <<source, truth, taken>>,
         conn'.wire = conn.wire, conn'.open => conn.open, channel'.items = channel.items,
         reader'.topic = reader.topic, reader'.kept = reader.kept,
         reader'.pending = reader.pending, Following' => Following
  PROVE  Wired' /\ KeptIsLast' /\ Ordered'
  <1>1. (Private' <=> Private) /\ (Changes' <=> Changes) /\ (Merges' <=> Merges)
    BY DEF Private, Changes, Merges, Traits
  <1>2. \A msg : (Genuine(msg)' <=> Genuine(msg)) /\ (OnWire(msg)' <=> OnWire(msg))
    BY <1>1 DEF Genuine, OnWire
  <1>3. Newest' = Newest /\ NextAt' = NextAt
    BY DEF Newest, NextAt
  <1>4. \A a, b : Comes(a, b)' <=> Comes(a, b)
    BY <1>1 DEF Comes
  <1>5. Wired'
    BY <1>2 DEF StreamInv, Wired
  <1>6. KeptIsLast'
    BY <1>1, <1>3 DEF StreamInv, KeptIsLast
  <1>7. Ordered'
    BY <1>2, <1>3, <1>4 DEF StreamInv, Ordered
  <1> QED
    BY <1>5, <1>6, <1>7

LEMMA SameStream ==
  ASSUME StreamInv, UNCHANGED streamVars
  PROVE  StreamInv'
  <1>1. UNCHANGED <<source, wanted, truth, conn, reader, channel, taken>>
    BY DEF streamVars
  <1>2. Following' <=> Following
    BY <1>1 DEF Following
  <1>3. Asked' = Asked
    BY <1>1 DEF Asked, Private
  <1>4. TypeOKStream'
    BY <1>1, <1>3 DEF StreamInv, TypeOKStream
  <1>5. Clean'
    BY <1>1 DEF StreamInv, Clean
  <1> QED
    BY <1>1, <1>2, <1>4, <1>5, Same DEF StreamInv

\* A step after which nothing more is met.
LEMMA NothingMore ==
  ASSUME StreamInv, UNCHANGED <<source, truth, taken>>, conn'.wire = <<>>, ~conn'.open,
         \/ channel'.items = channel.items /\ reader'.pending = reader.pending
         \/ channel'.items \in {channel.items, <<>>} /\ reader'.pending.at = 0
  PROVE  Wired' /\ KeptIsLast' /\ Ordered'
  <1>1. Private' <=> Private
    BY DEF Private
  <1>4. ~Following'
    BY DEF Following
  <1>5. Wired' /\ KeptIsLast'
    BY <1>4 DEF Wired, KeptIsLast
  <1>6. Ordered
    BY DEF StreamInv
  <1>7. CASE channel'.items = channel.items
    BY <1>1, <1>4, <1>5, <1>6, <1>7 DEF Ordered, Newest, Genuine, Comes
  <1>8. CASE channel'.items = <<>> /\ reader'.pending.at = 0
    BY <1>4, <1>5, <1>6, <1>8 DEF Ordered, Newest, Genuine
  <1> QED
    BY <1>5, <1>7, <1>8

\* The goroutine ends.
LEMMA EndReaderStep ==
  ASSUME StreamInv, EndReader, UNCHANGED <<source, wanted, truth, taken>>
  PROVE  StreamInv'
  <1> USE ConstantsAreTyped
  <1>1. TypeOKStream
    BY DEF StreamInv
  <1>2. reader' = Off /\ conn' = NoConn
    BY DEF EndReader
  <1>3. channel' \in [items : Seq(Messages), closed : BOOLEAN] /\ channel'.items \in {channel.items, <<>>}
    <2>1. CASE loop.pc = "ended"
      BY <2>1 DEF EndReader, NoChannel
    <2>2. CASE loop.pc # "ended"
      BY <1>1, <2>2 DEF EndReader, TypeOKStream
    <2> QED
      BY <2>1, <2>2
  <1>4. TypeOKStream'
    <2>1. Off \in [pc : {"off", "token", "dialing", "greeting"} \cup Readings,
                   topic : {"none"} \cup Asked', kept : Values, pending : Messages]
      BY DEF Off
    <2> QED
      BY <1>1, <1>2, <1>3, <2>1 DEF TypeOKStream, NoConn
  <1>5. Wired' /\ KeptIsLast' /\ Ordered'
    BY <1>2, <1>3, NothingMore
  <1>6. Clean'
    BY <1>2 DEF Clean
  <1> QED
    BY <1>4, <1>5, <1>6 DEF StreamInv

\* What the callback and the network do.
LEMMA SubscribeStep ==
  ASSUME StreamInv, Subscribe
  PROVE  StreamInv'
  <1> USE ConstantsAreTyped
  <1>1. TypeOKStream /\ Clean
    BY DEF StreamInv
  <1>2. reader.pc = "off" /\ conn = NoConn
    BY <1>1 DEF Subscribe, Clean
  <1>3. UNCHANGED <<source, wanted, truth, conn, channel, taken>>
    BY DEF Subscribe
  <1>4. \/ reader' = reader
        \/ \E pc \in {"token", "dialing"} : reader' = [Off EXCEPT !.pc = pc]
    BY DEF Subscribe
  <1>5. /\ reader'.pc \in {"off", "token", "dialing"} /\ reader'.pending.at = 0
        /\ reader' \in [pc : {"off", "token", "dialing", "greeting"} \cup Readings,
                        topic : {"none"} \cup Asked, kept : Values, pending : Messages]
    <2>1. CASE reader' = reader
      BY <1>1, <1>2, <2>1 DEF Clean, TypeOKStream
    <2>2. ASSUME NEW pc \in {"token", "dialing"}, reader' = [Off EXCEPT !.pc = pc]
          PROVE  <1>5
      BY <2>2 DEF Off
    <2> QED
      BY <1>4, <2>1, <2>2
  <1>6. Asked' = Asked
    BY <1>3 DEF Asked, Private
  <1>7. TypeOKStream'
    BY <1>1, <1>3, <1>5, <1>6 DEF TypeOKStream
  <1>8. Wired' /\ KeptIsLast' /\ Ordered'
    BY <1>2, <1>3, <1>5, NothingMore
  <1>9. Clean'
    BY <1>2, <1>3, <1>5 DEF Clean
  <1> QED
    BY <1>7, <1>8, <1>9 DEF StreamInv

LEMMA TokenStep ==
  ASSUME StreamInv, Token
  PROVE  StreamInv'
  <1> USE ConstantsAreTyped
  <1>1. TypeOKStream /\ Clean
    BY DEF StreamInv
  <1>2. conn = NoConn /\ reader.pending.at = 0
    BY <1>1 DEF Token, Clean
  <1>3. UNCHANGED <<source, wanted, truth, conn, channel, taken>>
    BY DEF Token
  <1>4. /\ reader'.pc = "dialing" /\ reader'.pending = reader.pending
        /\ reader' \in [pc : {"off", "token", "dialing", "greeting"} \cup Readings,
                        topic : {"none"} \cup Asked, kept : Values, pending : Messages]
    BY <1>1 DEF Token, TypeOKStream
  <1>5. Asked' = Asked
    BY <1>3 DEF Asked, Private
  <1>6. TypeOKStream'
    BY <1>1, <1>3, <1>4, <1>5 DEF TypeOKStream
  <1>7. Wired' /\ KeptIsLast' /\ Ordered'
    BY <1>2, <1>3, <1>4, NothingMore
  <1>8. Clean'
    BY <1>2, <1>3, <1>4 DEF Clean
  <1> QED
    BY <1>6, <1>7, <1>8 DEF StreamInv

\* A wire with the venue's values and nothing else, after which nothing has been
\* taken: how a connection begins.
LEMMA Beginning ==
  ASSUME TypeOKStream, TypeOKStream', truth' = truth, channel'.items = <<>>, taken'.at = 0,
         reader'.pending.at = 0,
         \/ conn'.wire = <<Current>>
         \/ conn'.wire = <<>> /\ reader'.pc = "greeting"
  PROVE  Wired' /\ KeptIsLast' /\ Ordered'
  <1>1. /\ Current.at = Len(truth) /\ Current.fields = Fields
        /\ Current.value = truth[Len(truth)] /\ Len(truth) \in DOMAIN truth /\ Len(truth) \in Nat
    BY CurrentIs
  <1>2. CASE conn'.wire = <<Current>>
    <2>1. DOMAIN conn'.wire = {1} /\ Len(conn'.wire) = 1 /\ conn'.wire[1] = Current
      BY <1>2
    <2>2. Wired'
      BY <1>1, <2>1 DEF Wired, OnWire, Genuine
    <2>3. KeptIsLast'
      BY <1>1, <1>2, <2>1 DEF KeptIsLast
    <2> QED
      BY <2>2, <2>3 DEF Ordered, Newest
  <1>3. CASE conn'.wire = <<>> /\ reader'.pc = "greeting"
    BY <1>3 DEF Wired, KeptIsLast, Ordered, Newest, Following, Readings
  <1> QED
    BY <1>2, <1>3

LEMMA DialStep ==
  ASSUME StreamInv, Dial
  PROVE  StreamInv'
  <1> USE ConstantsAreTyped
  <1>1. TypeOKStream /\ Clean
    BY DEF StreamInv
  <1>2. /\ reader.pending.at = 0 /\ reader.pc = "dialing"
        /\ channel' = NoChannel /\ taken' = NoEvent /\ UNCHANGED <<source, wanted, truth>>
        /\ conn' = [open |-> TRUE, wire |-> IF Traits.greeting THEN <<>> ELSE <<Current>>]
    BY <1>1 DEF Dial, Clean
  <1>3. PICK topic \in IF Asked = {} THEN {"none"} ELSE Asked :
          reader' = [reader EXCEPT !.pc = IF Traits.greeting THEN "greeting" ELSE "checking",
                                   !.topic = topic]
    BY DEF Dial
  <1>4. Asked' = Asked
    BY <1>2 DEF Asked, Private
  <1>5. /\ reader'.pc = (IF Traits.greeting THEN "greeting" ELSE "checking")
        /\ reader'.pending = reader.pending
        /\ reader' \in [pc : {"off", "token", "dialing", "greeting"} \cup Readings,
                        topic : {"none"} \cup Asked, kept : Values, pending : Messages]
    BY <1>1, <1>3 DEF TypeOKStream, Readings
  <1>6. TypeOKStream'
    <2>1. conn' \in [open : BOOLEAN, wire : Seq(Messages)]
      BY <1>1, <1>2, CurrentIs
    <2> QED
      BY <1>1, <1>2, <1>4, <1>5, <2>1 DEF TypeOKStream, NoChannel
  <1>7. Wired' /\ KeptIsLast' /\ Ordered'
    BY <1>1, <1>2, <1>5, <1>6, Beginning
  <1>8. Clean'
    <2>1. CASE Traits.greeting
      BY <1>2, <1>5, <2>1 DEF Clean
    <2>2. CASE ~Traits.greeting
      BY <1>2, <1>5, <2>2 DEF Clean
    <2> QED
      BY <2>1, <2>2
  <1> QED
    BY <1>6, <1>7, <1>8 DEF StreamInv

LEMMA NotConnectedStep ==
  ASSUME StreamInv, NotConnected
  PROVE  StreamInv'
  <1> USE ConstantsAreTyped
  <1>1. TypeOKStream /\ Clean
    BY DEF StreamInv
  <1>2. reader' = Off /\ UNCHANGED <<source, wanted, truth, conn, channel, taken>> /\ conn = NoConn
    BY <1>1 DEF NotConnected, Clean
  <1>3. TypeOKStream'
    <2>1. Off \in [pc : {"off", "token", "dialing", "greeting"} \cup Readings,
                   topic : {"none"} \cup Asked', kept : Values, pending : Messages]
      BY DEF Off
    <2> QED
      BY <1>1, <1>2, <2>1 DEF TypeOKStream
  <1>4. Wired' /\ KeptIsLast' /\ Ordered'
    BY <1>2, NothingMore
  <1>5. Clean'
    BY <1>2 DEF Clean
  <1> QED
    BY <1>3, <1>4, <1>5 DEF StreamInv

LEMMA TailIs ==
  ASSUME NEW S, NEW s \in Seq(S), s # <<>>
  PROVE  /\ Len(s) \in Nat /\ Len(s) > 0 /\ DOMAIN s = 1 .. Len(s)
         /\ Head(s) = s[1] /\ s[1] \in S /\ Tail(s) \in Seq(S) /\ Len(Tail(s)) = Len(s) - 1
         /\ DOMAIN Tail(s) = 1 .. Len(s) - 1 /\ \A i \in 1 .. Len(s) - 1 : Tail(s)[i] = s[i + 1]
         /\ Tail(s) = <<>> <=> Len(s) = 1
  <1>1. /\ Len(s) \in Nat /\ Len(s) > 0 /\ DOMAIN s = 1 .. Len(s)
        /\ Head(s) = s[1] /\ s[1] \in S /\ Tail(s) \in Seq(S) /\ Len(Tail(s)) = Len(s) - 1
        /\ DOMAIN Tail(s) = 1 .. Len(s) - 1 /\ \A i \in 1 .. Len(s) - 1 : Tail(s)[i] = s[i + 1]
    OBVIOUS
  <1>2. \A t \in Seq(S) : t = <<>> <=> Len(t) = 0
    OBVIOUS
  <1> QED
    BY <1>1, <1>2

LEMMA TakeStep ==
  ASSUME StreamInv, Take
  PROVE  StreamInv'
  <1> DEFINE s == channel.items
             t == Tail(s)
  <1>1. TypeOKStream /\ Wired /\ KeptIsLast /\ Ordered /\ Clean
    BY DEF StreamInv
  <1>2. s \in Seq(Messages) /\ s # <<>>
    BY <1>1 DEF Take, TypeOKStream
  <1>3. /\ Len(s) \in Nat /\ Len(s) > 0 /\ DOMAIN s = 1 .. Len(s)
        /\ Head(s) = s[1] /\ s[1] \in Messages /\ t \in Seq(Messages) /\ Len(t) = Len(s) - 1
        /\ DOMAIN t = 1 .. Len(s) - 1 /\ \A i \in 1 .. Len(s) - 1 : t[i] = s[i + 1]
        /\ t = <<>> <=> Len(s) = 1
    BY <1>2, TailIs
  <1>4. /\ taken' = s[1] /\ channel'.items = t /\ channel'.closed = channel.closed
        /\ UNCHANGED <<source, wanted, truth, conn, reader>>
    BY <1>1, <1>3 DEF Take, TypeOKStream
  <1>5. TypeOKStream'
    <2>1. channel' \in [items : Seq(Messages), closed : BOOLEAN]
      BY <1>1, <1>3 DEF Take, TypeOKStream
    <2>2. Asked' = Asked
      BY <1>4 DEF Asked, Private
    <2> QED
      BY <1>1, <1>3, <1>4, <2>1, <2>2 DEF TypeOKStream
  <1>6. Wired' /\ KeptIsLast'
    <2>1. (Changes' <=> Changes) /\ (Merges' <=> Merges) /\ (Following' <=> Following)
      BY <1>4 DEF Changes, Merges, Traits, Following
    <2> QED
      BY <1>1, <1>4, <2>1 DEF Wired, KeptIsLast, OnWire, Genuine, NextAt
  <1>7. /\ \A i \in 1 .. Len(s) : Genuine(s[i])
        /\ \A i \in 1 .. Len(s) : i + 1 \in 1 .. Len(s) => Comes(s[i + 1].at, s[i].at)
        /\ Newest = s[Len(s)]
    BY <1>1, <1>2, <1>3 DEF Ordered, Newest
  <1>8. Clean'
    BY <1>1, <1>2, <1>4 DEF Clean
  <1> HIDE DEF s, t
  <1>9. s[1].at # 0
    <2>1. Genuine(s[1])
      BY <1>3, <1>7
    <2> QED
      BY <1>1, <2>1 DEF Genuine, TypeOKStream
  <1>10. Newest' = Newest
    <2>1. CASE Len(s) = 1
      BY <1>3, <1>4, <1>7, <2>1 DEF Newest
    <2>2. CASE Len(s) > 1
      <3>1. t[Len(s) - 1] = s[Len(s)] /\ t # <<>>
        BY <1>3, <2>2
      <3> QED
        BY <1>3, <1>4, <1>7, <2>2, <3>1 DEF Newest
    <2> QED
      BY <1>3, <2>1, <2>2
  <1>11. Ordered'
    <2>1. (Following' <=> Following) /\ (Private' <=> Private) /\ NextAt' = NextAt
      BY <1>4 DEF Following, Private, NextAt
    <2>2. \A i \in DOMAIN t : Genuine(t[i])
      <3> SUFFICES ASSUME NEW i \in 1 .. Len(s) - 1 PROVE Genuine(t[i])
        BY <1>3
      <3> QED
        BY <1>3, <1>7
    <2>3. \A i \in DOMAIN t : i + 1 \in DOMAIN t => Comes(t[i + 1].at, t[i].at)
      <3> SUFFICES ASSUME NEW i \in 1 .. Len(s) - 1, i + 1 \in 1 .. Len(s) - 1
                   PROVE  Comes(t[i + 1].at, t[i].at)
        BY <1>3
      <3>1. i + 1 \in 1 .. Len(s) /\ (i + 1) + 1 \in 1 .. Len(s)
        BY <1>3
      <3> QED
        BY <1>3, <1>7, <3>1
    <2>4. t # <<>> => Comes(t[1].at, s[1].at)
      <3> SUFFICES ASSUME t # <<>> PROVE Comes(t[1].at, s[1].at)
        OBVIOUS
      <3>1. 1 \in 1 .. Len(s) - 1 /\ 1 \in 1 .. Len(s) /\ 1 + 1 \in 1 .. Len(s)
        BY <1>3
      <3> QED
        BY <1>3, <1>7, <3>1
    <2>5. Genuine(s[1])
      BY <1>3, <1>7
    <2>6. /\ \A i \in DOMAIN channel'.items : Genuine(channel.items[i])'
          /\ Genuine(taken)'
          /\ reader'.pending.at # 0 => Genuine(reader.pending)'
      BY <1>1, <1>4, <2>2, <2>5 DEF Genuine, Ordered
    <2>7. /\ \A i \in DOMAIN channel'.items : i + 1 \in DOMAIN channel'.items =>
                (Comes(channel.items[i + 1].at, channel.items[i].at))'
          /\ channel'.items # <<>> => (Comes(channel.items[1].at, taken.at))'
      BY <1>4, <2>1, <2>3, <2>4 DEF Comes
    <2>8. /\ reader'.pending.at # 0 /\ Newest'.at # 0 => (Comes(reader.pending.at, Newest.at))'
          /\ Following' /\ reader'.pending.at # 0 => (Comes(NextAt, reader.pending.at))'
          /\ Following' /\ reader'.pending.at = 0 /\ Newest'.at # 0 => (Comes(NextAt, Newest.at))'
      BY <1>1, <1>4, <1>10, <2>1 DEF Ordered, Comes
    <2> QED
      BY <2>6, <2>7, <2>8 DEF Ordered
  <1> QED
    BY <1>5, <1>6, <1>8, <1>11 DEF StreamInv

LEMMA ReturnStep ==
  ASSUME StreamInv, Called, Return
  PROVE  StreamInv'
  <1> USE ConstantsAreTyped
  <1>1. TypeOKStream /\ Clean
    BY DEF StreamInv
  <1>2. UNCHANGED <<source, wanted, truth, conn, reader, taken>>
    BY DEF Return
  <1>3. CASE channel.closed
    <2>1. channel' = NoChannel /\ conn = NoConn /\ reader.pending.at = 0 /\ reader.pc = "off"
      BY <1>1, <1>3 DEF Return, Called, Clean
    <2>2. TypeOKStream'
      <3>1. Asked' = Asked
        BY <1>2 DEF Asked, Private
      <3> QED
        BY <1>1, <1>2, <2>1, <3>1 DEF TypeOKStream, NoChannel
    <2>3. Wired' /\ KeptIsLast' /\ Ordered'
      BY <1>2, <2>1, NothingMore
    <2>4. Clean'
      BY <1>1, <1>2, <2>1 DEF Clean
    <2> QED
      BY <2>2, <2>3, <2>4 DEF StreamInv
  <1>4. CASE ~channel.closed
    <2>1. UNCHANGED streamVars
      BY <1>2, <1>4 DEF Return, streamVars
    <2> QED
      BY <2>1, SameStream
  <1> QED
    BY <1>3, <1>4

\* What the venue and the network do.
LEMMA AppendIs ==
  ASSUME NEW S, NEW s \in Seq(S), NEW e \in S
  PROVE  /\ Append(s, e) \in Seq(S) /\ Append(s, e) # <<>> /\ Len(s) \in Nat /\ DOMAIN s = 1 .. Len(s)
         /\ Len(Append(s, e)) = Len(s) + 1 /\ DOMAIN Append(s, e) = 1 .. Len(s) + 1
         /\ Append(s, e)[Len(s) + 1] = e /\ \A i \in 1 .. Len(s) : Append(s, e)[i] = s[i]
  OBVIOUS

LEMMA MessageIs ==
  ASSUME NEW msg \in Messages
  PROVE  msg.at \in Nat /\ msg.fields \subseteq Fields /\ msg.value \in Values
  BY DEF Messages

LEMMA UpdateStep ==
  ASSUME StreamInv, NEW f \in Fields, Update(f)
  PROVE  StreamInv'
  <1> DEFINE w == conn.wire
  <1>1. PICK n, value, msg :
          /\ n = Len(truth) + 1 /\ value = [Last(truth) EXCEPT ![f] = n]
          /\ msg = [at |-> n, fields |-> IF Changes THEN {f} ELSE Fields, value |-> value]
    OBVIOUS
  <1>2. TypeOKStream /\ Wired /\ KeptIsLast /\ Ordered /\ Clean
    BY DEF StreamInv
  <1>3. UNCHANGED <<source, wanted, reader, channel, taken>> /\ truth' = Append(truth, value)
    BY <1>1 DEF Update
  <1>4. /\ Last(truth) = truth[Len(truth)] /\ truth[Len(truth)] \in Values
        /\ Len(truth) \in DOMAIN truth /\ DOMAIN truth = 1 .. Len(truth) /\ n \in Nat
    BY <1>1, <1>2, CurrentIs DEF Last, TypeOKStream
  <1>5. value \in Values /\ value[f] = n /\ \A g \in Fields \ {f} : value[g] = truth[n - 1][g]
    BY <1>1, <1>4 DEF Values
  <1>6. /\ truth' \in Seq(Values) /\ truth' # <<>> /\ Len(truth') = n /\ DOMAIN truth' = 1 .. n
        /\ truth'[n] = value /\ \A i \in DOMAIN truth : i \in DOMAIN truth' /\ truth'[i] = truth[i]
    BY <1>1, <1>2, <1>3, <1>4, <1>5 DEF TypeOKStream
  <1>7. msg \in Messages /\ msg.at = n /\ msg.value = value
        /\ msg.fields = IF Changes THEN {f} ELSE Fields
    BY <1>1, <1>4, <1>5 DEF Messages
  <1>8. \/ conn' = conn /\ (conn.open => reader.pc = "greeting")
        \/ conn.open /\ reader.pc # "greeting" /\ conn' = [conn EXCEPT !.wire = Append(w, msg)]
    BY <1>1 DEF Update, Changes
  <1>9. (Private' <=> Private) /\ (Changes' <=> Changes) /\ (Merges' <=> Merges) /\ Newest' = Newest
    BY <1>3 DEF Private, Changes, Merges, Traits, Newest
  <1>10. /\ w \in Seq(Messages) /\ Len(w) \in Nat /\ DOMAIN w = 1 .. Len(w)
        /\ \A i \in 1 .. Len(w) : w[i].at \in Nat
    <2>1. w \in Seq(Messages) /\ Len(w) \in Nat /\ DOMAIN w = 1 .. Len(w)
      BY <1>2 DEF TypeOKStream
    <2>2. \A i \in 1 .. Len(w) : w[i] \in Messages
      BY <2>1
    <2> QED
      BY <2>1, <2>2, MessageIs
  <1>11. /\ \A i \in DOMAIN w : OnWire(w[i])
         /\ \A i, j \in DOMAIN w : w[j].at - w[i].at = j - i
         /\ conn.open /\ w # <<>> => w[Len(w)].at = Len(truth)
    BY <1>2 DEF Wired
  <1>12. /\ NextAt = IF w = <<>> THEN n ELSE w[1].at
         /\ conn \in [open : BOOLEAN, wire : Seq(Messages)] /\ w = conn.wire
    BY <1>1, <1>2 DEF NextAt, TypeOKStream
  <1> HIDE DEF w
  <1>13. \A m : (Genuine(m) => (Genuine(m))') /\ (OnWire(m) => (OnWire(m))')
    BY <1>6, <1>9 DEF Genuine, OnWire
  <1>14. (OnWire(msg))'
    <2>1. (Genuine(msg))'
      <3>1. msg.at \in DOMAIN truth' /\ truth'[msg.at] = msg.value
        BY <1>4, <1>6, <1>7
      <3> QED
        BY <1>7, <3>1, MessageIs DEF Genuine
    <2>2. CASE ~Changes
      BY <1>7, <2>1, <2>2 DEF OnWire
    <2>3. CASE Changes
      <3>1. msg.fields = {f} /\ msg.at - 1 \in DOMAIN truth'
        BY <1>1, <1>4, <1>6, <1>7, <2>3
      <3>2. truth'[msg.at - 1] = truth[msg.at - 1] /\ truth'[msg.at] = value
        BY <1>1, <1>4, <1>6, <1>7
      <3> QED
        BY <1>5, <1>7, <1>9, <2>1, <2>3, <3>1, <3>2 DEF OnWire
    <2> QED
      BY <2>2, <2>3
  <1>15. /\ conn' \in [open : BOOLEAN, wire : Seq(Messages)] /\ Wired'
         /\ Following' => Following /\ NextAt' = NextAt
         /\ Following' => w = <<>> \/ (conn'.wire[1] = w[1] /\ conn'.wire # <<>>)
    <2>1. CASE conn' = conn /\ (conn.open => reader.pc = "greeting")
      <3>1. conn.open => w = <<>>
        BY <1>2, <1>12, <2>1 DEF Clean
      <3>2. Wired'
        BY <1>13, <1>11, <1>12, <2>1, <3>1 DEF Wired
      <3>3. Following' => Following /\ w # <<>>
        BY <1>3, <1>12, <2>1 DEF Following, Readings
      <3> QED
        BY <1>12, <2>1, <3>2, <3>3 DEF NextAt
    <2>2. CASE conn.open /\ reader.pc # "greeting" /\ conn' = [conn EXCEPT !.wire = Append(w, msg)]
      <3>1. /\ conn'.wire = Append(w, msg) /\ conn'.open
            /\ conn' \in [open : BOOLEAN, wire : Seq(Messages)]
        BY <1>7, <1>10, <1>12, <2>2, AppendIs
      <3>2. /\ DOMAIN conn'.wire = 1 .. Len(w) + 1 /\ Len(conn'.wire) = Len(w) + 1
            /\ conn'.wire[Len(w) + 1] = msg /\ \A i \in 1 .. Len(w) : conn'.wire[i] = w[i]
            /\ conn'.wire # <<>>
        BY <1>7, <1>10, <3>1, AppendIs
      <3>3. \A i \in DOMAIN w : n - w[i].at = Len(w) + 1 - i /\ w[i].at \in Int
        <4> SUFFICES ASSUME NEW i \in 1 .. Len(w)
                     PROVE  n - w[i].at = Len(w) + 1 - i /\ w[i].at \in Int
          BY <1>10
        <4>1. w # <<>> /\ Len(w) \in 1 .. Len(w)
          BY <1>10
        <4>2. w[Len(w)].at = Len(truth) /\ w[Len(w)].at - w[i].at = Len(w) - i
          BY <1>10, <1>11, <2>2, <4>1
        <4>3. w[i].at \in Nat /\ w[Len(w)].at \in Nat
          BY <1>10, <4>1
        <4> QED
          BY <1>1, <1>4, <1>10, <4>2, <4>3
      <3>4. \A i \in DOMAIN conn'.wire : (OnWire(conn.wire[i]))'
        <4> SUFFICES ASSUME NEW i \in 1 .. Len(w) + 1 PROVE (OnWire(conn.wire[i]))'
          BY <3>2
        <4>1. CASE i \in 1 .. Len(w)
          <5>1. PICK m : m = w[i]
            OBVIOUS
          <5>2. (OnWire(m))' /\ conn'.wire[i] = m
            BY <1>10, <1>11, <1>13, <3>2, <4>1, <5>1
          <5> QED
            BY <5>2 DEF OnWire, Genuine
        <4>2. CASE i = Len(w) + 1
          BY <1>14, <3>2, <4>2 DEF OnWire, Genuine
        <4> QED
          BY <1>10, <4>1, <4>2
      <3>5. \A i, j \in DOMAIN conn'.wire : conn'.wire[j].at - conn'.wire[i].at = j - i
        <4> SUFFICES ASSUME NEW i \in 1 .. Len(w) + 1, NEW j \in 1 .. Len(w) + 1
                     PROVE  conn'.wire[j].at - conn'.wire[i].at = j - i
          BY <3>2
        <4>1. CASE i \in 1 .. Len(w) /\ j \in 1 .. Len(w)
          BY <1>10, <1>11, <3>2, <4>1
        <4>2. CASE i \in 1 .. Len(w) /\ j = Len(w) + 1
          <5>1. conn'.wire[i] = w[i] /\ conn'.wire[j].at = n
            BY <1>7, <3>2, <4>2
          <5> QED
            BY <1>10, <3>3, <4>2, <5>1
        <4>3. CASE i = Len(w) + 1 /\ j \in 1 .. Len(w)
          <5>1. conn'.wire[j] = w[j] /\ conn'.wire[i].at = n
            BY <1>7, <3>2, <4>3
          <5>2. n - w[j].at = Len(w) + 1 - j /\ w[j].at \in Int
            BY <1>10, <3>3, <4>3
          <5> QED
            BY <1>4, <1>10, <4>3, <5>1, <5>2
        <4>4. CASE i = Len(w) + 1 /\ j = Len(w) + 1
          BY <1>4, <1>7, <3>2, <4>4
        <4> QED
          BY <1>10, <4>1, <4>2, <4>3, <4>4
      <3>6. Wired'
        BY <1>6, <1>7, <3>2, <3>4, <3>5 DEF Wired
      <3>7. Following' => Following
        BY <1>3, <2>2 DEF Following
      <3>8. NextAt' = NextAt /\ (w = <<>> \/ conn'.wire[1] = w[1])
        <4>1. CASE w = <<>>
          BY <1>6, <1>7, <1>10, <1>12, <3>2, <4>1 DEF NextAt
        <4>2. CASE w # <<>>
          <5>1. 1 \in 1 .. Len(w)
            BY <1>10, <4>2
          <5> QED
            BY <1>12, <3>2, <4>2, <5>1 DEF NextAt
        <4> QED
          BY <4>1, <4>2
      <3> QED
        BY <3>1, <3>2, <3>6, <3>7, <3>8
    <2> QED
      BY <1>8, <2>1, <2>2
  <1>16. TypeOKStream'
    <2>1. Asked' = Asked
      BY <1>3 DEF Asked, Private
    <2> QED
      BY <1>2, <1>3, <1>6, <1>15, <2>1 DEF TypeOKStream
  <1>17. KeptIsLast'
    <2> SUFFICES ASSUME Following', Merges',
                        conn'.wire # <<>> => conn'.wire[1].fields # Fields
                 PROVE  NextAt' - 1 \in DOMAIN truth' /\ reader'.kept = truth'[NextAt' - 1]
      BY DEF KeptIsLast
    <2>1. NextAt - 1 \in DOMAIN truth /\ reader.kept = truth[NextAt - 1]
      BY <1>2, <1>9, <1>15, <1>12 DEF KeptIsLast
    <2> QED
      BY <1>3, <1>6, <1>15, <2>1
  <1>18. Ordered'
    <2>1. /\ \A i \in DOMAIN channel'.items : (Genuine(channel.items[i]))'
          /\ taken'.at # 0 => (Genuine(taken))'
          /\ reader'.pending.at # 0 => (Genuine(reader.pending))'
      BY <1>2, <1>3, <1>13 DEF Ordered
    <2> QED
      BY <1>2, <1>3, <1>9, <1>15, <2>1 DEF Ordered, Comes
  <1>19. Clean'
    <2>1. reader.pc \in {"off", "token", "dialing"} => conn' = conn
      BY <1>2, <1>8, ConstantsAreTyped DEF Clean
    <2>2. reader.pc = "greeting" => conn' = conn
      BY <1>8
    <2> QED
      BY <1>2, <1>3, <2>1, <2>2 DEF Clean
  <1> QED
    BY <1>15, <1>16, <1>17, <1>18, <1>19 DEF StreamInv

LEMMA BreakStep ==
  ASSUME StreamInv, Break \/ Watch
  PROVE  StreamInv'
  <1>1. TypeOKStream /\ Clean
    BY DEF StreamInv
  <1>2. UNCHANGED <<source, wanted, truth, reader, channel, taken>>
        /\ conn.open /\ conn'.open = FALSE /\ conn'.wire \in {conn.wire, <<>>}
        /\ conn' \in [open : BOOLEAN, wire : Seq(Messages)]
    <2>1. UNCHANGED <<source, wanted, truth, reader, channel, taken>> /\ conn.open
      BY DEF Break, Watch
    <2>2. PICK wire \in {conn.wire, <<>>} : conn' = [open |-> FALSE, wire |-> wire]
      BY DEF Break, Watch
    <2>3. conn.wire \in Seq(Messages) /\ <<>> \in Seq(Messages)
      BY <1>1 DEF TypeOKStream
    <2> QED
      BY <2>1, <2>2, <2>3
  <1>3. reader.pc \notin {"off", "token", "dialing"}
    BY <1>1, <1>2, ConstantsAreTyped DEF Clean
  <1>4. TypeOKStream'
    <2>1. Asked' = Asked
      BY <1>2 DEF Asked, Private
    <2> QED
      BY <1>1, <1>2, <2>1 DEF TypeOKStream
  <1>5. Clean'
    BY <1>1, <1>2, <1>3 DEF Clean
  <1>6. Wired' /\ KeptIsLast' /\ Ordered'
    <2>1. CASE conn'.wire = conn.wire
      <3>1. Following' => Following
        BY <1>2, <2>1 DEF Following
      <3> QED
        BY <1>2, <2>1, <3>1, Same
    <2>2. CASE conn'.wire = <<>>
      BY <1>2, <2>2, NothingMore
    <2> QED
      BY <1>2, <2>1, <2>2
  <1> QED
    BY <1>4, <1>5, <1>6 DEF StreamInv

\* What the goroutine does.
LEMMA GreetedStep ==
  ASSUME StreamInv, Greeted
  PROVE  StreamInv'
  <1>1. TypeOKStream /\ Clean
    BY DEF StreamInv
  <1>2. /\ UNCHANGED <<source, wanted, truth, channel, taken>> /\ conn.open
        /\ channel.items = <<>> /\ taken.at = 0 /\ reader.pending.at = 0
    BY <1>1 DEF Greeted, Clean
  <1>3. /\ reader'.pc = "checking" /\ reader'.pending = reader.pending
        /\ reader' \in [pc : {"off", "token", "dialing", "greeting"} \cup Readings,
                        topic : {"none"} \cup Asked, kept : Values, pending : Messages]
    BY <1>1 DEF Greeted, TypeOKStream, Readings
  <1>4. conn'.wire = <<Current>> /\ conn' \in [open : BOOLEAN, wire : Seq(Messages)]
    <2>1. <<Current>> \in Seq(Messages)
      BY <1>1, CurrentIs
    <2>2. conn' = [conn EXCEPT !.wire = <<Current>>]
      BY DEF Greeted
    <2> QED
      BY <1>1, <2>1, <2>2 DEF TypeOKStream
  <1>5. TypeOKStream'
    <2>1. Asked' = Asked
      BY <1>2 DEF Asked, Private
    <2> QED
      BY <1>1, <1>2, <1>3, <1>4, <2>1 DEF TypeOKStream
  <1>6. Wired' /\ KeptIsLast' /\ Ordered'
    BY <1>1, <1>2, <1>3, <1>4, <1>5, Beginning
  <1>7. Clean'
    BY <1>2, <1>3 DEF Clean
  <1> QED
    BY <1>5, <1>6, <1>7 DEF StreamInv

LEMMA CheckContextStep ==
  ASSUME StreamInv, CheckContext
  PROVE  StreamInv'
  <1>1. TypeOKStream /\ Clean
    BY DEF StreamInv
  <1>2. UNCHANGED <<source, wanted, truth, taken>> /\ reader.pc = "checking"
    BY DEF CheckContext
  <1>3. CASE EndReader
    BY <1>2, <1>3, EndReaderStep
  <1>4. CASE ~EndReader
    <2>1. UNCHANGED <<conn, channel>> /\ reader' = [reader EXCEPT !.pc = "reading"]
      BY <1>4 DEF CheckContext
    <2>2. /\ reader'.pc = "reading" /\ reader'.topic = reader.topic
          /\ reader'.kept = reader.kept /\ reader'.pending = reader.pending
          /\ reader' \in [pc : {"off", "token", "dialing", "greeting"} \cup Readings,
                          topic : {"none"} \cup Asked, kept : Values, pending : Messages]
      BY <1>1, <2>1 DEF TypeOKStream, Readings
    <2>3. TypeOKStream'
      <3>1. Asked' = Asked
        BY <1>2 DEF Asked, Private
      <3> QED
        BY <1>1, <1>2, <2>1, <2>2, <3>1 DEF TypeOKStream
    <2>4. Following' => Following
      BY <1>2, <2>1 DEF Following, Readings
    <2>5. Wired' /\ KeptIsLast' /\ Ordered'
      BY <1>2, <2>1, <2>2, <2>4, Same
    <2>6. Clean'
      BY <1>1, <1>2, <2>1, <2>2 DEF Clean
    <2> QED
      BY <2>3, <2>5, <2>6 DEF StreamInv
  <1> QED
    BY <1>3, <1>4

\* An event that comes after the newest one joins the channel.
LEMMA Delivered ==
  ASSUME TypeOKStream, Ordered, NEW e \in Messages, Genuine(e),
         Newest.at # 0 => Comes(e.at, Newest.at),
         channel'.items = Append(channel.items, e), UNCHANGED <<source, truth, taken>>
  PROVE  /\ \A i \in DOMAIN channel'.items : (Genuine(channel.items[i]))'
         /\ taken'.at # 0 => (Genuine(taken))'
         /\ \A i \in DOMAIN channel'.items : i + 1 \in DOMAIN channel'.items =>
              (Comes(channel.items[i + 1].at, channel.items[i].at))'
         /\ taken'.at # 0 /\ channel'.items # <<>> => (Comes(channel.items[1].at, taken.at))'
         /\ Newest' = e
  <1>1. PICK s \in Seq(Messages) : s = channel.items
    BY DEF TypeOKStream
  <1>2. /\ channel'.items # <<>> /\ Len(s) \in Nat /\ DOMAIN s = 1 .. Len(s)
        /\ Len(channel'.items) = Len(s) + 1 /\ DOMAIN channel'.items = 1 .. Len(s) + 1
        /\ channel'.items[Len(s) + 1] = e /\ \A i \in 1 .. Len(s) : channel'.items[i] = s[i]
    BY <1>1, AppendIs
  <1>3. Private' <=> Private
    BY DEF Private
  <1>4. /\ \A i \in 1 .. Len(s) : Genuine(s[i])
        /\ \A i \in 1 .. Len(s) : i + 1 \in 1 .. Len(s) => Comes(s[i + 1].at, s[i].at)
    BY <1>1, <1>2 DEF Ordered
  <1>5. Newest' = e
    BY <1>2 DEF Newest
  <1>6. ASSUME NEW i \in 1 .. Len(s) + 1
        PROVE  (Genuine(channel.items[i]))'
    <2>1. CASE i \in 1 .. Len(s)
      BY <1>2, <1>4, <2>1 DEF Genuine
    <2>2. CASE i = Len(s) + 1
      BY <1>2, <2>2 DEF Genuine
    <2> QED
      BY <1>2, <2>1, <2>2
  <1>7. ASSUME NEW i \in 1 .. Len(s) + 1, i + 1 \in 1 .. Len(s) + 1
        PROVE  (Comes(channel.items[i + 1].at, channel.items[i].at))'
    <2>1. i \in 1 .. Len(s) /\ channel'.items[i] = s[i]
      BY <1>2, <1>7
    <2>2. CASE i + 1 \in 1 .. Len(s)
      BY <1>2, <1>3, <1>4, <2>1, <2>2 DEF Comes
    <2>3. CASE i + 1 = Len(s) + 1
      <3>1. i = Len(s) /\ s # <<>>
        <4>1. i = Len(s) /\ Len(s) > 0
          <5>1. Len(s) \in Nat /\ i \in 1 .. Len(s)
            BY <1>2, <2>1
          <5> QED
            BY <2>3, <5>1
        <4>2. s = <<>> => Len(s) = 0
          OBVIOUS
        <4> QED
          BY <4>1, <4>2
      <3>2. Newest = s[i] /\ Genuine(s[i])
        BY <1>1, <1>4, <2>1, <3>1 DEF Newest
      <3>3. Newest.at # 0
        BY <3>2 DEF Genuine, TypeOKStream
      <3> QED
        BY <1>2, <1>3, <2>1, <2>3, <3>2, <3>3 DEF Comes
    <2> QED
      BY <1>2, <2>1, <2>2, <2>3
  <1>8. ASSUME taken.at # 0
        PROVE  (Comes(channel.items[1].at, taken.at))'
    <2>1. CASE s = <<>>
      <3>1. channel'.items[1] = e /\ Newest = taken
        BY <1>1, <1>2, <2>1 DEF Newest
      <3> QED
        BY <1>3, <1>8, <3>1 DEF Comes
    <2>2. CASE s # <<>>
      <3>1. channel'.items[1] = s[1]
        BY <1>1, <1>2, <2>2
      <3> QED
        BY <1>1, <1>3, <1>8, <2>2, <3>1 DEF Comes, Ordered
    <2> QED
      BY <2>1, <2>2
  <1>9. taken'.at # 0 => (Genuine(taken))'
    BY DEF Ordered, Genuine
  <1> QED
    BY <1>2, <1>5, <1>6, <1>7, <1>8, <1>9

LEMMA SentStep ==
  ASSUME StreamInv, Sent
  PROVE  StreamInv'
  <1> USE ConstantsAreTyped
  <1>1. TypeOKStream /\ Wired /\ KeptIsLast /\ Ordered /\ Clean
    BY DEF StreamInv
  <1>2. UNCHANGED <<source, wanted, truth, conn, taken>> /\ reader.pc = "sending"
    BY DEF Sent
  <1>3. /\ reader'.pc = "checking" /\ reader'.topic = reader.topic
        /\ reader'.kept = reader.kept /\ reader'.pending = NoEvent
        /\ reader' \in [pc : {"off", "token", "dialing", "greeting"} \cup Readings,
                        topic : {"none"} \cup Asked, kept : Values, pending : Messages]
    BY <1>1 DEF Sent, TypeOKStream, Readings
  <1>4. PICK e \in Messages : e = reader.pending
    BY <1>1 DEF TypeOKStream
  <1>5. e.at # 0 /\ Genuine(e) /\ (Newest.at # 0 => Comes(e.at, Newest.at))
    BY <1>1, <1>2, <1>4 DEF Clean, Ordered
  <1>6. /\ channel' = [channel EXCEPT !.items = Append(@, e)]
        /\ channel'.items = Append(channel.items, e)
        /\ channel' \in [items : Seq(Messages), closed : BOOLEAN]
    <2>1. channel' = [channel EXCEPT !.items = Append(@, e)]
      BY <1>4 DEF Sent, Deliver
    <2>2. Append(channel.items, e) \in Seq(Messages)
      BY <1>1, AppendIs DEF TypeOKStream
    <2> QED
      BY <1>1, <2>1, <2>2 DEF TypeOKStream
  <1>7. TypeOKStream'
    <2>1. Asked' = Asked
      BY <1>2 DEF Asked, Private
    <2> QED
      BY <1>1, <1>2, <1>3, <1>6, <2>1 DEF TypeOKStream
  <1>8. /\ (Private' <=> Private) /\ (Changes' <=> Changes) /\ (Merges' <=> Merges)
        /\ (Following' <=> Following) /\ NextAt' = NextAt
    BY <1>2, <1>3 DEF Private, Changes, Merges, Traits, Following, Readings, NextAt
  <1>9. Wired' /\ KeptIsLast'
    BY <1>1, <1>2, <1>3, <1>8 DEF Wired, KeptIsLast, OnWire, Genuine
  <1>10. Following => Comes(NextAt, e.at)
    BY <1>1, <1>4, <1>5 DEF Ordered
  <1>11. Ordered'
    <2>1. /\ \A i \in DOMAIN channel'.items : (Genuine(channel.items[i]))'
          /\ taken'.at # 0 => (Genuine(taken))'
          /\ \A i \in DOMAIN channel'.items : i + 1 \in DOMAIN channel'.items =>
               (Comes(channel.items[i + 1].at, channel.items[i].at))'
          /\ taken'.at # 0 /\ channel'.items # <<>> => (Comes(channel.items[1].at, taken.at))'
          /\ Newest' = e
      BY <1>1, <1>2, <1>5, <1>6, Delivered
    <2> QED
      BY <1>3, <1>8, <1>10, <2>1 DEF Ordered, Comes
  <1>12. Clean'
    BY <1>1, <1>2, <1>3 DEF Clean
  <1> QED
    BY <1>7, <1>9, <1>11, <1>12 DEF StreamInv

\* What a message becomes.
LEMMA EventIs ==
  ASSUME TypeOKStream, KeptIsLast, Wired, NEW msg \in Messages, Following,
         conn.wire # <<>>, conn.wire[1] = msg, OnWire(msg)
  PROVE  /\ EventOf(msg) \in Messages /\ EventOf(msg).at = msg.at /\ Genuine(EventOf(msg))
         /\ Private => Way(msg) = "whole"
         /\ Merges => /\ Way(msg) \in {"whole", "merged"}
                      /\ EventOf(msg).value = truth[msg.at]
  <1>1. /\ Genuine(msg) /\ msg.at \in Nat /\ msg.fields \subseteq Fields /\ msg.value \in Values
        /\ msg.at \in DOMAIN truth /\ truth[msg.at] \in Values
    BY MessageIs DEF OnWire, Genuine, TypeOKStream
  <1>2. Private => Way(msg) = "whole"
    BY PrivateIsWhole DEF OnWire, Way
  <1>3. Merges => Way(msg) \in {"whole", "merged"}
    BY DEF Merges, Way
  <1>4. CASE Way(msg) # "merged"
    <2>1. EventOf(msg) = msg
      BY <1>4 DEF EventOf
    <2>2. Merges => msg.fields = Fields
      BY <1>4 DEF Merges, Way
    <2>3. msg.fields = Fields => msg.value = truth[msg.at]
      BY <1>1 DEF Genuine, Values
    <2> QED
      BY <1>1, <1>2, <1>3, <2>1, <2>2, <2>3
  <1>5. CASE Way(msg) = "merged"
    <2>1. msg.fields # Fields /\ Traits.changes[reader.topic] = "merged"
      BY <1>5 DEF Way
    <2>2. Merges
      BY <2>1 DEF OnWire, Merges
    <2>3. msg.at - 1 \in DOMAIN truth /\ reader.kept = truth[msg.at - 1]
      BY <2>1, <2>2 DEF KeptIsLast, NextAt
    <2>4. \A f \in Fields : Merged(msg)[f] = truth[msg.at][f]
      BY <1>1, <2>1, <2>3 DEF Merged, OnWire, Genuine
    <2>5. Merged(msg) = truth[msg.at]
      BY <1>1, <2>4 DEF Merged, Values
    <2>6. EventOf(msg) = [at |-> msg.at, fields |-> Fields, value |-> truth[msg.at]]
      BY <1>5, <2>5 DEF EventOf
    <2>7. EventOf(msg) \in Messages
      BY <1>1, <2>6 DEF Messages
    <2>8. Genuine(EventOf(msg))
      BY <1>1, <2>6 DEF Genuine
    <2> QED
      BY <1>2, <1>3, <2>6, <2>7, <2>8
  <1> QED
    BY <1>4, <1>5

LEMMA ReadStep ==
  ASSUME StreamInv, Read
  PROVE  StreamInv'
  <1> USE ConstantsAreTyped
  <1>1. TypeOKStream /\ Wired /\ KeptIsLast /\ Ordered /\ Clean
    BY DEF StreamInv
  <1>2. UNCHANGED <<source, wanted, truth, taken>> /\ reader.pc = "reading" /\ conn.wire # <<>>
    BY DEF Read
  <1>3. PICK w \in Seq(Messages) : w = conn.wire
    BY <1>1 DEF TypeOKStream
  <1>4. PICK t \in Seq(Messages) : t = Tail(w)
    BY <1>2, <1>3, TailIs
  <1>5. /\ Len(w) \in Nat /\ Len(w) > 0 /\ DOMAIN w = 1 .. Len(w)
        /\ Head(w) = w[1] /\ w[1] \in Messages /\ Len(t) = Len(w) - 1
        /\ DOMAIN t = 1 .. Len(w) - 1 /\ \A i \in 1 .. Len(w) - 1 : t[i] = w[i + 1]
        /\ t = <<>> <=> Len(w) = 1
    BY <1>2, <1>3, <1>4, TailIs
  <1>6. PICK msg \in Messages : msg = w[1]
    BY <1>5
  <1>7. /\ OnWire(msg) /\ Following /\ reader.pending.at = 0 /\ NextAt = msg.at
        /\ \A i \in 1 .. Len(w) : OnWire(w[i]) /\ w[i].at \in Nat
        /\ \A i, j \in 1 .. Len(w) : w[j].at - w[i].at = j - i
        /\ conn.open => w[Len(w)].at = Len(truth)
    <2>1. \A i \in 1 .. Len(w) : w[i] \in Messages
      BY <1>5
    <2>2. Following /\ reader.pending.at = 0 /\ NextAt = msg.at
      BY <1>1, <1>2, <1>3, <1>6 DEF Following, Readings, Clean, NextAt
    <2>3. \A i \in 1 .. Len(w) : OnWire(w[i])
      BY <1>1, <1>3, <1>5 DEF Wired
    <2>4. \A i, j \in 1 .. Len(w) : w[j].at - w[i].at = j - i
      BY <1>1, <1>3, <1>5 DEF Wired
    <2>5. conn.open => w[Len(w)].at = Len(truth)
      BY <1>1, <1>2, <1>3 DEF Wired
    <2>6. OnWire(msg)
      BY <1>5, <1>6, <2>3
    <2> QED
      BY <2>1, <2>2, <2>3, <2>4, <2>5, <2>6, MessageIs
  <1>8. PICK event : event = EventOf(msg)
    OBVIOUS
  <1>9. /\ event \in Messages /\ event.at = msg.at /\ Genuine(event) /\ event.at # 0
        /\ Private => Way(msg) = "whole"
        /\ Merges => Way(msg) \in {"whole", "merged"} /\ event.value = truth[msg.at]
    <2>1. /\ event \in Messages /\ event.at = msg.at /\ Genuine(event)
          /\ Private => Way(msg) = "whole"
          /\ Merges => Way(msg) \in {"whole", "merged"} /\ event.value = truth[msg.at]
      BY <1>1, <1>2, <1>3, <1>6, <1>7, <1>8, EventIs
    <2> QED
      BY <1>1, <2>1 DEF Genuine, TypeOKStream
  <1>10. PICK yields \in BOOLEAN, room \in BOOLEAN :
           /\ yields <=> Yields(reader.topic) /\ Way(msg) # "skipped"
           /\ room <=> Len(channel.items) < Room
    OBVIOUS
  <1>11. /\ reader' = [reader EXCEPT
                        !.pc = IF yields /\ Private /\ ~room THEN "sending" ELSE "checking",
                        !.kept = IF Way(msg) \in {"whole", "merged"} THEN event.value ELSE @,
                        !.pending = IF yields /\ Private /\ ~room THEN event ELSE NoEvent]
         /\ IF yields /\ room THEN Deliver(event) ELSE UNCHANGED channel
         /\ conn' = [conn EXCEPT !.wire = t]
    BY <1>3, <1>4, <1>5, <1>6, <1>8, <1>10 DEF Read
  <1>12. /\ reader'.pc = IF yields /\ Private /\ ~room THEN "sending" ELSE "checking"
         /\ reader'.kept = IF Way(msg) \in {"whole", "merged"} THEN event.value ELSE reader.kept
         /\ reader'.pending = IF yields /\ Private /\ ~room THEN event ELSE NoEvent
         /\ reader'.topic = reader.topic
         /\ reader' \in [pc : {"off", "token", "dialing", "greeting"} \cup Readings,
                         topic : {"none"} \cup Asked, kept : Values, pending : Messages]
    <2>1. event.value \in Values
      BY <1>9, MessageIs
    <2> QED
      BY <1>1, <1>9, <1>11, <2>1 DEF TypeOKStream, Readings
  <1>13. conn'.wire = t /\ conn'.open = conn.open /\ conn' \in [open : BOOLEAN, wire : Seq(Messages)]
    BY <1>1, <1>11 DEF TypeOKStream
  <1>14. /\ yields /\ room => channel'.items = Append(channel.items, event)
         /\ ~(yields /\ room) => channel'.items = channel.items
         /\ channel' \in [items : Seq(Messages), closed : BOOLEAN]
    <2>1. CASE yields /\ room
      <3>1. channel' = [channel EXCEPT !.items = Append(@, event)]
        BY <1>11, <2>1 DEF Deliver
      <3>2. Append(channel.items, event) \in Seq(Messages)
        BY <1>1, <1>9, AppendIs DEF TypeOKStream
      <3> QED
        BY <1>1, <2>1, <3>1, <3>2 DEF TypeOKStream
    <2>2. CASE ~(yields /\ room)
      BY <1>1, <1>11, <2>2 DEF TypeOKStream
    <2> QED
      BY <2>1, <2>2
  <1>15. TypeOKStream'
    <2>1. Asked' = Asked
      BY <1>2 DEF Asked, Private
    <2> QED
      BY <1>1, <1>2, <1>12, <1>13, <1>14, <2>1 DEF TypeOKStream
  <1>16. (Private' <=> Private) /\ (Changes' <=> Changes) /\ (Merges' <=> Merges)
    BY <1>2, <1>12 DEF Private, Changes, Merges, Traits
  <1>17. Following' => NextAt' = msg.at + 1
    <2> SUFFICES ASSUME Following' PROVE NextAt' = msg.at + 1
      OBVIOUS
    <2>1. CASE Len(w) = 1
      <3>1. conn.open /\ t = <<>>
        BY <1>5, <1>13, <2>1 DEF Following
      <3>2. msg.at = Len(truth)
        BY <1>6, <1>7, <2>1, <3>1
      <3> QED
        BY <1>2, <1>13, <3>1, <3>2 DEF NextAt
    <2>2. CASE Len(w) > 1
      <3>1. 1 \in 1 .. Len(w) - 1 /\ 2 \in 1 .. Len(w) /\ 1 \in 1 .. Len(w)
        BY <1>5, <2>2
      <3>2. t[1] = w[2] /\ w[2].at - w[1].at = 1 /\ w[1].at \in Nat /\ w[2].at \in Nat
        BY <1>5, <1>7, <3>1
      <3> QED
        BY <1>5, <1>6, <1>13, <2>2, <3>2 DEF NextAt
    <2> QED
      BY <1>5, <2>1, <2>2
  <1>18. Wired'
    <2>1. ASSUME NEW i \in 1 .. Len(w) - 1
          PROVE  (OnWire(conn.wire[i]))'
      <3>1. PICK m : m = w[i + 1]
        OBVIOUS
      <3>2. i + 1 \in 1 .. Len(w)
        BY <1>5
      <3>3. OnWire(m) /\ conn'.wire[i] = m
        BY <1>5, <1>7, <1>13, <3>1, <3>2
      <3> QED
        BY <1>2, <1>16, <3>3 DEF OnWire, Genuine
    <2>2. ASSUME NEW i \in 1 .. Len(w) - 1, NEW j \in 1 .. Len(w) - 1
          PROVE  conn'.wire[j].at - conn'.wire[i].at = j - i
      <3>1. i + 1 \in 1 .. Len(w) /\ j + 1 \in 1 .. Len(w)
        BY <1>5
      <3>2. w[j + 1].at - w[i + 1].at = (j + 1) - (i + 1)
        BY <1>7, <3>1
      <3> QED
        BY <1>5, <1>13, <3>2
    <2>3. conn'.open /\ conn'.wire # <<>> => conn'.wire[Len(conn'.wire)].at = Len(truth')
      <3> SUFFICES ASSUME conn'.open, conn'.wire # <<>>
                   PROVE  conn'.wire[Len(conn'.wire)].at = Len(truth')
        OBVIOUS
      <3>1. Len(w) - 1 \in 1 .. Len(w) - 1
        BY <1>5, <1>13
      <3>2. t[Len(w) - 1] = w[Len(w)] /\ Len(t) = Len(w) - 1
        BY <1>5, <3>1
      <3>3. conn'.wire[Len(conn'.wire)] = w[Len(w)]
        <4>1. Len(conn'.wire) = Len(w) - 1 /\ conn'.wire[Len(w) - 1] = w[Len(w)]
          BY ONLY <1>13, <3>2
        <4> QED
          BY ONLY <4>1
      <3>4. w[Len(w)].at = Len(truth)
        BY <1>7, <1>13
      <3> QED
        BY ONLY <1>2, <3>3, <3>4
    <2>4. DOMAIN conn'.wire = 1 .. Len(w) - 1
      BY <1>5, <1>13
    <2> QED
      BY ONLY <2>1, <2>2, <2>3, <2>4 DEF Wired
  <1>19. KeptIsLast'
    <2>1. msg.at \in Nat /\ msg.at \in DOMAIN truth
      BY <1>7, MessageIs DEF OnWire, Genuine
    <2>2. Merges => reader'.kept = truth[msg.at]
      BY <1>9, <1>12
    <2> QED
      BY <1>2, <1>16, <1>17, <2>1, <2>2 DEF KeptIsLast
  <1>20. Ordered'
    <2>1. Newest.at # 0 => Comes(event.at, Newest.at)
      BY <1>1, <1>7, <1>9 DEF Ordered
    <2>2. msg.at \in Nat /\ (Following' => Comes(NextAt', event.at))
      <3>1. msg.at \in Nat
        BY MessageIs
      <3> QED
        BY <1>9, <1>17, <3>1 DEF Comes
    <2>3. CASE yields /\ room
      <3>1. /\ \A i \in DOMAIN channel'.items : (Genuine(channel.items[i]))'
            /\ taken'.at # 0 => (Genuine(taken))'
            /\ \A i \in DOMAIN channel'.items : i + 1 \in DOMAIN channel'.items =>
                 (Comes(channel.items[i + 1].at, channel.items[i].at))'
            /\ taken'.at # 0 /\ channel'.items # <<>> => (Comes(channel.items[1].at, taken.at))'
            /\ Newest' = event
        BY <1>1, <1>2, <1>9, <1>14, <2>1, <2>3, Delivered
      <3>2. reader'.pending.at = 0
        BY <1>12, <2>3
      <3>3. Following' => (Comes(NextAt, Newest.at))'
        BY <1>16, <2>2, <3>1 DEF Comes
      <3> QED
        BY <3>1, <3>2, <3>3 DEF Ordered
    <2>4. CASE ~(yields /\ room)
      <3>1. channel'.items = channel.items /\ Newest' = Newest
        BY <1>2, <1>14, <2>4 DEF Newest
      <3>2. /\ \A i \in DOMAIN channel'.items : (Genuine(channel.items[i]))'
            /\ taken'.at # 0 => (Genuine(taken))'
        BY <1>1, <1>2, <3>1 DEF Ordered, Genuine
      <3>3. /\ \A i \in DOMAIN channel'.items : i + 1 \in DOMAIN channel'.items =>
                 (Comes(channel.items[i + 1].at, channel.items[i].at))'
            /\ taken'.at # 0 /\ channel'.items # <<>> => (Comes(channel.items[1].at, taken.at))'
        BY <1>1, <1>2, <1>16, <3>1 DEF Ordered, Comes
      <3>4. CASE Private
        <4>1. yields /\ reader'.pending = event
          BY <1>9, <1>10, <1>12, <2>4, <3>4 DEF Yields
        <4>2. (Genuine(reader.pending))'
          BY <1>2, <1>9, <4>1 DEF Genuine
        <4>3. Newest'.at # 0 => (Comes(reader.pending.at, Newest.at))'
          BY <1>16, <2>1, <3>1, <4>1 DEF Comes
        <4>4. Following' => (Comes(NextAt, reader.pending.at))'
          BY <1>16, <2>2, <4>1 DEF Comes
        <4> QED
          BY <1>9, <3>2, <3>3, <4>1, <4>2, <4>3, <4>4 DEF Ordered
      <3>5. CASE ~Private
        <4>1. reader'.pending.at = 0
          BY <1>12, <3>5
        <4>2. Newest.at \in Nat
          <5>1. channel.items # <<>> => channel.items[Len(channel.items)] \in Messages
            BY <1>1 DEF TypeOKStream
          <5> QED
            BY <1>1, <5>1, MessageIs DEF TypeOKStream, Newest
        <4>3. Following' /\ Newest'.at # 0 => (Comes(NextAt, Newest.at))'
          BY <1>9, <1>16, <1>17, <2>1, <2>2, <3>1, <3>5, <4>2 DEF Comes
        <4> QED
          BY <3>2, <3>3, <4>1, <4>3 DEF Ordered
      <3> QED
        BY <3>4, <3>5
    <2> QED
      BY <2>3, <2>4
  <1>21. Clean'
    BY <1>9, <1>12 DEF Clean
  <1> QED
    BY <1>15, <1>18, <1>19, <1>20, <1>21 DEF StreamInv

LEMMA StreamStep == StreamInv /\ ManagerInv /\ [Next]_vars => StreamInv'
  <1> SUFFICES ASSUME StreamInv, ManagerInv, [Next]_vars PROVE StreamInv'
    OBVIOUS
  <1>1. CASE UNCHANGED streamVars
    BY <1>1, SameStream
  <1>2. CASE Http \/ UNCHANGED vars
    BY <1>1, <1>2 DEF Http, vars
  <1>3. CASE Streaming
    <2>1. CASE ManagerSteps
      BY <1>1, <2>1 DEF ManagerSteps
    <2>2. CASE CallbackSteps
      BY <2>2, SubscribeStep, TokenStep, DialStep, NotConnectedStep, TakeStep, ReturnStep
      DEF CallbackSteps, ManagerInv
    <2>3. CASE \E f \in Fields : Update(f)
      BY <2>3, UpdateStep
    <2>4. CASE Break \/ Watch
      BY <2>4, BreakStep
    <2>5. CASE NotGreeted \/ ReadError \/ SendGivenUp
      BY <2>5, EndReaderStep DEF NotGreeted, ReadError, SendGivenUp
    <2> QED
      BY <1>3, <2>1, <2>2, <2>3, <2>4, <2>5, GreetedStep, CheckContextStep, ReadStep, SentStep
      DEF Streaming, NextStream, ReaderSteps
  <1> QED
    BY <1>2, <1>3 DEF Next

LEMMA ConnectionsHold == Spec => [](StreamInv /\ ManagerInv)
  <1>1. Init => StreamInv /\ ManagerInv
    BY StreamInit, ManagerInit
  <1>2. StreamInv /\ ManagerInv /\ [Next]_vars => (StreamInv /\ ManagerInv)'
    BY StreamStep, ManagerStep DEF StreamInv
  <1> QED
    BY <1>1, <1>2, PTL DEF Spec

\* After FailureThreshold failures in a row no connection is tried before
\* ResetTimeout has passed, in whichever of its two ways the breaker closes
\* (allowAttempt, Run).
THEOREM BreakerHolds == Spec => []BreakerRests
  <1>1. ManagerInv => BreakerRests
    BY DEF ManagerInv, Rests, BreakerRests
  <1> QED
    BY <1>1, ConnectionsHold, PTL

\* What one sequence after another holds.
LEMMA ConcatIs ==
  ASSUME NEW S, NEW s \in Seq(S), NEW t \in Seq(S)
  PROVE  /\ s \o t \in Seq(S)
         /\ DOMAIN (s \o t) = 1 .. Len(s) + Len(t) /\ Len(s \o t) = Len(s) + Len(t)
         /\ \A j \in 1 .. Len(s) + Len(t) :
              (s \o t)[j] = IF j <= Len(s) THEN s[j] ELSE t[j - Len(s)]
  OBVIOUS

\* The events of three parts, put one after the other.
LEMMA ThreeParts ==
  ASSUME NEW S, NEW a \in Seq(S), NEW b \in Seq(S), NEW c \in Seq(S),
         Len(a) = 0 \/ Len(a) = 1, Len(c) = 0 \/ Len(c) = 1, NEW i \in 1 .. Len(a) + Len(b) + Len(c)
  PROVE  /\ DOMAIN (a \o b \o c) = 1 .. Len(a) + Len(b) + Len(c)
         /\ Len(a \o b \o c) = Len(a) + Len(b) + Len(c)
         /\ \/ Len(a) = 1 /\ i = 1 /\ (a \o b \o c)[i] = a[1]
            \/ i - Len(a) \in 1 .. Len(b) /\ (a \o b \o c)[i] = b[i - Len(a)]
            \/ Len(c) = 1 /\ i = Len(a) + Len(b) + 1 /\ (a \o b \o c)[i] = c[1]
  <1> DEFINE d == a \o b
  <1>1. /\ d \in Seq(S) /\ Len(d) = Len(a) + Len(b)
        /\ Len(a) \in Nat /\ Len(b) \in Nat /\ Len(c) \in Nat
        /\ \A j \in 1 .. Len(d) : d[j] = IF j <= Len(a) THEN a[j] ELSE b[j - Len(a)]
    BY ConcatIs
  <1> HIDE DEF d
  <1>2. /\ DOMAIN (d \o c) = 1 .. Len(d) + Len(c) /\ Len(d \o c) = Len(d) + Len(c)
        /\ \A j \in 1 .. Len(d) + Len(c) :
             (d \o c)[j] = IF j <= Len(d) THEN d[j] ELSE c[j - Len(d)]
    <2>1. d \in Seq(S) /\ c \in Seq(S)
      BY <1>1
    <2> QED
      BY ONLY <2>1, ConcatIs
  <1>3. \/ Len(a) = 1 /\ i = 1 /\ (d \o c)[i] = a[1]
        \/ i - Len(a) \in 1 .. Len(b) /\ (d \o c)[i] = b[i - Len(a)]
        \/ Len(c) = 1 /\ i = Len(a) + Len(b) + 1 /\ (d \o c)[i] = c[1]
    <2>1. CASE i <= Len(a)
      <3>0. i \in Int /\ 1 <= i
        BY <1>1
      <3>1. Len(a) = 1 /\ i = 1 /\ 1 \in 1 .. Len(d) /\ 1 \in 1 .. Len(d) + Len(c)
        <4>1. CASE Len(a) = 0
          BY <2>1, <3>0, <4>1
        <4>2. CASE Len(a) = 1
          <5>1. i = 1
            BY <2>1, <3>0, <4>2
          <5>2. Len(d) \in Nat /\ Len(d) >= 1 /\ Len(d) + Len(c) >= 1
            BY <1>1, <4>2
          <5> QED
            BY <1>1, <4>2, <5>1, <5>2
        <4> QED
          BY <4>1, <4>2
      <3>2. (d \o c)[1] = d[1] /\ d[1] = a[1]
        BY <1>1, <1>2, <3>1
      <3> QED
        BY <3>1, <3>2
    <2>2. CASE i > Len(a) /\ i <= Len(d)
      BY <1>1, <1>2, <2>2
    <2>3. CASE i > Len(d)
      <3>0. i \in Int /\ i <= Len(d) + Len(c)
        BY <1>1
      <3>1. CASE Len(c) = 0
        BY <1>1, <2>3, <3>0, <3>1
      <3>2. CASE Len(c) = 1
        <4>1. i = Len(d) + 1 /\ i - Len(d) = 1 /\ i = Len(a) + Len(b) + 1
          BY <1>1, <2>3, <3>0, <3>2
        <4>2. i \in 1 .. Len(d) + Len(c) /\ ~(i <= Len(d))
          BY <1>1, <3>2, <4>1
        <4>3. (d \o c)[i] = c[1]
          BY <1>2, <4>1, <4>2
        <4> QED
          BY <3>2, <4>1, <4>3
      <3> QED
        BY <3>1, <3>2
    <2>4. i \in Int /\ Len(a) \in Int /\ Len(d) \in Int
      BY <1>1
    <2>5. i <= Len(a) \/ (i > Len(a) /\ i <= Len(d)) \/ i > Len(d)
      BY ONLY <2>4
    <2> QED
      BY ONLY <2>1, <2>2, <2>3, <2>5, Zenon
  <1> QED
    BY <1>1, <1>2, <1>3 DEF d

LEMMA OrderedIsFaithful == StreamInv => EventsAreFaithful
  <1> SUFFICES ASSUME StreamInv PROVE EventsAreFaithful
    OBVIOUS
  <1>1. TypeOKStream /\ Ordered
    BY DEF StreamInv
  <1>2. PICK a \in Seq(Messages), b \in Seq(Messages), c \in Seq(Messages) :
          /\ a = IF taken.at = 0 THEN <<>> ELSE <<taken>>
          /\ b = channel.items
          /\ c = IF reader.pending.at = 0 THEN <<>> ELSE <<reader.pending>>
    <2>1. (IF taken.at = 0 THEN <<>> ELSE <<taken>>) \in Seq(Messages)
      BY <1>1 DEF TypeOKStream
    <2>2. (IF reader.pending.at = 0 THEN <<>> ELSE <<reader.pending>>) \in Seq(Messages)
      BY <1>1 DEF TypeOKStream
    <2> QED
      BY <1>1, <2>1, <2>2 DEF TypeOKStream
  <1>3. PICK e : e = a \o b \o c
    OBVIOUS
  <1>4. Events = e
    BY <1>2, <1>3 DEF Events
  <1>5. /\ (Len(a) = 0 \/ Len(a) = 1) /\ (Len(c) = 0 \/ Len(c) = 1) /\ Len(b) \in Nat /\ DOMAIN b = 1 .. Len(b)
        /\ Len(a) = 1 => taken.at # 0 /\ a[1] = taken
        /\ Len(c) = 1 => reader.pending.at # 0 /\ c[1] = reader.pending
        /\ Len(a) = 0 => taken.at = 0
    BY <1>2
  <1>6. DOMAIN e = 1 .. Len(e) /\ Len(e) = Len(a) + Len(b) + Len(c)
    BY <1>2, <1>3
  <1>7. ASSUME NEW i \in 1 .. Len(e)
        PROVE  \/ Len(a) = 1 /\ i = 1 /\ e[i] = taken
               \/ i - Len(a) \in 1 .. Len(b) /\ e[i] = channel.items[i - Len(a)]
               \/ Len(c) = 1 /\ i = Len(a) + Len(b) + 1 /\ e[i] = reader.pending
    <2>1. i \in 1 .. Len(a) + Len(b) + Len(c)
      BY <1>6
    <2>2. \/ Len(a) = 1 /\ i = 1 /\ (a \o b \o c)[i] = a[1]
          \/ i - Len(a) \in 1 .. Len(b) /\ (a \o b \o c)[i] = b[i - Len(a)]
          \/ Len(c) = 1 /\ i = Len(a) + Len(b) + 1 /\ (a \o b \o c)[i] = c[1]
      BY <1>5, <2>1, ThreeParts
    <2> QED
      BY <1>2, <1>3, <1>5, <2>2
  <1>8. ASSUME NEW i \in 1 .. Len(e)
        PROVE  Genuine(e[i])
    <2>1. CASE Len(a) = 1 /\ e[i] = taken
      BY <1>1, <1>5, <2>1 DEF Ordered
    <2>2. CASE i - Len(a) \in 1 .. Len(b) /\ e[i] = channel.items[i - Len(a)]
      BY <1>1, <1>2, <1>5, <2>2 DEF Ordered
    <2>3. CASE Len(c) = 1 /\ e[i] = reader.pending
      BY <1>1, <1>5, <2>3 DEF Ordered
    <2> QED
      BY <1>7, <2>1, <2>2, <2>3
  <1>9. ASSUME NEW i \in 1 .. Len(e) - 1
        PROVE  Comes(e[i + 1].at, e[i].at)
    <2>1. i \in 1 .. Len(e) /\ i + 1 \in 1 .. Len(e)
      BY <1>5, <1>6
    <2>2. e[i].at # 0
      <3>1. Genuine(e[i])
        BY <1>8, <2>1
      <3> QED
        BY <1>1, <3>1 DEF Genuine, TypeOKStream
    <2>3. CASE (i + 1) - Len(a) \in 1 .. Len(b) /\ e[i + 1] = channel.items[(i + 1) - Len(a)]
      <3>1. CASE i - Len(a) \in 1 .. Len(b) /\ e[i] = channel.items[i - Len(a)]
        <4>1. (i - Len(a)) + 1 = (i + 1) - Len(a)
          BY <1>5
        <4>2. i - Len(a) \in DOMAIN channel.items /\ (i - Len(a)) + 1 \in DOMAIN channel.items
          BY <1>2, <1>5, <2>3, <3>1, <4>1
        <4> QED
          BY <1>1, <2>3, <3>1, <4>1, <4>2 DEF Ordered
      <3>2. CASE Len(a) = 1 /\ i = 1 /\ e[i] = taken
        <4>1. e[i + 1] = channel.items[1] /\ Len(b) > 0
          BY <1>5, <2>3, <3>2
        <4>2. channel.items # <<>>
          BY <1>2, <4>1
        <4> QED
          BY <1>1, <1>5, <3>2, <4>1, <4>2 DEF Ordered
      <3> QED
        BY <1>5, <1>7, <2>1, <2>3, <3>1, <3>2
    <2>4. CASE Len(c) = 1 /\ i + 1 = Len(a) + Len(b) + 1 /\ e[i + 1] = reader.pending
      <3>1. e[i] = Newest
        <4>1. CASE Len(b) = 0
          <5>1. channel.items = <<>>
            BY <1>2, <4>1
          <5> QED
            BY <1>5, <1>7, <2>1, <2>4, <4>1, <5>1 DEF Newest
        <4>2. CASE Len(b) > 0
          <5>1. channel.items # <<>> /\ Len(b) = Len(channel.items)
            BY <1>2, <4>2
          <5>2. i - Len(a) = Len(b)
            BY <1>5, <2>4
          <5>3. e[i] = channel.items[i - Len(a)]
            BY <1>5, <1>7, <2>1, <2>4, <4>2
          <5> QED
            BY <5>1, <5>2, <5>3 DEF Newest
        <4> QED
          BY <1>5, <4>1, <4>2
      <3> QED
        BY <1>1, <1>5, <2>2, <2>4, <3>1 DEF Ordered
    <2>5. ~(i + 1 = 1)
      OBVIOUS
    <2> QED
      BY <1>7, <2>1, <2>3, <2>4, <2>5
  <1> QED
    BY <1>4, <1>6, <1>8, <1>9 DEF EventsAreFaithful, Genuine, Comes

\* An event shows values the venue had at one moment, events come in the order of
\* the updates and of a private stream none is missing, for any size of the Go
\* channels and any channels subscribed to (mergeTicker, SubscribePublic,
\* SubscribePrivate).
THEOREM EventsFaithful == Spec => []EventsAreFaithful
  BY OrderedIsFaithful, ConnectionsHold, PTL
===============================================================================
