----------------------------- MODULE ClientProofs -----------------------------
(***************************************************************************)
(* The token cache of the naver adapter and its retries, for any number of *)
(* threads and any timeout that fits twice into the slack.                 *)
(***************************************************************************)
EXTENDS NaverClient, TLAPS

\* A stored token is never believed to live more than one timeout longer than
\* it does: that is the most that a crossing refresh can be wrong by.
BeliefIsClose == token # NoToken => exp <= token + Timeout

\* What holds of the request a thread waits for while tk is the cached token.
Facts(c, tk) ==
  /\ c.pc \in {"connect", "wait", "acted"} => c.timer <= Timeout
  /\ c.pc = "store_token" => c.held >= TokenLife - Timeout
  /\ c.pc = "store_exp" => tk >= TokenLife - Timeout
  /\ c.pc = "connect" /\ c.stage = "api" /\ c.attempt = 0 => c.held > c.timer
  /\ c.pc = "sleep" => c.attempt < MaxRetries
  /\ c.unheard => c.pc = "acted"

TokenInv == TypeOK /\ BeliefIsClose /\ \A t \in Threads : Facts(call[t], token)

LEMMA InitTokenInv == Init => TokenInv
BY ClientAssumption
DEF Init, TokenInv, TypeOK, BeliefIsClose, Facts, Calls, Idle, NoToken

LEMMA IdleFacts == Idle \in Calls /\ \A tk : Facts(Idle, tk)
BY ClientAssumption DEF Idle, Calls, Facts

LEMMA LaterFacts ==
  ASSUME NEW c \in Calls, MayWait(c), NEW tk, NEW tl, Facts(c, tk)
  PROVE  Later(c) \in Calls /\ Facts(Later(c), tl)
<1>1. CASE c.pc = "idle"
  BY <1>1 DEF Later, Facts
<1>2. CASE c.pc # "idle"
  <2> DEFINE age == IF c.stage = "token" /\ c.age < TokenLife THEN c.age + 1 ELSE c.age
  <2>1. c.pc \in {"connect", "wait", "acted", "sleep"} /\ c.timer \in Nat /\ c.timer - 1 \in Nat
    BY <1>2 DEF MayWait, Calls
  <2>2. Less(c.held) \in 0..TokenLife /\ c.held \in Nat
        /\ (c.held > 0 => Less(c.held) = c.held - 1)
    BY ClientAssumption DEF Less, Calls
  <2>3. age \in 0..TokenLife
    BY ClientAssumption DEF Calls
  <2> HIDE DEF age
  <2>4. Later(c) = [c EXCEPT !.timer = c.timer - 1, !.held = Less(c.held), !.age = age]
    BY <1>2 DEF Later, age
  <2>5. Later(c) \in Calls
    BY <2>1, <2>2, <2>3, <2>4 DEF Calls
  <2>6. /\ Later(c).pc = c.pc /\ Later(c).stage = c.stage /\ Later(c).attempt = c.attempt
        /\ Later(c).timer = c.timer - 1 /\ Later(c).held = Less(c.held)
        /\ Later(c).unheard = c.unheard
    BY <2>4 DEF Calls
  <2>7. QED
    BY <2>1, <2>2, <2>5, <2>6, ClientAssumption DEF Facts
<1>3. QED
  BY <1>1, <1>2

\* What a step of one thread has to establish for the invariant.
LEMMA OneThread ==
  ASSUME TokenInv, NEW t \in Threads, NEW c \in Calls, call' = [call EXCEPT ![t] = c],
         token' = token \/ token' \in (TokenLife - Timeout)..TokenLife,
         exp' \in 0..TokenLife, BeliefIsClose', Facts(c, token')
  PROVE  TokenInv'
<1> USE ClientAssumption DEF TokenInv
<1>1. TypeOK'
  BY DEF TypeOK
<1>2. ASSUME NEW u \in Threads PROVE Facts(call'[u], token')
  <2>1. CASE u = t
    BY <2>1 DEF TypeOK
  <2>2. CASE u # t
    <3>1. call'[u] = call[u] /\ Facts(call[u], token)
      BY <2>2 DEF TypeOK
    <3>2. QED
      BY <3>1 DEF Facts, TypeOK
  <2>3. QED
    BY <2>1, <2>2
<1>3. QED
  BY <1>1, <1>2

\* The same for a step that leaves the token and its end alone.
LEMMA OneThreadOnly ==
  ASSUME TokenInv, NEW t \in Threads, NEW c \in Calls, call' = [call EXCEPT ![t] = c],
         UNCHANGED <<token, exp>>, Facts(c, token)
  PROVE  TokenInv'
<1>1. exp' \in 0..TokenLife /\ BeliefIsClose'
  BY DEF TokenInv, TypeOK, BeliefIsClose
<1>2. QED
  BY <1>1, OneThread
-----------------------------------------------------------------------------
LEMMA ReturnStep ==
  ASSUME TokenInv, NEW t \in Threads, Return(t)
  PROVE  TokenInv'
BY IdleFacts, OneThreadOnly DEF Return

LEMMA RetryStep ==
  ASSUME TokenInv, NEW t \in Threads, NEW pause, NEW unheard,
         call[t].attempt < MaxRetries => pause \in Nat,
         unheard = FALSE, Retry(t, pause, unheard)
  PROVE  TokenInv'
<1>1. CASE call[t].attempt < MaxRetries
  <2> DEFINE c == [call[t] EXCEPT !.pc = "sleep", !.timer = pause, !.unheard = FALSE]
  <2>1. call' = [call EXCEPT ![t] = c] /\ UNCHANGED <<token, exp>>
    BY <1>1 DEF Retry, TokenInv, TypeOK
  <2>2. c \in Calls /\ Facts(c, token)
    BY <1>1 DEF Calls, Facts, TokenInv, TypeOK
  <2>3. QED
    BY <2>1, <2>2, OneThreadOnly
<1>2. CASE ~(call[t].attempt < MaxRetries)
  BY <1>2, ReturnStep DEF Retry
<1>3. QED
  BY <1>1, <1>2

LEMMA BeginFacts ==
  ASSUME NEW stage \in {"token", "api"}, NEW held \in 0..TokenLife,
         stage = "api" => held > Timeout
  PROVE  Begin(stage, held) \in Calls
         /\ \A tk : Facts(Begin(stage, held), tk)
<1>1. Begin(stage, held) \in Calls
  BY ClientAssumption DEF Begin, Calls
<1>2. ASSUME NEW tk PROVE Facts(Begin(stage, held), tk)
  BY ClientAssumption DEF Begin, Facts
<1>3. QED
  BY <1>1, <1>2

LEMMA TickStep == TokenInv /\ Tick => TokenInv'
<1> SUFFICES ASSUME TokenInv, Tick PROVE TokenInv'
  OBVIOUS
<1> USE ClientAssumption DEF TokenInv
<1>1. token' \in -1..TokenLife /\ exp' \in 0..TokenLife
  BY DEF Tick, Less, TypeOK
<1>2. BeliefIsClose'
  BY DEF BeliefIsClose, Tick, Less, TypeOK, NoToken
<1>3. call' = [t \in Threads |-> Later(call[t])]
  BY DEF Tick
<1>4. ASSUME NEW t \in Threads
      PROVE  Later(call[t]) \in Calls /\ Facts(Later(call[t]), token')
  BY LaterFacts DEF Tick, TypeOK
<1>5. QED
  BY <1>1, <1>2, <1>3, <1>4 DEF TypeOK

LEMMA CallStep ==
  ASSUME TokenInv, NEW t \in Threads, Call(t)
  PROVE  TokenInv'
<1> DEFINE c == IF Reusable THEN Begin("api", token) ELSE Begin("token", 0)
<1>1. CASE Reusable
  <2>1. token \in 0..TokenLife /\ token > Timeout
    BY <1>1, ClientAssumption DEF Reusable, TokenInv, TypeOK, BeliefIsClose, NoToken
  <2>2. QED
    BY <1>1, <2>1, BeginFacts, OneThreadOnly DEF Call
<1>2. CASE ~Reusable
  <2>1. 0 \in 0..TokenLife
    BY ClientAssumption
  <2>2. QED
    BY <1>2, <2>1, BeginFacts, OneThreadOnly DEF Call
<1>3. QED
  BY <1>1, <1>2

LEMMA NetworkStep ==
  ASSUME TokenInv, NEW t \in Threads, Connected(t) \/ Act(t) \/ Wake(t)
  PROVE  TokenInv'
<1> USE ClientAssumption DEF TokenInv, TypeOK
<1>1. CASE Connected(t)
  <2> DEFINE c == [call[t] EXCEPT !.pc = "wait", !.timer = Timeout]
  <2>1. call' = [call EXCEPT ![t] = c] /\ UNCHANGED <<token, exp>>
    BY <1>1 DEF Connected
  <2>2. c \in Calls
    BY DEF Calls
  <2>3. c.pc = "wait" /\ c.timer = Timeout /\ c.unheard = FALSE
    BY <1>1 DEF Connected, Calls, Facts
  <2>4. Facts(c, token)
    BY <2>3 DEF Facts
  <2>5. QED
    BY <2>1, <2>2, <2>4, OneThreadOnly
<1>2. CASE Act(t)
  <2> DEFINE c == [call[t] EXCEPT !.pc = "acted", !.unheard = TRUE]
  <2>1. call' = [call EXCEPT ![t] = c] /\ UNCHANGED <<token, exp>>
    BY <1>2 DEF Act
  <2>2. c \in Calls /\ Facts(c, token)
    BY <1>2 DEF Act, Calls, Facts
  <2>3. QED
    BY <2>1, <2>2, OneThreadOnly
<1>3. CASE Wake(t)
  <2> DEFINE c == [call[t] EXCEPT !.pc = "connect", !.timer = Timeout, !.attempt = @ + 1]
  <2>1. call' = [call EXCEPT ![t] = c] /\ UNCHANGED <<token, exp>>
    BY <1>3 DEF Wake
  <2>2. c \in Calls /\ Facts(c, token)
    BY <1>3 DEF Wake, Calls, Facts
  <2>3. QED
    BY <2>1, <2>2, OneThreadOnly
<1>4. QED
  BY <1>1, <1>2, <1>3

LEMMA RetriesStep ==
  ASSUME TokenInv, NEW t \in Threads, ConnectFails(t) \/ Busy(t)
  PROVE  TokenInv'
<1> DEFINE n == call[t].attempt
<1>1. n \in Nat /\ (n < MaxRetries => Backoffs[n] \in Nat)
  BY ClientAssumption DEF TokenInv, TypeOK, Calls
<1>2. CASE ConnectFails(t)
  <2>1. call[t].unheard = FALSE
    BY <1>2 DEF ConnectFails, TokenInv, TypeOK, Calls, Facts
  <2>2. QED
    BY <1>1, <1>2, <2>1, RetryStep DEF ConnectFails
<1>3. CASE Busy(t) /\ n < MaxRetries
  <2>1. PICK pause \in RetryAfters \cup {Backoffs[n]} : Retry(t, pause, FALSE)
    BY <1>3 DEF Busy
  <2>2. pause \in Nat
    BY <1>1, <1>3, <2>1, ClientAssumption
  <2>3. QED
    BY <2>1, <2>2, RetryStep
<1>4. CASE Busy(t) /\ ~(n < MaxRetries)
  BY <1>4, ReturnStep DEF Busy
<1>5. QED
  BY <1>2, <1>3, <1>4

LEMMA RefreshStep ==
  ASSUME TokenInv, NEW t \in Threads, TokenReceived(t) \/ StoreToken(t) \/ StoreExp(t)
  PROVE  TokenInv'
<1> USE ClientAssumption DEF TokenInv, TypeOK
<1>1. CASE TokenReceived(t)
  <2>1. PICK ago \in 0..(Timeout - call[t].timer) :
          call' = [call EXCEPT ![t].pc = "store_token", ![t].timer = 0,
                               ![t].held = TokenLife - ago]
    BY <1>1 DEF TokenReceived
  <2> DEFINE c == [call[t] EXCEPT !.pc = "store_token", !.timer = 0, !.held = TokenLife - ago]
  <2>2. call' = [call EXCEPT ![t] = c] /\ UNCHANGED <<token, exp>>
    BY <1>1, <2>1 DEF TokenReceived
  <2>3. TokenLife - ago \in (TokenLife - Timeout)..TokenLife /\ TokenLife - ago \in 0..TokenLife
    BY <2>1 DEF Calls
  <2>4. c \in Calls
    BY <2>3 DEF Calls
  <2>5. /\ c.pc = "store_token" /\ c.held = TokenLife - ago
        /\ c.unheard = call[t].unheard /\ call[t].unheard = FALSE
    BY <1>1 DEF TokenReceived, Calls, Facts
  <2>6. Facts(c, token)
    BY <2>3, <2>5 DEF Facts
  <2>7. QED
    BY <2>2, <2>4, <2>6, OneThreadOnly
<1>2. CASE StoreToken(t)
  <2> DEFINE c == [call[t] EXCEPT !.pc = "store_exp"]
  <2>1. call' = [call EXCEPT ![t] = c] /\ exp' = exp /\ token' = call[t].held
    BY <1>2 DEF StoreToken
  <2>2. token' \in (TokenLife - Timeout)..TokenLife
    BY <1>2, <2>1 DEF StoreToken, Calls, Facts
  <2>3. BeliefIsClose'
    BY <2>1, <2>2 DEF BeliefIsClose
  <2>4. c \in Calls /\ Facts(c, token')
    BY <1>2, <2>2 DEF StoreToken, Calls, Facts
  <2>5. exp' \in 0..TokenLife
    BY <2>1
  <2>6. QED
    BY <2>1, <2>2, <2>3, <2>4, <2>5, OneThread
<1>3. CASE StoreExp(t)
  <2> DEFINE c == Begin("api", token)
  <2>1. call' = [call EXCEPT ![t] = c] /\ token' = token /\ exp' = TokenLife - call[t].age
    BY <1>3 DEF StoreExp
  <2>2. token \in 0..TokenLife /\ token >= TokenLife - Timeout /\ token > Timeout
    BY <1>3 DEF StoreExp, Facts
  <2>3. exp' \in 0..TokenLife
    BY <2>1 DEF Calls
  <2>4. BeliefIsClose'
    BY <2>1, <2>2, <2>3 DEF BeliefIsClose
  <2>5. c \in Calls /\ Facts(c, token')
    BY <2>2, BeginFacts
  <2>6. QED
    BY <2>1, <2>3, <2>4, <2>5, OneThread
<1>4. QED
  BY <1>1, <1>2, <1>3

LEMMA NextTokenInv == TokenInv /\ [Next]_vars => TokenInv'
<1> SUFFICES ASSUME TokenInv, [Next]_vars PROVE TokenInv'
  OBVIOUS
<1>1. CASE UNCHANGED vars
  BY <1>1 DEF vars, TokenInv, TypeOK, BeliefIsClose
<1>2. CASE Tick
  BY <1>2, TickStep
<1>3. ASSUME NEW t \in Threads, Call(t) PROVE TokenInv'
  BY <1>3, CallStep
<1>4. ASSUME NEW t \in Threads, Act(t) PROVE TokenInv'
  BY <1>4, NetworkStep
<1>5. ASSUME NEW t \in Threads, Step(t) PROVE TokenInv'
  <2>1. CASE Refused(t) \/ AnswerBreaks(t) \/ Answered(t)
    BY <2>1, ReturnStep DEF Refused, AnswerBreaks, Answered
  <2>2. QED
    BY <1>5, <2>1, NetworkStep, RetriesStep, RefreshStep DEF Step
<1>6. QED
  BY <1>1, <1>2, <1>3, <1>4, <1>5 DEF Next

\* The invariant holds: the cached token, its end and every request in flight
\* are what they seem (adapters/naver.py, adapters/_http.py).
THEOREM TokenInvariant == Spec => []TokenInv
<1>1. QED
  BY InitTokenInv, NextTokenInv, PTL DEF Spec

\* The variables keep their types (adapters/naver.py, adapters/_http.py).
THEOREM ClientTypes == Spec => []TypeOK
<1>1. TokenInv => TypeOK
  BY DEF TokenInv
<1>2. QED
  BY <1>1, TokenInvariant, PTL

\* Nothing the shop has done is asked for again because the network failed,
\* whatever the number of retries (adapters/_http.py: request_json).
THEOREM NetworkNeverDoublesAlways == Spec => []NetworkNeverDoubles
<1>1. TokenInv => NetworkNeverDoubles
  BY DEF TokenInv, Facts, NetworkNeverDoubles
<1>2. QED
  BY <1>1, TokenInvariant, PTL

\* The first attempt of a call arrives with a valid token: twice the timeout is
\* the slack that it takes (adapters/naver.py: _access_token).
THEOREM FirstTryIsFreshAlways == Spec => FirstTryIsFresh
<1>1. TokenInv /\ [Next]_vars =>
        [\A t \in Threads :
           /\ call[t].pc = "connect" /\ call'[t].pc = "wait"
           /\ call[t].stage = "api" /\ call[t].attempt = 0
           => call[t].held > 0]_vars
  <2> SUFFICES ASSUME TokenInv, NEW t \in Threads, call[t].pc = "connect",
                      call[t].stage = "api", call[t].attempt = 0
               PROVE  call[t].held > 0
    OBVIOUS
  <2>1. call[t] \in Calls /\ Facts(call[t], token)
    BY DEF TokenInv, TypeOK
  <2>2. QED
    BY <2>1 DEF Calls, Facts
<1>2. QED
  BY <1>1, TokenInvariant, PTL DEF Spec, FirstTryIsFresh
=============================================================================
