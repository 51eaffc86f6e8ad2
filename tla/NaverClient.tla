------------------------------ MODULE NaverClient ------------------------------
(***************************************************************************)
(* One naver adapter (jikgugom/adapters/naver.py) used by several threads: *)
(* its cached access token and the single HTTP call with retries that all  *)
(* its requests go through (jikgugom/adapters/_http.py).                   *)
(*                                                                         *)
(* Time passes in units; a moment is kept as the time until it or since    *)
(* it, 0 when it is over.  Steps of a thread take no time, only the        *)
(* network and the sleeps do.                                              *)
(***************************************************************************)
EXTENDS Integers

CONSTANTS
  Threads,
  Timeout,      \* of one connect and of one wait for an answer
  Slack,        \* how long before its end a token is no longer reused
  TokenLife,    \* expires_in, from the moment the shop issues a token
  MaxRetries,   \* max_retries
  Backoffs,     \* the sleep before each retry
  RetryAfters   \* what a busy shop may ask for in Retry-After

ASSUME ClientAssumption ==
  /\ Timeout \in Nat \ {0} /\ Slack \in Nat /\ TokenLife \in Nat
  /\ 2 * Timeout <= Slack /\ Slack < TokenLife
  /\ MaxRetries \in Nat /\ Backoffs \in [0..(MaxRetries - 1) -> Nat]
  /\ RetryAfters \subseteq Nat

VARIABLES
  token,   \* _token: the time it still lives, -1 when there is none
  exp,     \* _token_exp: the time it is believed to live
  call     \* [Threads -> the request a thread waits for]

vars == <<token, exp, call>>

NoToken == -1

\* stage: the request for a token or the one that was asked for; timer: what
\* is left of the connect, the wait or the sleep; age: the time since "now" was
\* read; held: the life of the token in the header, or of the one received;
\* unheard: whether the shop has done what was asked for and no answer has come.
Idle == [pc |-> "idle", stage |-> "api", attempt |-> 0, timer |-> 0, age |-> 0,
         held |-> 0, unheard |-> FALSE]

Init == token = NoToken /\ exp = 0 /\ call = [t \in Threads |-> Idle]

Begin(stage, held) ==
  [pc |-> "connect", stage |-> stage, attempt |-> 0, timer |-> Timeout, age |-> 0,
   held |-> held, unheard |-> FALSE]

\* Mutant: a token is used to its end.
ReusableToTheEnd == token # NoToken /\ exp > 0

Reusable == token # NoToken /\ exp > Slack

\* _api: the header is built, with the cached token or with a new one, before
\* the first attempt and for all of them.
Call(t) ==
  /\ call[t].pc = "idle"
  /\ call' = [call EXCEPT ![t] =
       IF Reusable THEN Begin("api", token) ELSE Begin("token", 0)]
  /\ UNCHANGED <<token, exp>>

Connected(t) ==
  /\ call[t].pc = "connect"
  /\ call' = [call EXCEPT ![t].pc = "wait", ![t].timer = Timeout]
  /\ UNCHANGED <<token, exp>>

\* The call is over: with the answer, an AdapterError or another exception.
Return(t) ==
  /\ call' = [call EXCEPT ![t] = Idle]
  /\ UNCHANGED <<token, exp>>

\* Sleeps before the next attempt, or gives up after the last.
Retry(t, pause, unheard) ==
  IF call[t].attempt < MaxRetries
  THEN /\ call' = [call EXCEPT ![t].pc = "sleep", ![t].timer = pause,
                             ![t].unheard = unheard]
       /\ UNCHANGED <<token, exp>>
  ELSE Return(t)

\* A connect that fails or takes too long is a URLError.
ConnectFails(t) ==
  /\ call[t].pc = "connect"
  /\ Retry(t, Backoffs[call[t].attempt], call[t].unheard)
-----------------------------------------------------------------------------
\* The shop does what an authorised request asks for, and may fail to say so.
Act(t) ==
  /\ call[t].pc = "wait" /\ call[t].stage = "api" /\ call[t].held > 0
  /\ call' = [call EXCEPT ![t].pc = "acted", ![t].unheard = TRUE]
  /\ UNCHANGED <<token, exp>>

\* The request has been sent and its answer has not come.
Sent(t) == call[t].pc \in {"wait", "acted"}

\* Mutant: the attempt is not counted.
BusyForEver(t) ==
  /\ Sent(t)
  /\ \E pause \in RetryAfters \cup {Backoffs[n] : n \in DOMAIN Backoffs} :
       call' = [call EXCEPT ![t].pc = "sleep", ![t].timer = pause, ![t].attempt = 0]
  /\ UNCHANGED <<token, exp>>

\* Mutant: the attempts are counted and not compared.
BusyWithoutLimit(t) ==
  /\ Sent(t)
  /\ \E pause \in RetryAfters \cup {Backoffs[n] : n \in DOMAIN Backoffs} :
       call' = [call EXCEPT ![t].pc = "sleep", ![t].timer = pause, ![t].unheard = FALSE]
  /\ UNCHANGED <<token, exp>>

\* 429 or 5xx: the header Retry-After decides how long to sleep, if there is one.
Busy(t) ==
  /\ Sent(t)
  /\ IF call[t].attempt < MaxRetries
     THEN \E pause \in RetryAfters \cup {Backoffs[call[t].attempt]} : Retry(t, pause, FALSE)
     ELSE Return(t)

\* A refusal is an AdapterError, and so is an answer that is no JSON; neither is
\* tried again.  A token that is over is refused.
Refused(t) ==
  /\ Sent(t)
  /\ Return(t)

\* Mutant: a broken answer is retried as a broken connect is.
AnswerBreaksRetried(t) ==
  /\ Sent(t)
  /\ Retry(t, Backoffs[call[t].attempt], call[t].unheard)

\* The answer does not come in time or breaks off: no URLError, not retried.
AnswerBreaks(t) ==
  /\ Sent(t)
  /\ Return(t)

Answered(t) ==
  /\ call[t].pc = "acted"
  /\ Return(t)

\* The shop issued the token at some time since the request reached it.
TokenReceived(t) ==
  /\ call[t].pc = "wait" /\ call[t].stage = "token"
  /\ \E ago \in 0..(Timeout - call[t].timer) :
       call' = [call EXCEPT ![t].pc = "store_token", ![t].timer = 0, ![t].held = TokenLife - ago]
  /\ UNCHANGED <<token, exp>>

StoreToken(t) ==
  /\ call[t].pc = "store_token"
  /\ token' = call[t].held
  /\ call' = [call EXCEPT ![t].pc = "store_exp"]
  /\ UNCHANGED exp

\* The end is reckoned from the time before the request; what goes into the
\* header is the token that is cached by now.
StoreExp(t) ==
  /\ call[t].pc = "store_exp"
  /\ exp' = TokenLife - call[t].age
  /\ call' = [call EXCEPT ![t] = Begin("api", token)]
  /\ UNCHANGED token

Wake(t) ==
  /\ call[t].pc = "sleep" /\ call[t].timer = 0
  /\ call' = [call EXCEPT ![t].pc = "connect", ![t].timer = Timeout, ![t].attempt = @ + 1]
  /\ UNCHANGED <<token, exp>>

Step(t) ==
  \/ Connected(t) \/ ConnectFails(t)
  \/ Busy(t) \/ Refused(t) \/ AnswerBreaks(t) \/ Answered(t) \/ TokenReceived(t)
  \/ StoreToken(t) \/ StoreExp(t)
  \/ Wake(t)
-----------------------------------------------------------------------------
Less(n) == IF n > 0 THEN n - 1 ELSE n

\* Time does not pass by a thread that has something to do at once.
MayWait(c) ==
  \/ c.pc = "idle"
  \/ c.pc \in {"connect", "wait", "acted", "sleep"} /\ c.timer > 0

Later(c) ==
  IF c.pc = "idle" THEN c
  ELSE [c EXCEPT !.timer = @ - 1, !.held = Less(@),
                 !.age = IF c.stage = "token" /\ @ < TokenLife THEN @ + 1 ELSE @]

Tick ==
  /\ \A t \in Threads : MayWait(call[t])
  /\ token' = Less(token)
  /\ exp' = Less(exp)
  /\ call' = [t \in Threads |-> Later(call[t])]

Next == Tick \/ \E t \in Threads : Call(t) \/ Act(t) \/ Step(t)

\* Clocks run whatever the threads do, sockets have a timeout and threads are
\* scheduled.
Fairness == SF_vars(Tick) /\ \A t \in Threads : WF_vars(Step(t))

Spec == Init /\ [][Next]_vars /\ Fairness
-----------------------------------------------------------------------------
Calls ==
  [pc: {"idle", "connect", "wait", "acted", "sleep", "store_token", "store_exp"},
   stage: {"token", "api"}, attempt: 0..MaxRetries, timer: Nat, age: 0..TokenLife,
   held: 0..TokenLife, unheard: BOOLEAN]

TypeOK ==
  /\ token \in -1..TokenLife
  /\ exp \in 0..TokenLife
  /\ call \in [Threads -> Calls]

\* The first attempt of a call reaches the shop with a token that is still
\* valid, however the threads that refresh the token cross each other and
\* however long the connect takes (adapters/naver.py: _access_token).
FirstTryIsFresh ==
  [][\A t \in Threads :
       /\ call[t].pc = "connect" /\ call'[t].pc = "wait"
       /\ call[t].stage = "api" /\ call[t].attempt = 0
       => call[t].held > 0]_vars

\* What the shop has done for a request is not asked for again because the
\* network failed: only an answer that tells of a failure leads to a retry
\* (adapters/_http.py: request_json).
NetworkNeverDoubles ==
  \A t \in Threads : call[t].pc \in {"sleep", "connect"} => ~call[t].unheard

\* No request is waited for for ever: whatever the shop and the network do, and
\* however often the token has to be fetched, the thread is given back.
CallReturns == \A t \in Threads : call[t].pc # "idle" ~> call[t].pc = "idle"
=============================================================================
